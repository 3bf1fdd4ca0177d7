--------------------------- MODULE RowLocksProofs ---------------------------
(***************************************************************************)
(* For any requests, workers, operators and either database: although its  *)
(* transactions interleave statement by statement, AutomationRepository    *)
(* loses no update and implements the lifecycle with exclusive owners.     *)
(***************************************************************************)
EXTENDS RowLocks, TLAPS

Busy == {"update", "replay"} \cup Owning

(* TypeOK does not say that attempt_count is a function on Requests.       *)
Types == TypeOK /\ attempt_count \in [Requests -> Nat]

Labels == {"idle", "begin"} \cup InTransaction \cup Owning

ScansTyped == /\ due \in [Sessions -> SUBSET Requests]
              /\ snapshot \in [Sessions -> SUBSET Requests]

(* A row's status says how much of its attempt budget is used.             *)
Budget(r) ==
  /\ attempt_count[r] <= MaxAttempts[r]
  /\ status[r] \in {"absent", "queued"} => attempt_count[r] = 0
  /\ status[r] = "retrying" => attempt_count[r] < MaxAttempts[r]
  /\ status[r] = "dead_letter" => attempt_count[r] = MaxAttempts[r]

(* What a session relies on between two of its statements: a row lock, or  *)
(* the status "running", which nobody but the owner takes away.            *)
Relies(s) ==
  /\ pc[s] \in {"scan", "update"} \cup Owning => s \in Workers
  /\ pc[s] \in Busy => held[s] \in Requests
  /\ pc[s] = "update" => Claimable(held[s])
  /\ pc[s] = "replay" => status[held[s]] = "dead_letter"
  /\ pc[s] \in {"update", "replay"} => lock[LockOf(held[s])] = s
  /\ pc[s] \in Owning => status[held[s]] = "running"
  /\ pc[s] \in {"update", "failing", "record_failure", "replay"} =>
       seen[s] = attempt_count[held[s]]

OneOwner ==
  \A s, t \in Sessions :
    pc[s] \in Owning /\ pc[t] \in Owning /\ held[s] = held[t] => s = t

LocksInv ==
  /\ Types
  /\ \A r \in Requests : Budget(r)
  /\ \A s \in Sessions : Relies(s)
  /\ OneOwner

-----------------------------------------------------------------------------
LEMMA Typed ==
  ASSUME LocksInv
  PROVE  /\ dialect \in Dialects
         /\ status \in [Requests -> {"absent", "queued", "running", "retrying",
                                     "completed", "dead_letter"}]
         /\ attempt_count \in [Requests -> Nat]
         /\ lock \in [Lockable -> Sessions \cup {Nobody}]
         /\ pc \in [Sessions -> Labels]
         /\ future \subseteq Requests /\ ScansTyped
         /\ held \in [Sessions -> Requests \cup {Nobody}]
         /\ seen \in [Sessions -> Nat]
         /\ faults \in 0..MaxFaults /\ replays \in 0..MaxReplays
         /\ \A r \in Requests : LockOf(r) \in Lockable
BY DEF LocksInv, Types, TypeOK, Labels, ScansTyped, LockOf, Lockable

(* Two sessions that work on one row are the same session.                 *)
LEMMA Alone ==
  ASSUME LocksInv, NEW s \in Sessions, NEW t \in Sessions,
         pc[s] \in Busy, pc[t] \in Busy, held[s] = held[t]
  PROVE  s = t
<1>1. Relies(s) /\ Relies(t)
  BY DEF LocksInv
<1>2. CASE pc[s] \in Owning /\ pc[t] \in Owning
  BY <1>2 DEF LocksInv, OneOwner
<1>3. CASE pc[s] \in {"update", "replay"} /\ pc[t] \in {"update", "replay"}
  BY <1>1, <1>3 DEF Relies
<1>4. CASE \/ pc[s] \in Owning /\ pc[t] \in {"update", "replay"}
           \/ pc[t] \in Owning /\ pc[s] \in {"update", "replay"}
  BY <1>1, <1>4 DEF Relies, Claimable
<1> QED
  BY <1>2, <1>3, <1>4 DEF Busy

(* A session keeps what it relies on while others take no lock of its and  *)
(* do not write the row it works on.                                       *)
LEMMA Undisturbed ==
  ASSUME LocksInv, NEW t \in Sessions,
         dialect' = dialect, pc'[t] = pc[t], held'[t] = held[t], seen'[t] = seen[t],
         \A l \in Lockable : lock[l] = t => lock'[l] = t,
         pc[t] \in Busy => /\ status'[held[t]] = status[held[t]]
                           /\ attempt_count'[held[t]] = attempt_count[held[t]]
  PROVE  Relies(t)'
<1>1. Relies(t) /\ (pc[t] \in Busy => LockOf(held[t]) \in Lockable)
  BY Typed DEF LocksInv, Relies
<1> QED
  BY <1>1 DEF Relies, Busy, Claimable, LockOf, Owning

(* Releasing a session's locks, or taking a free one, takes no lock of     *)
(* another session.                                                        *)
LEMMA OthersKeepLocks ==
  ASSUME LocksInv, NEW s \in Sessions, NEW t \in Sessions, s # t,
         \/ UNCHANGED lock
         \/ Release(s)
         \/ \E l \in Lockable : Free(s, l) /\ lock' = [lock EXCEPT ![l] = s]
  PROVE  \A l \in Lockable : lock[l] = t => lock'[l] = t
<1>1. t # Nobody /\ lock \in [Lockable -> Sessions \cup {Nobody}]
  BY Typed, RowLocksAssumption DEF RowLocksAssumption, Sessions
<1> QED
  BY <1>1 DEF Release, Free

LEMMA LocksTyped ==
  ASSUME LocksInv, NEW s \in Sessions,
         \/ UNCHANGED lock
         \/ Release(s)
         \/ \E l \in Lockable : Free(s, l) /\ lock' = [lock EXCEPT ![l] = s]
  PROVE  lock' \in [Lockable -> Sessions \cup {Nobody}]
BY Typed DEF Release

(* A session moves alone: of pc, held and seen only its entries change.    *)
Moves(s, label) ==
  /\ pc' = [pc EXCEPT ![s] = label]
  /\ \A t \in Sessions \ {s} : held'[t] = held[t] /\ seen'[t] = seen[t]

(* A step of one session that writes no row.                               *)
LEMMA QuietStep ==
  ASSUME LocksInv, NEW s \in Sessions,
         NEW label \in Labels,
         Moves(s, label), UNCHANGED <<dialect, tableVars>>,
         \/ UNCHANGED lock
         \/ Release(s)
         \/ \E l \in Lockable : Free(s, l) /\ lock' = [lock EXCEPT ![l] = s],
         ScansTyped',
         held' \in [Sessions -> Requests \cup {Nobody}],
         seen' \in [Sessions -> Nat],
         faults' \in 0..MaxFaults, replays' \in 0..MaxReplays,
         future' \subseteq Requests,
         label \in Owning => pc[s] \in Owning /\ held'[s] = held[s],
         Relies(s)'
  PROVE  LocksInv'
<1>1. Types'
  BY Typed, LocksTyped DEF Types, TypeOK, Labels, ScansTyped, tableVars, LocksInv, Moves
<1>2. \A r \in Requests : Budget(r)'
  BY DEF LocksInv, Budget, tableVars
<1>3. \A t \in Sessions : Relies(t)'
  <2> SUFFICES ASSUME NEW t \in Sessions, t # s PROVE Relies(t)'
    OBVIOUS
  <2>1. pc'[t] = pc[t] /\ held'[t] = held[t] /\ seen'[t] = seen[t]
    BY Typed DEF Moves
  <2>2. \A l \in Lockable : lock[l] = t => lock'[l] = t
    BY OthersKeepLocks
  <2> QED
    BY <2>1, <2>2, Undisturbed DEF tableVars
<1>4. OneOwner'
  <2> SUFFICES ASSUME NEW t \in Sessions, NEW u \in Sessions,
                      pc'[t] \in Owning, pc'[u] \in Owning, held'[t] = held'[u]
               PROVE  t = u
    BY DEF OneOwner
  <2>1. \A v \in {t, u} : pc[v] \in Owning /\ held'[v] = held[v]
    BY Typed DEF Moves
  <2> QED
    BY <2>1 DEF LocksInv, OneOwner
<1> QED
  BY <1>1, <1>2, <1>3, <1>4 DEF LocksInv

(* A step by which a session writes the row it works on, frees its locks   *)
(* and is either idle or the owner.                                        *)
LEMMA WritingStep ==
  ASSUME LocksInv, NEW s \in Sessions, NEW label \in {"idle", "owner"},
         Moves(s, label), UNCHANGED dialect, Release(s),
         pc[s] \in Busy, held'[s] \in {held[s], Nobody},
         NEW st \in {"queued", "running", "retrying", "completed", "dead_letter"},
         NEW n \in Nat,
         status' = [status EXCEPT ![held[s]] = st],
         attempt_count' = [attempt_count EXCEPT ![held[s]] = n],
         ScansTyped',
         held' \in [Sessions -> Requests \cup {Nobody}],
         seen' \in [Sessions -> Nat],
         faults' \in 0..MaxFaults, replays' \in 0..MaxReplays,
         future' \subseteq Requests,
         label = "owner" => s \in Workers /\ held'[s] = held[s] /\ st = "running",
         n <= MaxAttempts[held[s]],
         st = "queued" => n = 0,
         st = "retrying" => n < MaxAttempts[held[s]],
         st = "dead_letter" => n = MaxAttempts[held[s]]
  PROVE  LocksInv'
<1>1. PICK r \in Requests : r = held[s]
  BY DEF LocksInv, Relies
<1>2. /\ status'[r] = st /\ attempt_count'[r] = n
      /\ \A q \in Requests \ {r} : status'[q] = status[q] /\ attempt_count'[q] = attempt_count[q]
      /\ status' \in [Requests -> {"absent", "queued", "running", "retrying",
                                   "completed", "dead_letter"}]
      /\ attempt_count' \in [Requests -> Nat]
  BY <1>1, Typed
<1>3. \A q \in Requests : Budget(q)'
  BY <1>1, <1>2 DEF LocksInv, Budget
<1>4. Types'
  <2>1. MaxAttempts \in [Requests -> Nat]
    BY RowLocksAssumption DEF RowLocksAssumption
  <2>2. \A q \in Requests : attempt_count'[q] \in 0..MaxAttempts[q]
    BY <1>2, <1>3, <2>1 DEF Budget
  <2> QED
    BY <1>2, <2>2, Typed, LocksTyped
    DEF Types, TypeOK, Labels, ScansTyped, LocksInv, Moves, Owning
<1>5. pc'[s] = label /\ \A t \in Sessions \ {s} : pc'[t] = pc[t]
  BY Typed DEF Moves
<1>6. \A t \in Sessions : Relies(t)'
  <2> SUFFICES ASSUME NEW t \in Sessions PROVE Relies(t)'
    OBVIOUS
  <2>1. CASE t = s
    BY <1>1, <1>2, <1>5, <2>1 DEF Relies, Busy, Owning
  <2>2. CASE t # s
    <3>1. pc'[t] = pc[t] /\ held'[t] = held[t] /\ seen'[t] = seen[t]
      BY <1>5, <2>2 DEF Moves
    <3>2. \A l \in Lockable : lock[l] = t => lock'[l] = t
      BY <2>2, OthersKeepLocks
    <3>3. pc[t] \in Busy => held[t] \in Requests \ {r}
      BY <1>1, <2>2, Alone DEF LocksInv, Relies
    <3> QED
      BY <1>2, <3>1, <3>2, <3>3, Undisturbed
  <2> QED
    BY <2>1, <2>2
<1>7. OneOwner'
  <2> SUFFICES ASSUME NEW t \in Sessions, NEW u \in Sessions,
                      pc'[t] \in Owning, pc'[u] \in Owning, held'[t] = held'[u]
               PROVE  t = u
    BY DEF OneOwner
  <2>1. \A v \in {t, u} : pc[v] \in Busy /\ held'[v] = held[v]
    BY <1>5 DEF Moves, Owning, Busy
  <2> QED
    BY <2>1, Alone
<1> QED
  BY <1>3, <1>4, <1>6, <1>7 DEF LocksInv

LEMMA LocksInit == Init => LocksInv
<1> SUFFICES ASSUME Init PROVE LocksInv
  OBVIOUS
<1>1. MaxAttempts \in [Requests -> Nat \ {0}] /\ MaxFaults \in Nat /\ MaxReplays \in Nat
  BY RowLocksAssumption DEF RowLocksAssumption
<1>2. Types
  BY <1>1 DEF Init, Types, TypeOK
<1>3. \A r \in Requests : Budget(r)
  <2> SUFFICES ASSUME NEW r \in Requests PROVE Budget(r)
    OBVIOUS
  <2>1. status[r] = "absent" /\ attempt_count[r] = 0 /\ MaxAttempts[r] \in Nat \ {0}
    BY <1>1 DEF Init
  <2> QED
    BY <2>1 DEF Budget
<1>4. (\A s \in Sessions : Relies(s)) /\ OneOwner
  BY DEF Init, Relies, OneOwner, Busy, Owning
<1> QED
  BY <1>2, <1>3, <1>4 DEF LocksInv

-----------------------------------------------------------------------------
(* The steps of a session, one by one.                                     *)
LEMMA Leaving ==
  ASSUME LocksInv, NEW s \in Sessions, Leave(s)
  PROVE  /\ Moves(s, "idle") /\ Relies(s)'
         /\ held'[s] = Nobody
         /\ ScansTyped'
         /\ held' \in [Sessions -> Requests \cup {Nobody}]
         /\ seen' \in [Sessions -> Nat]
<1>1. /\ pc' = [pc EXCEPT ![s] = "idle"] /\ held' = [held EXCEPT ![s] = Nobody]
      /\ seen' = [seen EXCEPT ![s] = 0] /\ snapshot' = [snapshot EXCEPT ![s] = {}]
      /\ due' = [due EXCEPT ![s] = {}]
  BY DEF Leave, GoTo
<1>2. Moves(s, "idle")
  BY <1>1, Typed DEF Moves
<1>3. pc'[s] = "idle"
  BY <1>1, Typed
<1>4. Relies(s)'
  BY <1>3 DEF Relies, Busy, Owning
<1> QED
  BY <1>1, <1>2, <1>4, Typed DEF ScansTyped

LEMMA Reading ==
  ASSUME LocksInv, NEW s \in Sessions, NEW r \in Requests, Read(s, r)
  PROVE  /\ held'[s] = r /\ seen'[s] = attempt_count[r]
         /\ \A t \in Sessions \ {s} : held'[t] = held[t] /\ seen'[t] = seen[t]
         /\ held' \in [Sessions -> Requests \cup {Nobody}]
         /\ seen' \in [Sessions -> Nat]
BY Typed DEF Read

(* Taking the lock of a row that is free for the session.                  *)
LEMMA Locking ==
  ASSUME LocksInv, NEW s \in Sessions, NEW r \in Requests,
         CanLock(s, r), Lock(s, r), UNCHANGED dialect
  PROVE  /\ \E l \in Lockable : Free(s, l) /\ lock' = [lock EXCEPT ![l] = s]
         /\ lock'[LockOf(r)] = s /\ LockOf(r)' = LockOf(r)
<1>1. LockOf(r) \in Lockable
  BY Typed
<1> QED
  BY <1>1, Typed DEF CanLock, Lock, LockOf

LEMMA NowIsRead ==
  ASSUME LocksInv, NEW w \in Workers, ReadNow(w), UNCHANGED dialect
  PROVE  LocksInv'
<1>0. w \in Sessions /\ ClaimableRows \subseteq Requests
  BY DEF Sessions, ClaimableRows
<1>1. /\ Moves(w, "begin") /\ pc'[w] = "begin"
      /\ "begin" \in Labels /\ "begin" \notin Owning
  BY <1>0, Typed DEF ReadNow, GoTo, Moves, Labels, Owning
<1>2. ScansTyped'
  BY <1>0, Typed DEF ReadNow, ScansTyped
<1>3. Relies(w)'
  BY <1>1 DEF Relies, Busy, Owning
<1> QED
  BY <1>0, <1>1, <1>2, <1>3, Typed, QuietStep DEF ReadNow, tableVars

LEMMA ClaimStarts ==
  ASSUME LocksInv, NEW w \in Workers, StartClaim(w), UNCHANGED dialect
  PROVE  LocksInv'
<1>0. w \in Sessions
  BY DEF Sessions
<1>1. Moves(w, "scan") /\ pc'[w] = "scan"
  BY <1>0, Typed DEF StartClaim, GoTo, Moves
<1>2. PICK rows \in Visible(w) : /\ snapshot' = [snapshot EXCEPT ![w] = rows]
                                 /\ due' = [due EXCEPT ![w] = rows]
  BY DEF StartClaim
<1>3. rows \subseteq Requests
  BY <1>2 DEF Visible, Eligible, ClaimableRows
<1>4. "scan" \in Labels
  BY DEF Labels, InTransaction
<1>5. ScansTyped'
  BY <1>2, <1>3, Typed DEF ScansTyped
<1>6. \/ UNCHANGED lock
      \/ \E l \in Lockable : Free(w, l) /\ lock' = [lock EXCEPT ![l] = w]
  BY DEF StartClaim, Lockable
<1>7. Relies(w)'
  BY <1>1 DEF Relies, Busy, Owning
<1>8. "scan" \notin Owning
  BY DEF Owning
<1> QED
  BY <1>0, <1>1, <1>4, <1>5, <1>6, <1>7, <1>8, Typed, QuietStep DEF StartClaim, tableVars

LEMMA RowIsPassed ==
  ASSUME LocksInv, NEW w \in Workers, pc[w] = "scan", NEW r, PassOver(w, r),
         \/ UNCHANGED lock
         \/ \E l \in Lockable : Free(w, l) /\ lock' = [lock EXCEPT ![l] = w],
         UNCHANGED <<dialect, tableVars, future, pc, due, held, seen, faults, replays>>
  PROVE  LocksInv'
<1>0. w \in Sessions
  BY DEF Sessions
<1>1. Moves(w, "scan") /\ pc'[w] = "scan"
  BY <1>0, Typed DEF Moves
<1>2. ScansTyped'
  <2>1. snapshot' = [snapshot EXCEPT ![w] = snapshot[w] \ {r}]
    BY <1>0, Typed DEF PassOver
  <2>2. snapshot[w] \ {r} \in SUBSET Requests
    BY <1>0, Typed DEF ScansTyped
  <2> QED
    BY <2>1, <2>2, Typed DEF ScansTyped
<1>3. Relies(w)'
  BY <1>1 DEF Relies, Busy, Owning
<1>4. "scan" \notin Owning /\ "scan" \in Labels
  BY DEF Owning, Labels, InTransaction
<1> QED
  BY <1>0, <1>1, <1>2, <1>3, <1>4, Typed, QuietStep DEF tableVars

LEMMA RowIsLocked ==
  ASSUME LocksInv, NEW w \in Workers, NEW r \in Requests, LockRow(w, r), UNCHANGED dialect
  PROVE  LocksInv'
<1>0. w \in Sessions
  BY DEF Sessions
<1>1. /\ \E l \in Lockable : Free(w, l) /\ lock' = [lock EXCEPT ![l] = w]
      /\ lock'[LockOf(r)] = w /\ LockOf(r)' = LockOf(r)
      /\ pc[w] = "scan" /\ UNCHANGED <<tableVars, future, faults, replays>>
  BY <1>0, Locking DEF LockRow
<1>2. CASE /\ Claimable(r) /\ GoTo(w, "update") /\ Read(w, r)
           /\ due' = [due EXCEPT ![w] = {}] /\ snapshot' = [snapshot EXCEPT ![w] = {}]
  <2>1. /\ held'[w] = r /\ seen'[w] = attempt_count[r]
        /\ \A t \in Sessions \ {w} : held'[t] = held[t] /\ seen'[t] = seen[t]
        /\ held' \in [Sessions -> Requests \cup {Nobody}]
        /\ seen' \in [Sessions -> Nat]
    BY <1>0, <1>2, Reading
  <2>2. Moves(w, "update") /\ pc'[w] = "update"
    BY <1>0, <1>2, <2>1, Typed DEF Moves, GoTo
  <2>3. Relies(w)'
    BY <1>1, <1>2, <2>1, <2>2 DEF Relies, Owning, Busy, Claimable, tableVars
  <2>4. "update" \notin Owning /\ "update" \in Labels /\ ScansTyped'
    BY <1>2, Typed DEF Owning, Labels, InTransaction, ScansTyped
  <2> QED
    BY <1>0, <1>1, <1>2, <2>1, <2>2, <2>3, <2>4, Typed, QuietStep DEF tableVars
<1>3. CASE PassOver(w, r) /\ UNCHANGED <<pc, due, held, seen>>
  BY <1>1, <1>3, RowIsPassed
<1> QED
  BY <1>2, <1>3 DEF LockRow

LEMMA SessionLeaves ==
  ASSUME LocksInv, NEW s \in Sessions, Leave(s), Release(s),
         UNCHANGED <<dialect, tableVars, future, replays>>, faults' \in 0..MaxFaults
  PROVE  LocksInv'
<1>1. "idle" \notin Owning /\ "idle" \in Labels
  BY DEF Owning, Labels
<1> QED
  BY <1>1, Typed, Leaving, QuietStep DEF tableVars

LEMMA ClaimCommits ==
  ASSUME LocksInv, NEW w \in Workers, CommitClaim(w), UNCHANGED dialect
  PROVE  LocksInv'
<1>0. w \in Sessions /\ pc[w] = "update" /\ pc[w] \in Busy
  BY DEF Sessions, CommitClaim, WriteClaim, Busy
<1>1. Moves(w, "owner") /\ held'[w] = held[w] /\ held' = held /\ seen' = seen
  BY <1>0, Typed DEF CommitClaim, WriteClaim, GoTo, Moves
<1>2. PICK r \in Requests : r = held[w] /\ Claimable(r) /\ seen[w] = attempt_count[r]
  BY <1>0 DEF LocksInv, Relies
<1>3. /\ attempt_count[r] \in Nat /\ MaxAttempts[r] \in Nat \ {0}
      /\ attempt_count[r] < MaxAttempts[r]
  <2>1. attempt_count[r] \in Nat /\ MaxAttempts[r] \in Nat \ {0} /\ Budget(r)
    BY Typed, RowLocksAssumption DEF RowLocksAssumption, LocksInv
  <2> QED
    BY <1>2, <2>1 DEF Budget, Claimable
<1>4. PICK n \in Nat : n = seen[w] + 1 /\ n <= MaxAttempts[held[w]]
  BY <1>2, <1>3
<1>5. /\ status' = [status EXCEPT ![held[w]] = "running"]
      /\ attempt_count' = [attempt_count EXCEPT ![held[w]] = n]
      /\ Release(w)
  BY <1>4 DEF CommitClaim, WriteClaim
<1>6. ScansTyped'
  BY Typed DEF CommitClaim, WriteClaim, ScansTyped
<1> QED
  BY <1>0, <1>1, <1>4, <1>5, <1>6, Typed, WritingStep DEF CommitClaim, WriteClaim

LEMMA AttemptsAreRead ==
  ASSUME LocksInv, NEW w \in Workers, ReadAttempts(w), UNCHANGED dialect
  PROVE  LocksInv'
<1>0. w \in Sessions /\ pc[w] \in Owning /\ pc[w] \in Busy
  BY DEF Sessions, ReadAttempts, Busy, Owning
<1>1. PICK r \in Requests : r = held[w] /\ status[r] = "running"
  BY <1>0 DEF LocksInv, Relies
<1>2. /\ held'[w] = r /\ seen'[w] = attempt_count[r]
      /\ \A t \in Sessions \ {w} : held'[t] = held[t] /\ seen'[t] = seen[t]
      /\ held' \in [Sessions -> Requests \cup {Nobody}]
      /\ seen' \in [Sessions -> Nat]
  BY <1>0, <1>1, Reading DEF ReadAttempts
<1>3. /\ Moves(w, "failing") /\ pc'[w] = "failing"
      /\ "failing" \in Owning /\ "failing" \in Labels /\ ScansTyped'
  BY <1>0, <1>2, Typed DEF ReadAttempts, GoTo, Moves, Owning, Labels, ScansTyped
<1>4. Relies(w)'
  BY <1>1, <1>2, <1>3 DEF ReadAttempts, Relies, tableVars, Owning
<1> QED
  BY <1>0, <1>1, <1>2, <1>3, <1>4, Typed, QuietStep DEF ReadAttempts, tableVars

LEMMA CompletionStarts ==
  ASSUME LocksInv, NEW w \in Workers, StartCompletion(w), UNCHANGED dialect
  PROVE  LocksInv'
<1>0. w \in Sessions /\ pc[w] \in Owning /\ pc[w] \in Busy
  BY DEF Sessions, StartCompletion, Busy, Owning
<1>1. /\ Moves(w, "completing") /\ pc'[w] = "completing" /\ "completing" \in Owning
      /\ "completing" \in Labels /\ ScansTyped'
      /\ held' = held /\ seen' = seen /\ lock' = lock
      /\ UNCHANGED <<tableVars, future, faults, replays>>
  BY <1>0, Typed DEF StartCompletion, GoTo, Moves, Owning, Labels, ScansTyped
<1>2. Relies(w)'
  BY <1>0, <1>1 DEF LocksInv, Relies, tableVars, Owning, Busy
<1> QED
  BY <1>0, <1>1, <1>2, Typed, QuietStep

LEMMA OutcomeIsLocked ==
  ASSUME LocksInv, NEW w \in Workers, UpdateOutcome(w), UNCHANGED dialect
  PROVE  LocksInv'
<1>0. w \in Sessions /\ pc[w] \in Owning /\ pc[w] \in Busy
  BY DEF Sessions, UpdateOutcome, Busy, Owning
<1>1. PICK label \in {"record_failure", "record_completion"} :
        /\ GoTo(w, label)
        /\ label = "record_failure" => pc[w] = "failing"
  BY DEF UpdateOutcome
<1>2. /\ Moves(w, label) /\ pc'[w] = label /\ label \in Owning
      /\ label \in Labels /\ held' = held /\ seen' = seen /\ ScansTyped'
      /\ UNCHANGED <<tableVars, future, faults, replays>>
  BY <1>0, <1>1, Typed DEF UpdateOutcome, GoTo, Moves, Owning, Labels, ScansTyped
<1>3. Relies(w)'
  BY <1>0, <1>1, <1>2 DEF LocksInv, Relies, tableVars, Owning, Busy
<1>4. held[w] \in Requests
  BY <1>0 DEF LocksInv, Relies
<1>5. \E l \in Lockable : Free(w, l) /\ lock' = [lock EXCEPT ![l] = w]
  BY <1>0, <1>4, Locking DEF UpdateOutcome
<1> QED
  BY <1>0, <1>2, <1>3, <1>5, Typed, QuietStep

LEMMA OutcomeCommits ==
  ASSUME LocksInv, NEW w \in Workers, CommitOutcome(w), UNCHANGED dialect
  PROVE  LocksInv'
<1>0. w \in Sessions /\ pc[w] \in Owning /\ pc[w] \in Busy
  BY DEF Sessions, CommitOutcome, Busy, Owning
<1>1. PICK r \in Requests : r = held[w]
  BY <1>0 DEF LocksInv, Relies
<1>2. PICK n \in Nat : n = attempt_count[r]
  BY Typed
<1>3. attempt_count' = [attempt_count EXCEPT ![held[w]] = n]
  BY <1>1, <1>2, Typed DEF CommitOutcome
<1>4. /\ MaxAttempts[r] \in Nat /\ n <= MaxAttempts[r]
      /\ pc[w] = "record_failure" => seen[w] = n
  <2>1. Budget(r) /\ Relies(w)
    BY <1>0 DEF LocksInv
  <2> QED
    BY <1>1, <1>2, <2>1, RowLocksAssumption DEF Budget, Relies, RowLocksAssumption
<1>5. PICK st \in {"completed", "dead_letter", "retrying"} :
        /\ status' = [status EXCEPT ![held[w]] = st]
        /\ st = "dead_letter" => n = MaxAttempts[held[w]]
        /\ st = "retrying" => n < MaxAttempts[held[w]]
  <2>1. CASE pc[w] = "record_completion"
    BY <2>1 DEF CommitOutcome
  <2>2. CASE pc[w] = "record_failure" /\ n >= MaxAttempts[r]
    BY <1>1, <1>4, <2>2 DEF CommitOutcome
  <2>3. CASE pc[w] = "record_failure" /\ ~(n >= MaxAttempts[r])
    <3>1. n < MaxAttempts[r]
      BY <1>4, <2>3
    <3> QED
      BY <1>1, <1>4, <2>3, <3>1 DEF CommitOutcome
  <2> QED
    BY <2>1, <2>2, <2>3 DEF CommitOutcome
<1>6. Leave(w) /\ Release(w) /\ UNCHANGED <<faults, replays>>
  BY DEF CommitOutcome
<1>7. /\ Moves(w, "idle") /\ held'[w] = Nobody
      /\ ScansTyped'
      /\ held' \in [Sessions -> Requests \cup {Nobody}]
      /\ seen' \in [Sessions -> Nat]
  BY <1>0, <1>6, Leaving
<1>8. future' \subseteq Requests
  BY <1>1, Typed DEF CommitOutcome
<1> QED
  BY <1>0, <1>1, <1>3, <1>4, <1>5, <1>6, <1>7, <1>8, Typed, WritingStep

LEMMA ReplayStarts ==
  ASSUME LocksInv, NEW a \in Operators, NEW r \in Requests, StartReplay(a, r),
         UNCHANGED dialect
  PROVE  LocksInv'
<1>0. a \in Sessions /\ a \notin Workers
  BY RowLocksAssumption DEF RowLocksAssumption, Sessions
<1>1. /\ held'[a] = r /\ seen'[a] = attempt_count[r]
      /\ \A t \in Sessions \ {a} : held'[t] = held[t] /\ seen'[t] = seen[t]
      /\ held' \in [Sessions -> Requests \cup {Nobody}]
      /\ seen' \in [Sessions -> Nat]
  BY <1>0, Reading DEF StartReplay
<1>2. PICK label \in {"replay", "refuse"} :
        GoTo(a, label) /\ (label = "replay" => status[r] = "dead_letter")
  BY DEF StartReplay
<1>3. /\ \E l \in Lockable : Free(a, l) /\ lock' = [lock EXCEPT ![l] = a]
      /\ lock'[LockOf(r)] = a /\ LockOf(r)' = LockOf(r)
  BY <1>0, Locking DEF StartReplay
<1>4. /\ Moves(a, label) /\ pc'[a] = label /\ label \notin Owning
      /\ label \in Labels /\ ScansTyped'
  BY <1>0, <1>1, <1>2, Typed
  DEF StartReplay, GoTo, Moves, Owning, Labels, InTransaction, ScansTyped
<1>5. Relies(a)'
  BY <1>1, <1>2, <1>3, <1>4 DEF StartReplay, Relies, Busy, Owning, tableVars
<1>6. replays' \in 0..MaxReplays
  BY Typed, RowLocksAssumption DEF StartReplay, RowLocksAssumption
<1> QED
  BY <1>0, <1>1, <1>3, <1>4, <1>5, <1>6, Typed, QuietStep DEF StartReplay, tableVars

LEMMA ReplayCommits ==
  ASSUME LocksInv, NEW a \in Operators, CommitReplay(a), UNCHANGED dialect
  PROVE  LocksInv'
<1>0. a \in Sessions /\ pc[a] \in Busy
  BY DEF Sessions, CommitReplay, Busy
<1>1. PICK r \in Requests : r = held[a]
  BY <1>0 DEF LocksInv, Relies
<1>2. 0 <= MaxAttempts[held[a]] /\ future' \subseteq Requests
  BY <1>1, Typed, RowLocksAssumption DEF RowLocksAssumption, CommitReplay
<1>3. /\ Moves(a, "idle") /\ held'[a] = Nobody
      /\ ScansTyped'
      /\ held' \in [Sessions -> Requests \cup {Nobody}]
      /\ seen' \in [Sessions -> Nat]
  BY <1>0, Leaving DEF CommitReplay
<1> QED
  BY <1>0, <1>2, <1>3, Typed, WritingStep DEF CommitReplay

LEMMA RowIsInserted ==
  ASSUME LocksInv, NEW r \in Requests, Insert(r), UNCHANGED dialect
  PROVE  LocksInv'
<1>1. /\ status[r] = "absent" /\ status' = [status EXCEPT ![r] = "queued"]
      /\ future' = future \cup {r}
      /\ UNCHANGED <<attempt_count, lock, pc, due, snapshot, held, seen, faults, replays>>
  BY DEF Insert, sessionVars
<1>2. Types'
  BY <1>1, Typed DEF LocksInv, Types, TypeOK
<1>3. \A q \in Requests : Budget(q)'
  BY <1>1, Typed DEF LocksInv, Budget
<1>4. \A t \in Sessions : Relies(t)'
  <2> SUFFICES ASSUME NEW t \in Sessions PROVE Relies(t)'
    OBVIOUS
  <2>1. pc[t] \in Busy => held[t] \in Requests \ {r}
    BY <1>1 DEF LocksInv, Relies, Busy, Claimable
  <2> QED
    BY <1>1, <2>1, Typed, Undisturbed
<1>5. OneOwner'
  BY <1>1 DEF LocksInv, OneOwner
<1> QED
  BY <1>2, <1>3, <1>4, <1>5 DEF LocksInv

(* What nobody relies on: time.                                            *)
LEMMA TimeChangesNothing ==
  ASSUME LocksInv, future' \subseteq Requests,
         UNCHANGED <<dialect, tableVars, lock, sessionVars, faults, replays>>
  PROVE  LocksInv'
BY DEF tableVars, sessionVars, LocksInv, Types, TypeOK, Budget, Relies, OneOwner,
       Claimable, LockOf

LEMMA LocksKeep == LocksInv /\ [Next]_vars => LocksInv'
<1> SUFFICES ASSUME LocksInv, [Next]_vars PROVE LocksInv'
  OBVIOUS
<1>1. CASE UNCHANGED vars
  BY <1>1, Typed, TimeChangesNothing DEF vars
<1>2. ASSUME NEW w \in Workers, WorkerStep(w) PROVE LocksInv'
  <2>0. UNCHANGED dialect /\ w \in Sessions
    BY <1>2 DEF WorkerStep, Sessions
  <2>1. CASE StartClaim(w)
    BY <2>0, <2>1, ClaimStarts
  <2>2. CASE NothingToClaim(w)
    BY <2>0, <2>2, SessionLeaves, Typed DEF NothingToClaim
  <2>3. CASE CommitClaim(w)
    BY <2>0, <2>3, ClaimCommits
  <2>4. ASSUME NEW r \in Requests, SkipRow(w, r) PROVE LocksInv'
    BY <2>0, <2>4, RowIsPassed DEF SkipRow
  <2>5. ASSUME NEW r \in Requests, LockRow(w, r) PROVE LocksInv'
    BY <2>0, <2>5, RowIsLocked
  <2>6. CASE ReadAttempts(w)
    BY <2>0, <2>6, AttemptsAreRead
  <2>7. CASE StartCompletion(w)
    BY <2>0, <2>7, CompletionStarts
  <2>8. CASE UpdateOutcome(w)
    BY <2>0, <2>8, OutcomeIsLocked
  <2>9. CASE CommitOutcome(w)
    BY <2>0, <2>9, OutcomeCommits
  <2>10. CASE ReadNow(w)
    BY <2>0, <2>10, NowIsRead
  <2> QED
    BY <1>2, <2>1, <2>2, <2>3, <2>4, <2>5, <2>6, <2>7, <2>8, <2>9, <2>10 DEF WorkerStep
<1>3. CASE UNCHANGED dialect /\ \E r \in Requests : Insert(r)
  BY <1>3, RowIsInserted
<1>4. ASSUME UNCHANGED dialect, NEW a \in Operators, OperatorStep(a) PROVE LocksInv'
  <2>1. CASE RefuseReplay(a)
    BY <1>4, <2>1, SessionLeaves, Typed DEF RefuseReplay, Sessions
  <2> QED
    BY <1>4, <2>1, ReplayCommits, ReplayStarts DEF OperatorStep, EndReplay
<1>5. ASSUME UNCHANGED dialect, NEW s \in Sessions, Abort(s) PROVE LocksInv'
  <2>1. faults' \in 0..MaxFaults
    BY <1>5, Typed, RowLocksAssumption DEF Abort, RowLocksAssumption
  <2> QED
    BY <1>5, <2>1, SessionLeaves DEF Abort
<1>6. CASE UNCHANGED dialect /\ \E r \in Requests : ComesDue(r)
  BY <1>6, Typed, TimeChangesNothing DEF ComesDue
<1> QED
  BY <1>1, <1>2, <1>3, <1>4, <1>5, <1>6 DEF Next

(* Whatever statements interleave, the attempt count that a claim, a       *)
(* recorded failure or a replay computes with is the one of the row it     *)
(* writes, although fail_or_retry reads it without a lock.                 *)
THEOREM NoUpdateIsLost == Spec => []NoLostUpdate
<1>1. LocksInv => NoLostUpdate
  BY DEF LocksInv, Relies, NoLostUpdate
<1> QED
  BY <1>1, LocksInit, LocksKeep, PTL DEF Spec

-----------------------------------------------------------------------------
(* SKIP LOCKED.  A session holds locks only inside a transaction; on       *)
(* SQLite one that has begun to write holds the lock of the database.      *)
LocksAreHeld ==
  \A s \in Sessions :
    /\ (\E l \in Lockable : lock[l] = s) => pc[s] \in InTransaction
    /\ dialect = "sqlite" /\ pc[s] \in InTransaction => lock[Database] = s

LEMMA NoLockAtFirst == Init => LocksAreHeld
BY RowLocksAssumption DEF Init, LocksAreHeld, InTransaction, RowLocksAssumption, Sessions

(* The session that moves keeps the invariant if it frees its locks on     *)
(* leaving its transaction, and has SQLite's lock inside one; the others   *)
(* are not touched.                                                        *)
LEMMA LockStep ==
  ASSUME LocksInv, LocksAreHeld, NEW s \in Sessions, UNCHANGED dialect,
         \A t \in Sessions \ {s} : pc'[t] = pc[t],
         \/ Release(s) /\ pc'[s] \notin InTransaction
         \/ UNCHANGED lock /\ pc'[s] = pc[s]
         \/ UNCHANGED lock /\ pc'[s] \notin InTransaction /\ pc[s] \notin InTransaction
         \/ UNCHANGED lock /\ pc'[s] \in InTransaction /\ dialect # "sqlite"
         \/ /\ \E l \in Lockable : /\ Free(s, l) /\ lock' = [lock EXCEPT ![l] = s]
                                   /\ dialect = "sqlite" => l = Database
            /\ pc'[s] \in InTransaction
  PROVE  LocksAreHeld'
<1>1. /\ lock \in [Lockable -> Sessions \cup {Nobody}] /\ Database \in Lockable
      /\ Nobody \notin Sessions
  BY Typed, RowLocksAssumption DEF Lockable, RowLocksAssumption, Sessions
<1>2. ASSUME NEW t \in Sessions, t # s
      PROVE  \A l \in Lockable : lock'[l] = t <=> lock[l] = t
  BY <1>1, <1>2 DEF Release, Free
<1>3. ASSUME NEW t \in Sessions, t # s
      PROVE  /\ (\E l \in Lockable : lock'[l] = t) => pc'[t] \in InTransaction
             /\ dialect' = "sqlite" /\ pc'[t] \in InTransaction => lock'[Database] = t
  BY <1>1, <1>2, <1>3 DEF LocksAreHeld
<1>4. /\ (\E l \in Lockable : lock'[l] = s) => pc'[s] \in InTransaction
      /\ dialect' = "sqlite" /\ pc'[s] \in InTransaction => lock'[Database] = s
  <2>1. CASE Release(s) /\ pc'[s] \notin InTransaction
    BY <1>1, <2>1 DEF Release
  <2>2. CASE UNCHANGED lock
    BY <1>1, <2>2 DEF LocksAreHeld, Release
  <2>3. CASE \E l \in Lockable : /\ Free(s, l) /\ lock' = [lock EXCEPT ![l] = s]
                                 /\ dialect = "sqlite" => l = Database
    BY <1>1, <2>3 DEF LocksAreHeld, Release
  <2> QED
    BY <2>1, <2>2, <2>3
<1> QED
  BY <1>3, <1>4 DEF LocksAreHeld

LEMMA LocksStayHeld == LocksInv /\ LocksAreHeld /\ [Next]_vars => LocksAreHeld'
<1> SUFFICES ASSUME LocksInv, LocksAreHeld, [Next]_vars PROVE LocksAreHeld'
  OBVIOUS
<1>0. /\ pc \in [Sessions -> Labels]
      /\ Database \in Lockable
      /\ \A r \in Requests : /\ LockOf(r) \in Lockable
                             /\ dialect = "sqlite" => LockOf(r) = Database
  BY Typed DEF Lockable, LockOf
<1>1. CASE UNCHANGED vars
  BY <1>1 DEF vars, sessionVars, LocksAreHeld
<1>2. ASSUME NEW w \in Workers, WorkerStep(w) PROVE LocksAreHeld'
  <2>0. UNCHANGED dialect /\ w \in Sessions
    BY <1>2 DEF WorkerStep, Sessions
  <2>1. CASE StartClaim(w)
    <3>1. pc' = [pc EXCEPT ![w] = "scan"]
      BY <2>1 DEF StartClaim, GoTo
    <3>2. \/ dialect # "sqlite" /\ UNCHANGED lock
          \/ Free(w, Database) /\ lock' = [lock EXCEPT ![Database] = w]
      BY <2>1 DEF StartClaim
    <3> QED
      BY <1>0, <2>0, <3>1, <3>2, LockStep DEF InTransaction
  <2>2. CASE NothingToClaim(w)
    BY <1>0, <2>0, <2>2, LockStep DEF NothingToClaim, Leave, GoTo, InTransaction
  <2>3. CASE CommitClaim(w)
    BY <1>0, <2>0, <2>3, LockStep DEF CommitClaim, WriteClaim, GoTo, InTransaction
  <2>4. ASSUME NEW r \in Requests, SkipRow(w, r) PROVE LocksAreHeld'
    BY <2>0, <2>4, LockStep DEF SkipRow
  <2>5. ASSUME NEW r \in Requests, LockRow(w, r) PROVE LocksAreHeld'
    <3>1. \/ pc' = [pc EXCEPT ![w] = "update"]
          \/ pc' = pc /\ pc[w] = "scan"
      BY <2>5 DEF LockRow, GoTo
    <3>2. Free(w, LockOf(r)) /\ lock' = [lock EXCEPT ![LockOf(r)] = w]
      BY <2>5 DEF LockRow, CanLock, Lock
    <3>3. pc'[w] \in InTransaction /\ \A t \in Sessions \ {w} : pc'[t] = pc[t]
      BY <1>0, <2>0, <3>1 DEF InTransaction
    <3> QED
      BY <1>0, <2>0, <3>2, <3>3, LockStep
  <2>6. CASE ReadAttempts(w) \/ StartCompletion(w)
    BY <1>0, <2>0, <2>6, LockStep DEF ReadAttempts, StartCompletion, GoTo, InTransaction
  <2>7. CASE UpdateOutcome(w)
    <3>1. PICK label \in {"record_failure", "record_completion"} :
            pc' = [pc EXCEPT ![w] = label] /\ pc[w] \in {"failing", "completing"}
      BY <2>7 DEF UpdateOutcome, GoTo
    <3>2. held[w] \in Requests
      BY <2>0, <3>1 DEF LocksInv, Relies, Busy, Owning
    <3>3. Free(w, LockOf(held[w])) /\ lock' = [lock EXCEPT ![LockOf(held[w])] = w]
      BY <2>7 DEF UpdateOutcome, CanLock, Lock
    <3> QED
      BY <1>0, <2>0, <3>1, <3>2, <3>3, LockStep DEF InTransaction
  <2>8. CASE CommitOutcome(w)
    BY <1>0, <2>0, <2>8, LockStep DEF CommitOutcome, Leave, GoTo, InTransaction
  <2>9. CASE ReadNow(w)
    BY <1>0, <2>0, <2>9, LockStep DEF ReadNow, GoTo, InTransaction
  <2> QED
    BY <1>2, <2>1, <2>2, <2>3, <2>4, <2>5, <2>6, <2>7, <2>8, <2>9 DEF WorkerStep
<1>3. CASE UNCHANGED dialect /\ \E r \in Requests : Insert(r) \/ ComesDue(r)
  BY <1>3 DEF Insert, ComesDue, sessionVars, LocksAreHeld
<1>4. ASSUME UNCHANGED dialect, NEW a \in Operators, OperatorStep(a) PROVE LocksAreHeld'
  <2>0. a \in Sessions
    BY DEF Sessions
  <2>1. CASE EndReplay(a)
    BY <1>0, <1>4, <2>0, <2>1, LockStep
    DEF EndReplay, CommitReplay, RefuseReplay, Leave, GoTo, InTransaction
  <2>2. ASSUME NEW r \in Requests, StartReplay(a, r) PROVE LocksAreHeld'
    <3>1. /\ \E label \in {"replay", "refuse"} : pc' = [pc EXCEPT ![a] = label]
          /\ Free(a, LockOf(r)) /\ lock' = [lock EXCEPT ![LockOf(r)] = a]
      BY <2>2 DEF StartReplay, GoTo, CanLock, Lock
    <3> QED
      BY <1>0, <1>4, <2>0, <3>1, LockStep DEF InTransaction
  <2> QED
    BY <1>4, <2>1, <2>2 DEF OperatorStep
<1>5. ASSUME UNCHANGED dialect, NEW s \in Sessions, Abort(s) PROVE LocksAreHeld'
  BY <1>0, <1>5, LockStep DEF Abort, Leave, GoTo, InTransaction
<1> QED
  BY <1>1, <1>2, <1>3, <1>4, <1>5 DEF Next

(* ADR 007:24: whatever statements interleave and wherever transactions    *)
(* fail, a claim passes over a row only while a transaction of another     *)
(* session is open that has locked it: no lock is left behind.             *)
THEOREM SkippedRowsAreInWork == Spec => SkipsOnlyRowsInWork
<1> DEFINE Skips == \A w \in Workers, r \in Requests :
                      SkipRow(w, r) => dialect = "postgresql" /\ InWorkOfAnother(w, r)
<1>1. ASSUME LocksInv, LocksAreHeld PROVE Skips
  <2> SUFFICES ASSUME NEW w \in Workers, NEW r \in Requests, SkipRow(w, r)
               PROVE  dialect = "postgresql" /\ InWorkOfAnother(w, r)
    OBVIOUS
  <2>1. w \in Sessions /\ pc[w] \in InTransaction /\ r \in Lockable
    BY DEF Sessions, SkipRow, InTransaction, Lockable
  <2>2. lock[LockOf(r)] \notin {Nobody, w}
    BY DEF SkipRow, CanLock, Free
  <2>3. dialect = "postgresql" /\ LockOf(r) = r
    BY <1>1, <2>1, <2>2, Typed, RowLocksAssumption
    DEF LocksAreHeld, LockOf, RowLocksAssumption
  <2>4. lock[r] \in Sessions \ {w}
    BY <1>1, <2>1, <2>2, <2>3, Typed
  <2> QED
    BY <1>1, <2>1, <2>3, <2>4 DEF LocksAreHeld, InWorkOfAnother
<1>2. Spec => [][Skips]_vars
  BY <1>1, LocksInit, LocksKeep, NoLockAtFirst, LocksStayHeld, PTL DEF Spec
<1> QED
  BY <1>2 DEF SkipsOnlyRowsInWork

-----------------------------------------------------------------------------
(* The refinement of Lifecycle.                                            *)
OwnersOf(r) == {w \in Workers : pc[w] \in Owning /\ held[w] = r}
Owners == [r \in Requests |-> OwnersOf(r)]

(* The row an owner works on has no other owner.                           *)
LEMMA OwnerIsAlone ==
  ASSUME LocksInv, NEW w \in Workers, pc[w] \in Owning
  PROVE  held[w] \in Requests /\ OwnersOf(held[w]) = {w} /\ status[held[w]] = "running"
<1>1. w \in Sessions /\ Workers \subseteq Sessions
  BY DEF Sessions
<1> QED
  BY <1>1 DEF LocksInv, Relies, OneOwner, OwnersOf, Busy

(* A row that is not running has no owner.                                 *)
LEMMA NoOwner ==
  ASSUME LocksInv, NEW r \in Requests, status[r] # "running"
  PROVE  OwnersOf(r) = {}
<1>1. Workers \subseteq Sessions
  BY DEF Sessions
<1> QED
  BY <1>1 DEF LocksInv, Relies, OwnersOf

(* A step of a session by which it does not come to own a request or cease *)
(* to leaves the owners as they are.                                       *)
LEMMA OwnersStay ==
  ASSUME LocksInv, NEW s \in Sessions,
         \A t \in Sessions \ {s} : pc'[t] = pc[t] /\ held'[t] = held[t],
         \/ pc[s] \notin Owning /\ pc'[s] \notin Owning
         \/ pc[s] \in Owning /\ pc'[s] \in Owning /\ held'[s] = held[s]
  PROVE  Owners' = Owners
<1>1. Workers \subseteq Sessions
  BY DEF Sessions
<1>2. \A r \in Requests : OwnersOf(r)' = OwnersOf(r)
  BY <1>1 DEF OwnersOf
<1> QED
  BY <1>2 DEF Owners

(* An owner that goes idle leaves its request without one.                 *)
LEMMA OwnerLeaves ==
  ASSUME LocksInv, NEW w \in Workers, pc[w] \in Owning, Leave(w)
  PROVE  /\ held[w] \in Requests /\ Owners[held[w]] = {w}
         /\ Owners' = [Owners EXCEPT ![held[w]] = {}]
<1>1. /\ w \in Sessions /\ Workers \subseteq Sessions
      /\ held[w] \in Requests /\ OwnersOf(held[w]) = {w}
  BY OwnerIsAlone DEF Sessions
<1>2. /\ pc'[w] \notin Owning
      /\ \A t \in Sessions \ {w} : pc'[t] = pc[t] /\ held'[t] = held[t]
  BY <1>1, Typed DEF Leave, GoTo, Owning
<1>3. \A r \in Requests : OwnersOf(r)' = OwnersOf(r) \ {w}
  BY <1>1, <1>2 DEF OwnersOf
<1>4. \A r \in Requests : r # held[w] => w \notin OwnersOf(r)
  BY DEF OwnersOf
<1>5. \A r \in Requests : OwnersOf(r) \ {w} = IF r = held[w] THEN {} ELSE OwnersOf(r)
  BY <1>1, <1>4
<1>6. Owners' = [r \in Requests |-> IF r = held[w] THEN {} ELSE Owners[r]]
  BY <1>3, <1>5 DEF Owners
<1>7. Owners[held[w]] = {w} /\ Owners = [r \in Requests |-> Owners[r]]
  BY <1>1 DEF Owners
<1> QED
  BY <1>1, <1>6, <1>7

LEMMA ClaimIsStart ==
  ASSUME LocksInv, NEW w \in Workers, CommitClaim(w)
  PROVE  \E r \in Requests : Promise!Start(r, w)
<1>0. w \in Sessions /\ pc[w] = "update" /\ pc[w] \in Busy /\ Workers \subseteq Sessions
  BY DEF Sessions, CommitClaim, WriteClaim, Busy
<1>1. PICK r \in Requests : r = held[w] /\ Claimable(r) /\ seen[w] = attempt_count[r]
  BY <1>0 DEF LocksInv, Relies
<1>2. /\ status[r] \in {"queued", "retrying"} /\ OwnersOf(r) = {}
  BY <1>1, NoOwner DEF Claimable
<1>3. attempt_count[r] < MaxAttempts[r]
  <2>1. attempt_count[r] \in Nat /\ MaxAttempts[r] \in Nat \ {0} /\ Budget(r)
    BY Typed, RowLocksAssumption DEF RowLocksAssumption, LocksInv
  <2> QED
    BY <1>2, <2>1 DEF Budget
<1>4. /\ status' = [status EXCEPT ![r] = "running"]
      /\ attempt_count' = [attempt_count EXCEPT ![r] = attempt_count[r] + 1]
  BY <1>1 DEF CommitClaim, WriteClaim
<1>5. /\ pc'[w] = "owner" /\ held' = held
      /\ \A t \in Sessions \ {w} : pc'[t] = pc[t]
  BY <1>0, Typed DEF CommitClaim, WriteClaim, GoTo
<1>6. pc[w] \notin Owning /\ "owner" \in Owning
  BY <1>0 DEF Owning
<1>7. \A q \in Requests : OwnersOf(q)' = IF q = r THEN {w} ELSE OwnersOf(q)
  BY <1>0, <1>1, <1>2, <1>5, <1>6 DEF OwnersOf
<1>8. Owners' = [Owners EXCEPT ![r] = {w}] /\ Owners[r] = {}
  <2>1. Owners' = [q \in Requests |-> IF q = r THEN {w} ELSE Owners[q]]
    BY <1>7 DEF Owners
  <2>2. Owners[r] = {} /\ Owners = [q \in Requests |-> Owners[q]]
    BY <1>2 DEF Owners
  <2> QED
    BY <2>1, <2>2
<1> QED
  BY <1>2, <1>3, <1>4, <1>8, Zenon DEF Promise!Start, Promise!Move, Owners, OwnersOf

(* The three ways an attempt is recorded are the three of the lifecycle.   *)
LEMMA OutcomeIsRelease ==
  ASSUME LocksInv, NEW w \in Workers, CommitOutcome(w)
  PROVE  \E r \in Requests :
           Promise!Finish(r, w) \/ Promise!Reschedule(r, w) \/ Promise!Bury(r, w)
<1>0. w \in Sessions /\ pc[w] \in Owning /\ pc[w] \in Busy
  BY DEF Sessions, CommitOutcome, Busy, Owning
<1>1. PICK r \in Requests : r = held[w] /\ status[r] = "running"
  BY <1>0, OwnerIsAlone
<1>2. /\ Leave(w) /\ attempt_count' = attempt_count
  BY DEF CommitOutcome
<1>3. Owners[r] = {w} /\ Owners' = [Owners EXCEPT ![r] = {}]
  BY <1>0, <1>1, <1>2, OwnerLeaves
<1>4. Promise!Release(r, w)
  BY <1>2, <1>3, Zenon DEF Promise!Release, Owners, OwnersOf
<1>5. CASE pc[w] = "record_completion"
  <2>1. status' = [status EXCEPT ![r] = "completed"]
    BY <1>1, <1>5 DEF CommitOutcome
  <2>2. Promise!Finish(r, w)
    BY <1>1, <1>4, <2>1 DEF Promise!Finish, Promise!Move
  <2> QED
    BY <2>2
<1>6. CASE pc[w] = "record_failure"
  <2>1. /\ attempt_count[r] \in Nat /\ MaxAttempts[r] \in Nat
        /\ attempt_count[r] <= MaxAttempts[r] /\ seen[w] = attempt_count[r]
    BY <1>0, <1>1, <1>6, Typed, RowLocksAssumption
    DEF LocksInv, Budget, Relies, RowLocksAssumption
  <2>2. CASE attempt_count[r] = MaxAttempts[r]
    <3>1. status' = [status EXCEPT ![r] = "dead_letter"]
      BY <1>1, <1>6, <2>1, <2>2 DEF CommitOutcome
    <3>2. Promise!Bury(r, w)
      BY <1>1, <1>4, <2>2, <3>1 DEF Promise!Bury, Promise!Move
    <3> QED
      BY <3>2
  <2>3. CASE attempt_count[r] < MaxAttempts[r]
    <3>1. ~(seen[w] >= MaxAttempts[r])
      BY <2>1, <2>3
    <3>2. status' = [status EXCEPT ![r] = "retrying"]
      BY <1>1, <1>6, <3>1 DEF CommitOutcome
    <3>3. Promise!Reschedule(r, w)
      BY <1>1, <1>4, <2>3, <3>2 DEF Promise!Reschedule, Promise!Move
    <3> QED
      BY <3>3
  <2> QED
    BY <2>1, <2>2, <2>3
<1> QED
  BY <1>5, <1>6 DEF CommitOutcome

(* Promise!vars, by the name the lemmas above give to the owners.          *)
SameRows == status' = status /\ attempt_count' = attempt_count /\ Owners' = Owners

LEMMA LeavingIsAbandoning ==
  ASSUME LocksInv, NEW s \in Sessions, Leave(s), UNCHANGED tableVars
  PROVE  SameRows \/ \E r \in Requests, w \in Workers : Promise!Abandon(r, w)
<1>1. CASE pc[s] \in Owning
  <2>1. s \in Workers
    BY <1>1 DEF LocksInv, Relies
  <2>2. PICK r \in Requests : /\ Owners[r] = {s}
                              /\ Owners' = [Owners EXCEPT ![r] = {}]
    BY <1>1, <2>1, OwnerLeaves
  <2>3. Promise!Abandon(r, s)
    BY <2>2, Zenon DEF Promise!Abandon, Promise!Release, Owners, OwnersOf, tableVars
  <2> QED
    BY <2>1, <2>3
<1>2. CASE pc[s] \notin Owning
  <2>1. /\ pc'[s] \notin Owning
        /\ \A t \in Sessions \ {s} : pc'[t] = pc[t] /\ held'[t] = held[t]
    BY Typed DEF Leave, GoTo, Owning
  <2> QED
    BY <1>2, <2>1, OwnersStay DEF SameRows, tableVars
<1> QED
  BY <1>1, <1>2

LEMMA WorkerStepRefines ==
  ASSUME LocksInv, NEW w \in Workers, WorkerStep(w)
  PROVE  SameRows \/ Promise!Next
<1>0. w \in Sessions
  BY DEF Sessions
<1>1. ASSUME \/ ReadNow(w) \/ StartClaim(w) \/ (\E r \in Requests : SkipRow(w, r) \/ LockRow(w, r))
      PROVE  SameRows
  <2>1. /\ UNCHANGED tableVars /\ pc[w] \in {"idle", "begin", "scan"}
        /\ pc'[w] \in {"begin", "scan", "update"}
        /\ \A t \in Sessions \ {w} : pc'[t] = pc[t] /\ held'[t] = held[t]
    <3>1. CASE ReadNow(w) \/ StartClaim(w)
      BY <1>0, <3>1, Typed DEF ReadNow, StartClaim, GoTo
    <3>2. CASE \E r \in Requests : SkipRow(w, r)
      BY <1>0, <3>2, Typed DEF SkipRow
    <3>3. CASE \E r \in Requests : LockRow(w, r)
      BY <1>0, <3>3, Typed DEF LockRow, GoTo, Read
    <3> QED
      BY <1>1, <3>1, <3>2, <3>3
  <2> QED
    BY <1>0, <2>1, OwnersStay DEF SameRows, tableVars, Owning
<1>2. ASSUME ReadAttempts(w) \/ StartCompletion(w) \/ UpdateOutcome(w)
      PROVE  SameRows
  <2>1. /\ UNCHANGED tableVars /\ pc[w] \in Owning /\ pc'[w] \in Owning
        /\ held' = held
        /\ \A t \in Sessions \ {w} : pc'[t] = pc[t] /\ held'[t] = held[t]
    BY <1>0, <1>2, Typed DEF ReadAttempts, StartCompletion, UpdateOutcome, GoTo, Owning, Read
  <2> QED
    BY <1>0, <2>1, OwnersStay DEF SameRows, tableVars
<1>3. CASE NothingToClaim(w)
  BY <1>0, <1>3, LeavingIsAbandoning DEF NothingToClaim, Promise!Next
<1>4. CASE CommitClaim(w)
  BY <1>4, ClaimIsStart DEF Promise!Next
<1>5. CASE CommitOutcome(w)
  BY <1>5, OutcomeIsRelease DEF Promise!Next
<1> QED
  BY <1>1, <1>2, <1>3, <1>4, <1>5 DEF WorkerStep

LEMMA OperatorStepRefines ==
  ASSUME LocksInv, NEW a \in Operators, OperatorStep(a)
  PROVE  SameRows \/ Promise!Next
<1>0. a \in Sessions
  BY DEF Sessions
<1>1. ASSUME NEW r \in Requests, StartReplay(a, r) PROVE SameRows
  <2>1. /\ UNCHANGED tableVars /\ pc[a] = "idle" /\ pc'[a] \in {"replay", "refuse"}
        /\ \A t \in Sessions \ {a} : pc'[t] = pc[t] /\ held'[t] = held[t]
    BY <1>0, <1>1, Typed DEF StartReplay, GoTo, Read
  <2> QED
    BY <1>0, <2>1, OwnersStay DEF SameRows, tableVars, Owning
<1>2. CASE CommitReplay(a)
  <2>1. pc[a] = "replay" /\ pc[a] \in Busy /\ pc[a] \notin Owning
    BY <1>2 DEF CommitReplay, Busy, Owning
  <2>2. PICK r \in Requests : r = held[a] /\ status[r] = "dead_letter"
    BY <1>0, <2>1 DEF LocksInv, Relies
  <2>3. /\ status' = [status EXCEPT ![r] = "queued"]
        /\ attempt_count' = [attempt_count EXCEPT ![r] = 0]
    BY <1>2, <2>2 DEF CommitReplay
  <2>4. /\ pc'[a] \notin Owning
        /\ \A t \in Sessions \ {a} : pc'[t] = pc[t] /\ held'[t] = held[t]
    BY <1>0, <1>2, Typed DEF CommitReplay, Leave, GoTo, Owning
  <2>5. Owners' = Owners
    BY <1>0, <2>1, <2>4, OwnersStay
  <2>6. Promise!Replay(r)
    BY <2>2, <2>3, <2>5, Zenon DEF Promise!Replay, Promise!Move, Owners, OwnersOf
  <2> QED
    BY <2>6 DEF Promise!Next
<1>3. CASE RefuseReplay(a)
  BY <1>0, <1>3, LeavingIsAbandoning DEF RefuseReplay, Promise!Next
<1> QED
  BY <1>1, <1>2, <1>3 DEF OperatorStep, EndReplay

LEMMA StepRefines == LocksInv /\ [Next]_vars => [Promise!Next]_Promise!vars
<1> SUFFICES ASSUME LocksInv, [Next]_vars PROVE SameRows \/ Promise!Next
  BY Zenon DEF SameRows, Promise!vars, Owners, OwnersOf
<1>1. CASE UNCHANGED vars
  BY <1>1 DEF vars, tableVars, sessionVars, SameRows, Owners, OwnersOf
<1>2. CASE \E w \in Workers : WorkerStep(w)
  BY <1>2, WorkerStepRefines
<1>3. ASSUME NEW r \in Requests, Insert(r) PROVE Promise!Next
  <2>1. /\ status[r] = "absent" /\ status' = [status EXCEPT ![r] = "queued"]
        /\ attempt_count' = attempt_count /\ pc' = pc /\ held' = held
    BY <1>3 DEF Insert, sessionVars
  <2>2. Owners' = Owners
    BY <2>1 DEF Owners, OwnersOf
  <2>3. Promise!Accept(r)
    BY <2>1, <2>2, Zenon DEF Promise!Accept, Promise!Move, Owners, OwnersOf
  <2> QED
    BY <2>3 DEF Promise!Next
<1>4. CASE \E a \in Operators : OperatorStep(a)
  BY <1>4, OperatorStepRefines
<1>5. ASSUME NEW s \in Sessions, Abort(s) PROVE SameRows \/ Promise!Next
  BY <1>5, LeavingIsAbandoning DEF Abort, Promise!Next
<1>6. CASE \E r \in Requests : ComesDue(r)
  BY <1>6 DEF ComesDue, tableVars, sessionVars, SameRows, Owners, OwnersOf
<1> QED
  BY <1>1, <1>2, <1>3, <1>4, <1>5, <1>6 DEF Next

LEMMA InitRefines == Init => Promise!Init
<1> SUFFICES ASSUME Init PROVE Promise!Init
  OBVIOUS
<1>1. \A w \in Workers : pc[w] \notin Owning
  BY DEF Init, Sessions, Owning
<1>2. Owners = [r \in Requests |-> {}]
  BY <1>1 DEF Owners, OwnersOf
<1> QED
  BY <1>2, Zenon DEF Init, Promise!Init, Owners, OwnersOf

(* Statement by statement, with transactions that fail or are cut off      *)
(* anywhere, every row goes through the statuses of Lifecycle, within its  *)
(* attempt budget and with at most one owner at a time.                    *)
THEOREM StatementsImplementLifecycle == Spec => LifecyclePromise
BY LocksInit, LocksKeep, InitRefines, StepRefines, PTL DEF Spec, LifecyclePromise, Promise!Spec
=============================================================================

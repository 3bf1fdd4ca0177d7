---------------------------- MODULE StartupProofs ----------------------------
(***************************************************************************)
(* Start-up is safe for any set of processes, deployments and crashes: no   *)
(* one sees half a schema of PostgreSQL, or events without requests, and    *)
(* whoever has gone through init_database finds both tables.                *)
(***************************************************************************)
EXTENDS Startup, TLAPS

Requests == TableOrder[1]
Events == TableOrder[2]

(* What an initialiser has not found missing, it has found or made.        *)
Accounted ==
  \A p \in Process :
    /\ pc[p] = "check_events" => Requests \in missing[p] \cup tables
    /\ pc[p] = "create" => Table \subseteq missing[p] \cup made[p] \cup tables

IInv == TypeOK /\ Accounted /\ SchemaCoherent /\ InitialisedHasTables

USE StartupAssumption DEF StartupAssumption

LEMMA TwoTables == Table = {Requests, Events} /\ Requests # Events
BY DEF Table, TableOrder, Requests, Events

LEMMA FirstOfMissing ==
  ASSUME NEW T \in SUBSET Table, T # {}
  PROVE  FirstTable(T) \in T /\ (FirstTable(T) = Events => Requests \notin T)
<1> DEFINE F(t) == t \in T /\ (t = TableOrder[1] \/ T = {t})
<1>1. \E t \in T : t = TableOrder[1] \/ T = {t}
  BY TwoTables DEF Requests, Events
<1>2. FirstTable(T) \in T /\ (FirstTable(T) = TableOrder[1] \/ T = {FirstTable(T)})
  BY <1>1 DEF FirstTable
<1> QED
  BY <1>2, TwoTables DEF Requests, Events

LEMMA InitHolds == Init => IInv
<1> SUFFICES ASSUME Init PROVE IInv
  OBVIOUS
<1>1. TypeOK
  <2>1. tables \subseteq Table /\ crashes \in 0 .. MaxCrashes
    BY DEF Init
  <2>5. stamped \in BOOLEAN /\ transactional \in BOOLEAN
    BY Zenon DEF Init
  <2>2. pc \in [Process -> {"down", "dead", "check_requests", "check_events",
                           "check_revision", "create", "query", "serving", "done"}]
    BY DEF Init
  <2>3. missing \in [Process -> SUBSET Table] /\ made \in [Process -> SUBSET Table]
    BY DEF Init
  <2>4. \A p \in Process : made[p] = {}
    BY DEF Init
  <2> QED
    BY <2>1, <2>2, <2>3, <2>4, <2>5 DEF TypeOK
<1>2. Accounted /\ InitialisedHasTables
  BY DEF Init, Accounted, InitialisedHasTables
<1>3. SchemaCoherent
  BY DEF Init, SchemaCoherent
<1> QED
  BY <1>1, <1>2, <1>3 DEF IInv

-----------------------------------------------------------------------------
(* A process that only moves, or stops, disturbs nobody.                   *)
LEMMA StopKeeps ==
  ASSUME IInv, NEW p \in Process, Stop(p),
         UNCHANGED <<transactional, tables, stamped>>, crashes' \in 0 .. MaxCrashes
  PROVE  IInv'
<1>1. TypeOK'
  BY DEF IInv, TypeOK, Stop, GoTo
<1>2. Accounted'
  BY DEF IInv, TypeOK, Accounted, Stop, GoTo
<1>3. SchemaCoherent' /\ InitialisedHasTables'
  BY DEF IInv, TypeOK, SchemaCoherent, InitialisedHasTables, Stop, GoTo
<1> QED
  BY <1>1, <1>2, <1>3 DEF IInv

LEMMA FailKeeps ==
  ASSUME IInv, NEW p \in Process, Fail(p), UNCHANGED transactional
  PROVE  IInv'
<1>1. crashes' \in 0 .. MaxCrashes /\ UNCHANGED <<tables, stamped>>
  BY DEF Fail, IInv, TypeOK
<1>2. Stop(p)
  BY DEF Fail
<1> QED
  BY <1>1, <1>2, StopKeeps

LEMMA LooksForKeeps ==
  ASSUME IInv, NEW p \in Process, CheckFirst(p), UNCHANGED transactional
  PROVE  IInv'
<1>1. TypeOK'
  BY TwoTables DEF IInv, TypeOK, CheckFirst, LooksFor, GoTo, Requests, Events
<1>2. Accounted'
  BY TwoTables DEF IInv, TypeOK, Accounted, CheckFirst, LooksFor, GoTo, Requests, Events
<1>3. SchemaCoherent' /\ InitialisedHasTables'
  BY DEF IInv, TypeOK, SchemaCoherent, InitialisedHasTables, CheckFirst, LooksFor, GoTo
<1> QED
  BY <1>1, <1>2, <1>3 DEF IInv

LEMMA CreateKeeps ==
  ASSUME IInv, NEW p \in Process, CreateTable(p), UNCHANGED transactional
  PROVE  IInv'
<1> DEFINE t == FirstTable(missing[p])
<1>1. /\ missing[p] \in SUBSET Table /\ missing[p] # {} /\ pc[p] = "create"
      /\ t \notin tables /\ Created(p, t) /\ UNCHANGED <<stamped, pc, crashes>>
  BY DEF CreateTable, IInv, TypeOK
<1>2. t \in missing[p] /\ t \in Table /\ (t = Events => Requests \notin missing[p])
  BY <1>1, FirstOfMissing
<1> HIDE DEF t
<1>3. TypeOK'
  BY <1>1, <1>2 DEF IInv, TypeOK, Created
<1>4. Accounted'
  BY <1>1, <1>2 DEF IInv, TypeOK, Accounted, Created
<1>5. SchemaCoherent'
  <2>1. CASE transactional
    BY <2>1, <1>1 DEF IInv, SchemaCoherent, Created
  <2>2. CASE ~transactional
    <3>1. made[p] = {}
      BY <2>2 DEF IInv, TypeOK
    <3>2. t = Events => Requests \in tables
      BY <3>1, <1>1, <1>2, TwoTables DEF IInv, Accounted
    <3> QED
      BY <2>2, <3>2, <1>1, <1>2, TwoTables DEF IInv, SchemaCoherent, Created, Requests, Events
  <2> QED
    BY <2>1, <2>2
<1>6. InitialisedHasTables'
  BY <1>1, <1>2 DEF IInv, TypeOK, InitialisedHasTables, Created
<1> QED
  BY <1>3, <1>4, <1>5, <1>6 DEF IInv

(* Whoever commits has found or made both tables.                          *)
LEMMA CommitKeeps ==
  ASSUME IInv, NEW p \in Process, Commit(p), UNCHANGED transactional
  PROVE  IInv'
<1>1. tables' = Table
  BY DEF Commit, IInv, TypeOK, Accounted
<1>2. TypeOK'
  BY <1>1 DEF IInv, TypeOK, Commit, GoTo
<1>3. Accounted'
  BY <1>1, TwoTables DEF IInv, TypeOK, Accounted, Commit, GoTo
<1>4. SchemaCoherent' /\ InitialisedHasTables'
  BY <1>1, TwoTables DEF SchemaCoherent, InitialisedHasTables, Requests, Events
<1> QED
  BY <1>2, <1>3, <1>4 DEF IInv

(* Steps that change neither tables nor open transactions.                 *)
LEMMA MoveKeeps ==
  ASSUME IInv, NEW p \in Process,
         Start(p) \/ Upgrade(p) \/ Serve(p) \/ Restart(p), UNCHANGED transactional
  PROVE  IInv'
<1>1. TypeOK'
  BY DEF IInv, TypeOK, Start, Upgrade, Serve, Restart, GoTo
<1>2. Accounted'
  BY DEF IInv, TypeOK, Accounted, Start, Upgrade, Serve, Restart, GoTo
<1>3. SchemaCoherent' /\ InitialisedHasTables'
  BY DEF IInv, TypeOK, SchemaCoherent, InitialisedHasTables, Initialises, Start,
         Upgrade, Serve, Restart, GoTo
<1> QED
  BY <1>1, <1>2, <1>3 DEF IInv

LEMMA StepKeeps == IInv /\ [Next]_vars => IInv'
<1> SUFFICES ASSUME IInv, [Next]_vars PROVE IInv'
  OBVIOUS
<1>1. CASE UNCHANGED vars
  BY <1>1 DEF vars, IInv, TypeOK, Accounted, SchemaCoherent, InitialisedHasTables
<1>2. ASSUME NEW p \in Process, Step(p), UNCHANGED transactional PROVE IInv'
  <2>1. CASE Start(p) \/ Upgrade(p) \/ Serve(p)
    BY <1>2, <2>1, MoveKeeps
  <2>2. CASE CheckFirst(p)
    BY <1>2, <2>2, LooksForKeeps
  <2>3. CASE CreateTable(p)
    BY <1>2, <2>3, CreateKeeps
  <2>4. CASE AlreadyExists(p) \/ NoSuchTable(p)
    <3>1. Fail(p)
      BY <2>4 DEF AlreadyExists, NoSuchTable
    <3> QED
      BY <1>2, <3>1, FailKeeps
  <2>5. CASE Commit(p)
    BY <1>2, <2>5, CommitKeeps
  <2> QED
    BY <1>2, <2>1, <2>2, <2>3, <2>4, <2>5 DEF Step
<1>3. ASSUME NEW p \in Process, Crash(p), UNCHANGED transactional PROVE IInv'
  <2>1. crashes' \in 0 .. MaxCrashes /\ UNCHANGED <<transactional, tables, stamped>>
    BY <1>3 DEF Crash, IInv, TypeOK
  <2>2. Stop(p)
    BY <1>3 DEF Crash
  <2> QED
    BY <2>1, <2>2, StopKeeps
<1>4. ASSUME NEW p \in Process, Restart(p), UNCHANGED transactional PROVE IInv'
  BY <1>4, MoveKeeps
<1> QED
  BY <1>1, <1>2, <1>3, <1>4 DEF Next

LEMMA Invariance == Spec => []IInv
BY InitHolds, StepKeeps, PTL DEF Spec

(* In every deployment, with any number of processes and crashes: the      *)
(* dependent table is never there without the one it refers to, nor the    *)
(* revision without both, and where DDL is transactional there are both    *)
(* tables or none (init_database and upgrade).                             *)
THEOREM SchemaIsCoherent == Spec => []SchemaCoherent
<1>1. IInv => SchemaCoherent
  BY DEF IInv
<1> QED
  BY <1>1, Invariance, PTL

(* A process that has gone through init_database finds both tables at its  *)
(* first query, whoever else was creating them or died on the way.         *)
THEOREM StartupIsSafe == Spec => []InitialisedHasTables
<1>1. IInv => InitialisedHasTables
  BY DEF IInv
<1> QED
  BY <1>1, Invariance, PTL
=============================================================================

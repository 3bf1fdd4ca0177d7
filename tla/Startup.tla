------------------------------- MODULE Startup -------------------------------
(***************************************************************************)
(* Who creates the tables, and who may start before they exist.  Every      *)
(* process starts on its own: the API and the Railway worker call           *)
(* init_database first, the worker of the compose files does not, and       *)
(* `alembic upgrade head` creates the same tables and records a revision.   *)
(*                                                                          *)
(* PostgreSQL runs the statements of an initialiser as one transaction,     *)
(* SQLite commits every CREATE TABLE on its own.  create_all (SQLAlchemy)   *)
(* and the revision table (alembic) are external: they are modelled by what *)
(* init_database and upgrade make of them.  No compose file has a restart   *)
(* policy: a process that has ended stays so until somebody starts it.      *)
(***************************************************************************)
EXTENDS Naturals, FiniteSets

CONSTANTS Process,
          Role,           \* of a process: "api", "init_worker", "worker" or "migration"
          MaxCrashes      \* bound on the processes killed in the middle

ASSUME StartupAssumption ==
    /\ Role \in [Process -> {"api", "init_worker", "worker", "migration"}]
    /\ MaxCrashes \in Nat

VARIABLES
    transactional,  \* the database is PostgreSQL: DDL belongs to the transaction
    tables,   \* the tables that are committed
    stamped,  \* the revision is recorded in alembic_version
    pc,       \* of a process
    missing,  \* tables the process has found missing
    made,     \* tables its open transaction has created
    crashes   \* processes killed so far

vars == <<transactional, tables, stamped, pc, missing, made, crashes>>

\* In the order of the foreign key.
TableOrder == <<"automation_requests", "automation_events">>
Table == {TableOrder[i] : i \in 1 .. 2}

Initialises(p) == Role[p] \in {"api", "init_worker"}
Creators == {p \in Process : Role[p] # "worker"}

\* The first in the order of creation.
FirstTable(T) == CHOOSE t \in T : t = TableOrder[1] \/ T = {t}

Init ==
    /\ transactional \in BOOLEAN
    /\ tables = {}
    /\ stamped = FALSE
    /\ pc = [p \in Process |-> "down"]
    /\ missing = [p \in Process |-> {}]
    /\ made = [p \in Process |-> {}]
    /\ crashes = 0

GoTo(p, label) == pc' = [pc EXCEPT ![p] = label]

\* The process ends, and its open transaction is rolled back.
Stop(p) ==
    /\ GoTo(p, "dead")
    /\ missing' = [missing EXCEPT ![p] = {}]
    /\ made' = [made EXCEPT ![p] = {}]

Fail(p) ==
    /\ Stop(p)
    /\ UNCHANGED <<tables, stamped, crashes>>

-----------------------------------------------------------------------------
Start(p) ==
    /\ pc[p] = "down"
    /\ GoTo(p, IF Initialises(p) THEN "check_requests"
               ELSE IF Role[p] = "migration" THEN "check_revision" ELSE "query")
    /\ UNCHANGED <<tables, stamped, missing, made, crashes>>

-----------------------------------------------------------------------------
(* init_database: create_all looks for each table, then creates the missing. *)

LooksFor(p, t, label) ==
    /\ missing' = [missing EXCEPT ![p] = IF t \in tables THEN @ ELSE @ \cup {t}]
    /\ GoTo(p, label)
    /\ UNCHANGED <<tables, stamped, made, crashes>>

\* Mutant: one look for both tables.
CheckRequests(p) ==
    /\ pc[p] = "check_requests"
    /\ missing' = [missing EXCEPT ![p] = IF TableOrder[1] \in tables THEN {} ELSE Table]
    /\ GoTo(p, "create")
    /\ UNCHANGED <<tables, stamped, made, crashes>>

\* create_all's checkfirst.
CheckFirst(p) ==
    \/ pc[p] = "check_requests" /\ LooksFor(p, TableOrder[1], "check_events")
    \/ pc[p] = "check_events" /\ LooksFor(p, TableOrder[2], "create")

\* With PostgreSQL a CREATE TABLE waits for the open transaction that has
\* created the same name.
Blocked(p, t) == \E q \in Process \ {p} : t \in made[q]

\* Mutant: PostgreSQL without a transaction.
AutocommitEach(p, t) ==
    /\ tables' = tables \cup {t}
    /\ missing' = [missing EXCEPT ![p] = @ \ {t}]
    /\ UNCHANGED made

Created(p, t) ==
    /\ missing' = [missing EXCEPT ![p] = @ \ {t}]
    /\ IF transactional
          THEN made' = [made EXCEPT ![p] = @ \cup {t}] /\ UNCHANGED tables
          ELSE tables' = tables \cup {t} /\ UNCHANGED made

CreateTable(p) ==
    /\ pc[p] = "create" /\ missing[p] # {}
    /\ LET t == FirstTable(missing[p]) IN
          /\ t \notin tables /\ ~Blocked(p, t)
          /\ Created(p, t)
    /\ UNCHANGED <<stamped, pc, crashes>>

\* Another process has created the table since this one looked.
AlreadyExists(p) ==
    /\ pc[p] = "create" /\ missing[p] # {}
    /\ FirstTable(missing[p]) \in tables
    /\ Fail(p)

\* Mutant: the connection is closed without a commit.
CommitForgotten(p) ==
    /\ pc[p] = "create" /\ missing[p] = {}
    /\ made' = [made EXCEPT ![p] = {}]
    /\ GoTo(p, IF Role[p] = "migration" THEN "done" ELSE "query")
    /\ UNCHANGED <<tables, stamped, missing, crashes>>

Commit(p) ==
    /\ pc[p] = "create" /\ missing[p] = {}
    /\ tables' = tables \cup made[p]
    /\ made' = [made EXCEPT ![p] = {}]
    /\ IF Role[p] = "migration"
          THEN stamped' = TRUE /\ GoTo(p, "done")
          ELSE UNCHANGED stamped /\ GoTo(p, "query")
    /\ UNCHANGED <<missing, crashes>>

-----------------------------------------------------------------------------
(* alembic upgrade head *)

Upgrade(p) ==
    /\ pc[p] = "check_revision"
    /\ IF stamped THEN GoTo(p, "done") /\ UNCHANGED missing
                  ELSE /\ GoTo(p, "create")
                       /\ missing' = [missing EXCEPT ![p] = Table]
    /\ UNCHANGED <<tables, stamped, made, crashes>>

-----------------------------------------------------------------------------
(* The API serves once lifespan is through; the first statement of a worker *)
(* is claim_next's SELECT, which reads automation_requests alone.           *)

FindsRequests == TableOrder[1] \in tables

Serve(p) ==
    /\ pc[p] = "query" /\ (Role[p] = "api" \/ FindsRequests)
    /\ GoTo(p, "serving")
    /\ UNCHANGED <<tables, stamped, missing, made, crashes>>

\* claim_next raises out of run_once and run_forever: the worker process ends.
NoSuchTable(p) ==
    /\ pc[p] = "query" /\ Role[p] # "api" /\ ~FindsRequests
    /\ Fail(p)

Crash(p) ==
    /\ pc[p] \notin {"down", "dead", "done", "serving"} /\ crashes < MaxCrashes
    /\ crashes' = crashes + 1
    /\ Stop(p)
    /\ UNCHANGED <<tables, stamped>>

\* An operator, or a platform that does so, starts the process again.
Restart(p) ==
    /\ pc[p] = "dead"
    /\ GoTo(p, "down")
    /\ UNCHANGED <<tables, stamped, missing, made, crashes>>

-----------------------------------------------------------------------------
Step(p) ==
    \/ Start(p) \/ CheckFirst(p) \/ CreateTable(p) \/ AlreadyExists(p)
    \/ Commit(p) \/ Upgrade(p) \/ Serve(p) \/ NoSuchTable(p)

Next ==
    /\ \E p \in Process : Step(p) \/ Crash(p) \/ Restart(p)
    /\ UNCHANGED transactional

Spec == Init /\ [][Next]_vars

\* Every process is started once and runs; nobody has to start it again.
FairSpec ==
    Spec /\ \A p \in Process : WF_vars(Step(p) /\ UNCHANGED transactional)

-----------------------------------------------------------------------------
TypeOK ==
    /\ transactional \in BOOLEAN
    /\ tables \subseteq Table /\ stamped \in BOOLEAN
    /\ pc \in [Process -> {"down", "dead", "check_requests", "check_events",
                           "check_revision", "create", "query", "serving", "done"}]
    /\ missing \in [Process -> SUBSET Table]
    /\ made \in [Process -> SUBSET Table]
    /\ \A p \in Process : made[p] # {} => transactional /\ pc[p] = "create"
    /\ crashes \in 0 .. MaxCrashes

\* Whoever dies in the middle of an initialisation: nobody finds events without
\* requests (the foreign key) or a revision without its tables (upgrade), and
\* with PostgreSQL nobody finds half a schema (init_database).
SchemaCoherent ==
    /\ TableOrder[2] \in tables => TableOrder[1] \in tables
    /\ stamped => tables = Table
    /\ transactional => tables \in {{}, Table}

\* A process that has gone through init_database finds both tables, whoever
\* else was creating them or died while doing so.
InitialisedHasTables ==
    \A p \in Process : Initialises(p) /\ pc[p] = "query" => tables = Table

\* The race to create the tables has a winner: although a CREATE TABLE fails
\* under whoever lost it, and nobody is started again, both tables come to be.
\* With SQLite a kill may leave half of them; with PostgreSQL they come as long
\* as not every initialiser and migration is killed, a waiting one taking over
\* from the transaction it waits for (init_database, upgrade).
TablesCome ==
    /\ <>(tables = Table \/ crashes > 0)
    /\ transactional => <>(tables = Table \/ crashes >= Cardinality(Creators))

\* Not true of the code: a worker of the compose files that is faster than the
\* API's init_database ends, and so does the loser of the race to create tables.
EveryoneServes ==
    \A p \in {q \in Process : Role[q] # "migration"} : <>(pc[p] = "serving")

\* The operation the README plans for schema changes: upgrade ends with the
\* revision recorded.
UpgradeCompletes == <>stamped
=============================================================================

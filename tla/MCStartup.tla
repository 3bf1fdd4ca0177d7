----------------------------- MODULE MCStartup -----------------------------
(* The deployments of the repository, as roles of processes. *)
EXTENDS Startup, TLC

\* docs/deployment-railway.md with a worker of the compose files and a
\* migration next to it.
Deployment == [api |-> "api", railway |-> "init_worker",
               worker |-> "worker", alembic |-> "migration"]
Deployed == DOMAIN Deployment

\* compose.production.yaml
Compose == [api |-> "api", worker_a |-> "worker", worker_b |-> "worker"]
Composed == DOMAIN Compose

\* The API and `alembic upgrade head`.
Managed == [api |-> "api", alembic |-> "migration"]
ManagedProcesses == DOMAIN Managed
=============================================================================

------------------------------ MODULE MCHttpApi ------------------------------
(* Two concurrent HTTP requests, one row, a cap of one sample. *)
EXTENDS HttpApi, TLC

CONSTANTS h1, h2

TwoCalls == {h1, h2}

\* "audit" ends as "get", and "/metrics" as the first step of the other report.
MCPaths == {"/health", "/ready", "submit", "replay", "get", "/metrics/prometheus", "enrich"}
MCRoutes == {RouteOf(p) : p \in MCPaths}
=============================================================================

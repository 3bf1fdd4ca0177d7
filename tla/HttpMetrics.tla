----------------------------- MODULE HttpMetrics -----------------------------
(***************************************************************************)
(* The HTTP counters of app/observability.py: how many requests of a route  *)
(* ended with which code, and the latest SampleCap durations of a route.    *)
(* observe_request and render_http_metrics touch both under _metrics_lock;  *)
(* each is two steps here, so that the lock has something to protect.       *)
(*                                                                          *)
(* A route stands for a pair of method and route group, and a duration is a *)
(* sample without a value.                                                  *)
(***************************************************************************)
EXTENDS Naturals, FiniteSets, FiniteSetsExt

CONSTANTS Caller,     \* the HTTP requests that observe or render
          Route,      \* groups of paths
          Code,       \* status codes
          SampleCap,  \* samples kept of a route: 1000
          NoCaller

ASSUME MetricsAssumption ==
    /\ SampleCap \in Nat \ {0} /\ NoCaller \notin Caller
    /\ IsFiniteSet(Caller) /\ IsFiniteSet(Route) /\ IsFiniteSet(Code)

VARIABLES
    counts,   \* _request_counts
    samples,  \* number of _request_duration_seconds
    lock,     \* who holds _metrics_lock
    report    \* what a caller has rendered: [counts, samples]

metricsVars == <<counts, samples, lock, report>>

NoCounts == [x \in Route \X Code |-> 0]
NoSamples == [rt \in Route |-> 0]
NoReport == [counts |-> NoCounts, samples |-> NoSamples]

MetricsInit ==
    /\ counts = NoCounts
    /\ samples = NoSamples
    /\ lock = NoCaller
    /\ report = [c \in Caller |-> NoReport]

Enter(c) == lock = NoCaller /\ lock' = c

\* Mutant: the lock is not released.
LeaveHeld(c) == lock = c /\ UNCHANGED lock
Leave(c) == lock = c /\ lock' = NoCaller

\* observe_request
Count(c, route, code) ==
    /\ Enter(c)
    /\ counts' = [counts EXCEPT ![<<route, code>>] = @ + 1]
    /\ UNCHANGED <<samples, report>>

\* append, then del samples[:-1000].
KeepLatest(n) == IF n > SampleCap THEN SampleCap ELSE n

Sample(c, route) ==
    /\ Leave(c)
    /\ samples' = [samples EXCEPT ![route] = KeepLatest(@ + 1)]
    /\ UNCHANGED <<counts, report>>

\* Mutant: render does not wait for the lock.
RenderUnlocked(c) ==
    /\ report' = [report EXCEPT ![c].counts = counts]
    /\ lock' = c
    /\ UNCHANGED <<counts, samples>>

\* render_http_metrics
RenderCounts(c) ==
    /\ Enter(c)
    /\ report' = [report EXCEPT ![c].counts = counts]
    /\ UNCHANGED <<counts, samples>>

RenderSamples(c) ==
    /\ Leave(c)
    /\ report' = [report EXCEPT ![c].samples = samples]
    /\ UNCHANGED <<counts, samples>>

-----------------------------------------------------------------------------
Requests(n) == MapThenSumSet(LAMBDA x : n[x], DOMAIN n)
OfRoute(n, rt) == MapThenSumSet(LAMBDA k : n[<<rt, k>>], Code)

MetricsTypeOK ==
    /\ counts \in [Route \X Code -> Nat]
    /\ samples \in [Route -> 0 .. SampleCap]
    /\ lock \in Caller \cup {NoCaller}
    /\ report \in [Caller -> [counts : [Route \X Code -> Nat],
                              samples : [Route -> 0 .. SampleCap]]]

Agree(n, k) ==
    \A rt \in Route : k[rt] = IF OfRoute(n, rt) > SampleCap
                                 THEN SampleCap ELSE OfRoute(n, rt)
=============================================================================

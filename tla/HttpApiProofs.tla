---------------------------- MODULE HttpApiProofs ----------------------------
(***************************************************************************)
(* What an answer of the API says is true, for any number of concurrent    *)
(* calls, rows, paths and outages, and for any word as DISPATCH_BACKEND    *)
(* and any REDIS_URL but where a theorem says otherwise.                   *)
(***************************************************************************)
EXTENDS HttpApi, Sums, TLAPS

Label == {"new", "authorise", "handle", "redis", "publish", "reread", "render",
          "rendering", "count", "sample", "answer", "done"}

(* The handler has returned, or raised.                                    *)
Decided == {"count", "sample", "answer", "done"}

Types ==
    /\ pc \in [Caller -> Label]
    /\ call \in [Caller -> Call \cup {NoCall}]
    /\ code \in [Caller -> Nat]
    /\ row \in [Row -> {"none", "queued", "dead_letter"}]
    /\ probed \in [Caller -> SUBSET Dependency]
    /\ did \in [Caller -> SUBSET {"created", "replayed", "published"}]
    /\ ups \in [Caller -> SUBSET Dependency]
    /\ downs \in [Caller -> SUBSET Dependency]
    /\ up \subseteq Dependency

(* A handler has done what the statements before it do, and no more.       *)
Progress(r) ==
    /\ pc[r] # "new" => call[r] \in Call
    /\ pc[r] \notin Decided \cup {"publish", "reread"} => did[r] = {}
    /\ pc[r] \in {"publish", "reread"} =>
          /\ call[r].path \in {"submit", "replay"}
          /\ row[call[r].row] # "none"
          /\ call[r].path = "replay" => did[r] = {"replayed"}
    /\ pc[r] = "reread" =>
          /\ call[r].path = "submit"
          /\ Backend = "redis" => "published" \in did[r]
    /\ pc[r] = "redis" => call[r].path = "/ready"
    /\ pc[r] \in {"render", "rendering"} => call[r].path = "/metrics/prometheus"

(* What a probe found was up, or down, at some time since the call arrived.*)
ProbesAreTrue(r) ==
    /\ Asking(r) => up \subseteq ups[r] /\ Dependency \ up \subseteq downs[r]
    /\ pc[r] = "redis" =>
          /\ Backend = "redis" /\ probed[r] \subseteq ups[r]
          /\ "database" \notin probed[r] => downs[r] # {}

(* What a refusal k of a call of a path leaves behind: nothing, but for    *)
(* the replay that is stored before the configuration of the dispatch is   *)
(* found wanting, which the handler answers as a conflict.                 *)
Clean(path, k, changes) ==
    k \in 400 .. 499 =>
        \/ changes = {}
        \/ /\ ~DispatchIsConfigured
           /\ path = "replay" /\ k = 409 /\ changes = {"replayed"}

(* The three properties, from the moment the answer is decided.            *)
Truthful(r) ==
    pc[r] \in Decided =>
        /\ call[r].path \in {"submit", "replay"} /\ code[r] \in {200, 202} =>
              /\ row[call[r].row] # "none"
              /\ Backend = "redis" => "published" \in did[r]
              /\ call[r].path = "replay" => "replayed" \in did[r]
        /\ Clean(call[r].path, code[r], did[r])
        /\ call[r].path = "/ready" =>
              IF code[r] = 200 THEN Dependency \subseteq ups[r] ELSE downs[r] # {}

Served(r) == Progress(r) /\ ProbesAreTrue(r) /\ Truthful(r)

ApiInv == Types /\ \A r \in Caller : Served(r)

(* A step of r and of no other call, that unmakes no row.                  *)
StepOf(r) ==
    /\ UNCHANGED <<call, up, ups, downs>>
    /\ \A q \in Caller \ {r} :
          pc'[q] = pc[q] /\ code'[q] = code[q] /\ did'[q] = did[q] /\ probed'[q] = probed[q]
    /\ \A x \in Row : row'[x] = "none" => row[x] = "none"

-----------------------------------------------------------------------------
(* A call whose own record stays is served as before, while no row is      *)
(* unmade and no dependency changes.                                       *)
LEMMA StillServed ==
  ASSUME ApiInv, NEW q \in Caller,
         pc'[q] = pc[q], code'[q] = code[q], did'[q] = did[q], probed'[q] = probed[q],
         UNCHANGED <<call, up, ups, downs>>,
         \A x \in Row : row'[x] = "none" => row[x] = "none"
  PROVE  Served(q)'
<1>1. Served(q) /\ (pc[q] # "new" => call[q].row \in Row)
  BY DEF ApiInv, Served, Progress, Call
<1>2. Progress(q)'
  BY <1>1 DEF Served, Progress, Decided
<1>3. ProbesAreTrue(q)'
  BY <1>1 DEF Served, ProbesAreTrue, Asking
<1>4. Truthful(q)'
  BY <1>1 DEF Served, Truthful, Decided
<1> QED
  BY <1>2, <1>3, <1>4 DEF Served

LEMMA OneStep ==
  ASSUME ApiInv, NEW r \in Caller, StepOf(r), Types', Served(r)'
  PROVE  ApiInv'
BY StillServed DEF StepOf, ApiInv

(* How the step of a call ends.                                            *)
LEMMA Moved ==
  ASSUME ApiInv, NEW r \in Caller, NEW label \in Label, NEW k \in Nat,
         \/ GoTo(r, label) /\ k = code[r]
         \/ Return(r, k) /\ label = "count"
         \/ Raise(r) /\ label = "count" /\ k = 500
  PROVE  /\ pc'[r] = label /\ code'[r] = k
         /\ pc' \in [Caller -> Label] /\ code' \in [Caller -> Nat]
         /\ \A q \in Caller \ {r} : pc'[q] = pc[q] /\ code'[q] = code[q]
BY DEF ApiInv, Types, GoTo, Return, Raise

(* A decision that tells the truth.                                        *)
LEMMA Decides ==
  ASSUME ApiInv, NEW r \in Caller, pc[r] # "new", NEW k \in Nat,
         Return(r, k) \/ (Raise(r) /\ k = 500),
         UNCHANGED <<call, up, ups, downs, row>>,
         did' \in [Caller -> SUBSET {"created", "replayed", "published"}],
         probed' \in [Caller -> SUBSET Dependency],
         \A q \in Caller \ {r} : did'[q] = did[q] /\ probed'[q] = probed[q],
         call[r].path \in {"submit", "replay"} /\ k \in {200, 202} =>
              /\ row[call[r].row] # "none"
              /\ Backend = "redis" => "published" \in did'[r]
              /\ call[r].path = "replay" => "replayed" \in did'[r],
         Clean(call[r].path, k, did'[r]),
         call[r].path = "/ready" =>
              IF k = 200 THEN Dependency \subseteq ups[r] ELSE downs[r] # {}
  PROVE  ApiInv'
<1>1. /\ pc'[r] = "count" /\ code'[r] = k
      /\ pc' \in [Caller -> Label] /\ code' \in [Caller -> Nat]
      /\ \A q \in Caller \ {r} : pc'[q] = pc[q] /\ code'[q] = code[q]
  <2>1. "count" \in Label
    BY DEF Label
  <2> QED
    BY <2>1, Moved
<1>2. Types'
  BY <1>1 DEF ApiInv, Types
<1>3. Progress(r)'
  BY <1>1 DEF ApiInv, Served, Progress, Decided
<1>4. ProbesAreTrue(r)'
  BY <1>1 DEF ProbesAreTrue, Asking
<1>5. Truthful(r)'
  BY <1>1 DEF Truthful, Clean
<1> QED
  BY <1>1, <1>2, <1>3, <1>4, <1>5, OneStep DEF StepOf, Served

(* A call that neither writes nor probes, and does not answer 200, 202 or  *)
(* about readiness: whatever it ends with is true.                         *)
LEMMA DecidesUnchanged ==
  ASSUME ApiInv, NEW r \in Caller, pc[r] # "new", NEW k \in Nat,
         Return(r, k) \/ (Raise(r) /\ k = 500), ReadOnly,
         call[r].path # "/ready",
         call[r].path \in {"submit", "replay"} => k \notin {200, 202},
         did[r] = {} \/ k \notin 400 .. 499
  PROVE  ApiInv'
<1>1. did' = did /\ probed' = probed /\ UNCHANGED <<call, up, ups, downs, row>>
  BY DEF ReadOnly, KeepWorld
<1>2. /\ did \in [Caller -> SUBSET {"created", "replayed", "published"}]
      /\ probed \in [Caller -> SUBSET Dependency]
  BY DEF ApiInv, Types
<1>3. Clean(call[r].path, k, did'[r])
  BY <1>1 DEF Clean
<1> QED
  BY <1>1, <1>2, <1>3, Decides

(* A step on the way to the answer.                                        *)
LEMMA GoesOn ==
  ASSUME ApiInv, NEW r \in Caller, pc[r] # "new", NEW label \in Label, GoTo(r, label),
         UNCHANGED <<call, up, ups, downs>>,
         row' \in [Row -> {"none", "queued", "dead_letter"}],
         \A x \in Row : row'[x] = "none" => row[x] = "none",
         did' \in [Caller -> SUBSET {"created", "replayed", "published"}],
         probed' \in [Caller -> SUBSET Dependency],
         \A q \in Caller \ {r} : did'[q] = did[q] /\ probed'[q] = probed[q],
         pc'[r] = label => Progress(r)' /\ ProbesAreTrue(r)' /\ Truthful(r)'
  PROVE  ApiInv'
<1>1. /\ pc'[r] = label /\ code'[r] = code[r]
      /\ pc' \in [Caller -> Label] /\ code' \in [Caller -> Nat]
      /\ \A q \in Caller \ {r} : pc'[q] = pc[q] /\ code'[q] = code[q]
  <2>1. code[r] \in Nat
    BY DEF ApiInv, Types
  <2> QED
    BY <2>1, Moved
<1>2. Types'
  BY <1>1 DEF ApiInv, Types
<1> QED
  BY <1>1, <1>2, OneStep DEF StepOf, Served

LEMMA GoesOnUnchanged ==
  ASSUME ApiInv, NEW r \in Caller, pc[r] # "new", NEW label \in Label, GoTo(r, label),
         ReadOnly,
         pc'[r] = label => Progress(r)' /\ ProbesAreTrue(r)' /\ Truthful(r)'
  PROVE  ApiInv'
<1>1. did' = did /\ probed' = probed /\ row' = row /\ UNCHANGED <<call, up, ups, downs>>
  BY DEF ReadOnly, KeepWorld
<1>2. /\ did \in [Caller -> SUBSET {"created", "replayed", "published"}]
      /\ probed \in [Caller -> SUBSET Dependency]
      /\ row \in [Row -> {"none", "queued", "dead_letter"}]
  BY DEF ApiInv, Types
<1> QED
  BY <1>1, <1>2, GoesOn

-----------------------------------------------------------------------------
(* The handlers.                                                           *)
LEMMA AuthoriseKeeps ==
  ASSUME ApiInv, NEW r \in Caller, Authorise(r)
  PROVE  ApiInv'
<1>1. /\ pc[r] = "authorise" /\ pc[r] # "new" /\ ReadOnly
      /\ did[r] = {} /\ call[r] \in Call
  BY DEF Authorise, ApiInv, Served, Progress, Decided
<1>2. CASE ~KeyIsSet \/ call[r].path \in PublicPath \/ call[r].key = "right"
  <2>1. GoTo(r, "handle") /\ "handle" \in Label
    BY <1>2 DEF Authorise, Label
  <2>2. /\ did' = did /\ probed' = probed /\ row' = row
        /\ UNCHANGED <<call, up, ups, downs>>
    BY <1>1 DEF ReadOnly, KeepWorld
  <2>3. Asking(r) => up \subseteq ups[r] /\ Dependency \ up \subseteq downs[r]
    BY DEF ApiInv, Served, ProbesAreTrue
  <2>4. ASSUME pc'[r] = "handle"
        PROVE  Progress(r)' /\ ProbesAreTrue(r)' /\ Truthful(r)'
    <3>1. Progress(r)'
      BY <1>1, <2>2, <2>4 DEF Progress, Decided
    <3>2. ProbesAreTrue(r)'
      BY <1>1, <2>2, <2>3, <2>4 DEF ProbesAreTrue, Asking
    <3>3. Truthful(r)'
      BY <2>4 DEF Truthful, Decided
    <3> QED
      BY <3>1, <3>2, <3>3
  <2> QED
    BY <1>1, <2>1, <2>4, GoesOnUnchanged
<1>3. CASE ~(~KeyIsSet \/ call[r].path \in PublicPath \/ call[r].key = "right")
  <2>1. call[r].path # "/ready"
    BY <1>3 DEF PublicPath
  <2>2. PICK k \in {401, 500} : Return(r, k) \/ (Raise(r) /\ k = 500)
    BY <1>3 DEF Authorise
  <2> QED
    BY <1>1, <2>1, <2>2, DecidesUnchanged
<1> QED
  BY <1>2, <1>3

(* Handlers that decide without a change, and not about readiness.         *)
LEMMA ReadersKeep ==
  ASSUME ApiInv, NEW r \in Caller,
         Health(r) \/ Invalid(r) \/ DatabaseError(r) \/ Reread(r) \/ Get(r) \/ Enrich(r)
  PROVE  ApiInv'
<1>1. ReadOnly /\ pc[r] \in {"handle", "reread"}
  BY DEF Health, Invalid, DatabaseError, Reread, Get, Enrich, At
<1>2. /\ pc[r] = "handle" => did[r] = {}
      /\ pc[r] = "reread" => /\ call[r].path = "submit"
                             /\ row[call[r].row] # "none"
                             /\ Backend = "redis" => "published" \in did[r]
  BY DEF ApiInv, Served, Progress, Decided
<1>3. CASE Health(r) \/ Invalid(r) \/ Get(r) \/ Enrich(r)
  <2>1. /\ pc[r] = "handle"
        /\ \E k \in {200, 404, 422, 500, 503} :
              /\ Return(r, k) \/ (Raise(r) /\ k = 500)
              /\ call[r].path # "/ready"
              /\ call[r].path \in {"submit", "replay"} => k \notin {200, 202}
    BY <1>3 DEF Health, Invalid, Get, Enrich, At
  <2> QED
    BY <1>1, <1>2, <2>1, DecidesUnchanged
<1>4. CASE DatabaseError(r)
  <2>1. Raise(r) /\ call[r].path # "/ready"
    BY <1>2, <1>4 DEF DatabaseError, At
  <2> QED
    BY <1>1, <2>1, DecidesUnchanged
<1>5. CASE Reread(r)
  <2>1. Return(r, 202) /\ pc[r] = "reread"
    BY <1>5 DEF Reread
  <2>2. /\ did' = did /\ probed' = probed /\ UNCHANGED <<call, up, ups, downs, row>>
        /\ did \in [Caller -> SUBSET {"created", "replayed", "published"}]
        /\ probed \in [Caller -> SUBSET Dependency]
    BY <1>1 DEF ReadOnly, KeepWorld, ApiInv, Types
  <2> QED
    BY <1>2, <2>1, <2>2, Decides DEF Clean
<1> QED
  BY <1>3, <1>4, <1>5

LEMMA ProbeDatabaseKeeps ==
  ASSUME ApiInv, NEW r \in Caller, ProbeDatabase(r)
  PROVE  ApiInv'
<1>1. /\ pc[r] = "handle" /\ call[r].path = "/ready" /\ call[r] \in Call /\ did[r] = {}
      /\ up \subseteq ups[r] /\ Dependency \ up \subseteq downs[r]
  BY DEF ProbeDatabase, At, ApiInv, Served, Progress, ProbesAreTrue, Asking, Decided
<1>2. PICK P : P = up \cap {"database"}
  OBVIOUS
<1>3. /\ probed' = [probed EXCEPT ![r] = P]
      /\ UNCHANGED <<call, up, ups, downs, row, did>>
  BY <1>2 DEF ProbeDatabase, KeepWorld
<1>4. /\ probed'[r] = P /\ P \subseteq up /\ up \subseteq Dependency
      /\ probed' \in [Caller -> SUBSET Dependency]
      /\ \A q \in Caller \ {r} : probed'[q] = probed[q]
      /\ did \in [Caller -> SUBSET {"created", "replayed", "published"}]
      /\ row \in [Row -> {"none", "queued", "dead_letter"}]
  BY <1>2, <1>3 DEF ApiInv, Types
<1>5. "database" \notin P => downs[r] # {}
  BY <1>1, <1>2 DEF Dependency
<1>6. CASE Backend = "redis"
  <2>1. GoTo(r, "redis") /\ "redis" \in Label
    BY <1>6 DEF ProbeDatabase, Label
  <2>2. ASSUME pc'[r] = "redis"
        PROVE  Progress(r)' /\ ProbesAreTrue(r)' /\ Truthful(r)'
    <3>1. Progress(r)'
      BY <1>1, <1>3, <2>2 DEF Progress, Decided
    <3>2. ProbesAreTrue(r)'
      BY <1>1, <1>3, <1>4, <1>5, <1>6, <2>2 DEF ProbesAreTrue, Asking
    <3>3. Truthful(r)'
      BY <2>2 DEF Truthful, Decided
    <3> QED
      BY <3>1, <3>2, <3>3
  <2> QED
    BY <1>1, <1>3, <1>4, <2>1, <2>2, GoesOn
<1>7. CASE Backend # "redis"
  <2>1. Dependency = {"database"}
    BY <1>7 DEF Dependency
  <2>2. PICK k \in {200, 503} : /\ Return(r, k)
                                /\ k = 200 <=> Dependency \subseteq P
    BY <1>4, <1>7 DEF ProbeDatabase, Conclude, IsReady
  <2>3. IF k = 200 THEN Dependency \subseteq ups[r] ELSE downs[r] # {}
    BY <1>1, <1>4, <1>5, <2>1, <2>2
  <2> QED
    BY <1>1, <1>3, <1>4, <2>2, <2>3, Decides DEF Clean
<1> QED
  BY <1>6, <1>7

LEMMA ProbeRedisKeeps ==
  ASSUME ApiInv, NEW r \in Caller, ProbeRedis(r)
  PROVE  ApiInv'
<1>1. /\ pc[r] = "redis" /\ call[r].path = "/ready" /\ call[r] \in Call /\ did[r] = {}
      /\ up \subseteq ups[r] /\ Dependency \ up \subseteq downs[r]
      /\ probed[r] \subseteq ups[r] /\ ("database" \notin probed[r] => downs[r] # {})
  BY DEF ProbeRedis, ApiInv, Served, Progress, ProbesAreTrue, Asking, Decided
<1>2. PICK P : P = probed[r] \cup (up \cap {"redis"})
  OBVIOUS
<1>3. /\ probed' = [probed EXCEPT ![r] = P]
      /\ UNCHANGED <<call, up, ups, downs, row, did>>
  BY <1>2 DEF ProbeRedis, KeepWorld
<1>4. /\ probed'[r] = P /\ P \subseteq ups[r]
      /\ probed' \in [Caller -> SUBSET Dependency]
      /\ \A q \in Caller \ {r} : probed'[q] = probed[q]
      /\ did \in [Caller -> SUBSET {"created", "replayed", "published"}]
  BY <1>1, <1>2, <1>3 DEF ApiInv, Types
<1>5. PICK k \in {200, 503} : /\ Return(r, k)
                              /\ k = 200 <=> Dependency \subseteq P
  BY <1>4 DEF ProbeRedis, Conclude, IsReady
<1>6. IF k = 200 THEN Dependency \subseteq ups[r] ELSE downs[r] # {}
  <2>1. CASE k = 200
    BY <1>4, <1>5, <2>1
  <2>2. CASE k # 200
    <3>1. PICK d \in Dependency : d \notin P
      BY <1>5, <2>2
    <3>2. d = "database" => downs[r] # {}
      BY <1>1, <1>2, <3>1
    <3>3. d # "database" => d = "redis"
      BY DEF Dependency
    <3>4. d = "redis" => d \in downs[r]
      BY <1>1, <1>2, <3>1
    <3> QED
      BY <2>2, <3>2, <3>3, <3>4
  <2> QED
    BY <2>1, <2>2
<1> QED
  BY <1>1, <1>3, <1>4, <1>5, <1>6, Decides DEF Clean

(* A row that is written is there, and the history says so.                *)
LEMMA Written ==
  ASSUME ApiInv, NEW r \in Caller, NEW s \in {"queued", "dead_letter"},
         NEW what \in {"created", "replayed"}, call[r] \in Call, Write(r, s, what)
  PROVE  /\ row'[call[r].row] = s /\ did'[r] = did[r] \cup {what}
         /\ row' \in [Row -> {"none", "queued", "dead_letter"}]
         /\ \A x \in Row : row'[x] = "none" => row[x] = "none"
         /\ did' \in [Caller -> SUBSET {"created", "replayed", "published"}]
         /\ \A q \in Caller \ {r} : did'[q] = did[q]
         /\ UNCHANGED <<call, up, ups, downs, probed>>
<1>1. call[r].row \in Row
  BY DEF Call
<1>2. /\ row' = [row EXCEPT ![call[r].row] = s]
      /\ did' = [did EXCEPT ![r] = @ \cup {what}]
      /\ UNCHANGED <<call, up, ups, downs, probed>>
  BY DEF Write, KeepWorld
<1> QED
  BY <1>1, <1>2 DEF ApiInv, Types

(* A call that has a row goes on to publish it.                            *)
LEMMA GoesToPublish ==
  ASSUME ApiInv, NEW r \in Caller, pc[r] # "new", call[r] \in Call, GoTo(r, "publish"),
         UNCHANGED <<call, up, ups, downs, probed>>,
         call[r].path \in {"submit", "replay"},
         row' \in [Row -> {"none", "queued", "dead_letter"}],
         \A x \in Row : row'[x] = "none" => row[x] = "none",
         did' \in [Caller -> SUBSET {"created", "replayed", "published"}],
         \A q \in Caller \ {r} : did'[q] = did[q],
         row'[call[r].row] # "none",
         call[r].path = "replay" => did'[r] = {"replayed"}
  PROVE  ApiInv'
<1>1. probed \in [Caller -> SUBSET Dependency] /\ "publish" \in Label
  BY DEF ApiInv, Types, Label
<1>2. ASSUME pc'[r] = "publish"
      PROVE  Progress(r)' /\ ProbesAreTrue(r)' /\ Truthful(r)'
  <2>1. Progress(r)'
    BY <1>2 DEF Progress, Decided
  <2>2. ProbesAreTrue(r)'
    BY <1>2 DEF ProbesAreTrue, Asking
  <2>3. Truthful(r)'
    BY <1>2 DEF Truthful, Decided
  <2> QED
    BY <2>1, <2>2, <2>3
<1> QED
  BY <1>1, <1>2, GoesOn

LEMMA CreateKeeps ==
  ASSUME ApiInv, NEW r \in Caller, Create(r)
  PROVE  ApiInv'
<1>1. pc[r] = "handle" /\ call[r].path = "submit" /\ call[r] \in Call /\ GoTo(r, "publish")
  BY DEF Create, At, ApiInv, Served, Progress
<1>2. CASE row[call[r].row] = "none"
  BY <1>1, <1>2, Written, GoesToPublish DEF Create
<1>3. CASE row[call[r].row] # "none"
  BY <1>1, <1>3, GoesToPublish DEF Create, ReadOnly, KeepWorld, ApiInv, Types
<1> QED
  BY <1>2, <1>3

LEMMA ReplayKeeps ==
  ASSUME ApiInv, NEW r \in Caller, Replay(r)
  PROVE  ApiInv'
<1>1. pc[r] = "handle" /\ call[r].path = "replay" /\ call[r] \in Call /\ did[r] = {}
  BY DEF Replay, At, ApiInv, Served, Progress, Decided
<1>2. CASE row[call[r].row] = "dead_letter"
  <2>1. GoTo(r, "publish") /\ Write(r, "queued", "replayed")
    BY <1>2 DEF Replay
  <2> QED
    BY <1>1, <2>1, Written, GoesToPublish
<1>3. CASE row[call[r].row] # "dead_letter"
  <2>1. PICK k \in {404, 409} : Return(r, k) /\ ReadOnly
    BY <1>3 DEF Replay
  <2> QED
    BY <1>1, <2>1, DecidesUnchanged
<1> QED
  BY <1>2, <1>3

LEMMA PublishKeeps ==
  ASSUME ApiInv, NEW r \in Caller, Publish(r)
  PROVE  ApiInv'
<1>1. /\ pc[r] = "publish" /\ call[r] \in Call
      /\ call[r].path \in {"submit", "replay"} /\ row[call[r].row] # "none"
      /\ call[r].path = "replay" => did[r] = {"replayed"}
  BY DEF Publish, ApiInv, Served, Progress
<1>2. /\ UNCHANGED <<call, up, ups, downs, row, probed>>
      /\ probed \in [Caller -> SUBSET Dependency]
      /\ row \in [Row -> {"none", "queued", "dead_letter"}]
      /\ did \in [Caller -> SUBSET {"created", "replayed", "published"}]
  BY DEF Publish, KeepWorld, ApiInv, Types
<1>3. ASSUME Proceed(r), did' \in [Caller -> SUBSET {"created", "replayed", "published"}],
             \A q \in Caller \ {r} : did'[q] = did[q],
             did[r] \subseteq did'[r], Backend = "redis" => "published" \in did'[r]
      PROVE  ApiInv'
  <2>1. CASE call[r].path = "submit"
    <3>1. GoTo(r, "reread") /\ "reread" \in Label
      BY <1>3, <2>1 DEF Proceed, Label
    <3>2. ASSUME pc'[r] = "reread"
          PROVE  Progress(r)' /\ ProbesAreTrue(r)' /\ Truthful(r)'
      <4>1. Progress(r)'
        BY <1>1, <1>2, <1>3, <2>1, <3>2 DEF Progress, Decided
      <4>2. ProbesAreTrue(r)'
        BY <3>2 DEF ProbesAreTrue, Asking
      <4>3. Truthful(r)'
        BY <3>2 DEF Truthful, Decided
      <4> QED
        BY <4>1, <4>2, <4>3
    <3> QED
      BY <1>1, <1>2, <1>3, <3>1, <3>2, GoesOn
  <2>2. CASE call[r].path = "replay"
    <3>1. Return(r, 200)
      BY <1>3, <2>2 DEF Proceed
    <3> QED
      BY <1>1, <1>2, <1>3, <2>2, <3>1, Decides DEF Clean
  <2> QED
    BY <1>1, <2>1, <2>2
<1>4. CASE Backend = "database"
  BY <1>2, <1>3, <1>4 DEF Publish
<1>5. CASE Backend = "redis" /\ IsUp("redis")
  <2>1. Proceed(r) /\ did' = [did EXCEPT ![r] = @ \cup {"published"}]
    BY <1>5 DEF Publish
  <2>2. /\ did' \in [Caller -> SUBSET {"created", "replayed", "published"}]
        /\ \A q \in Caller \ {r} : did'[q] = did[q]
        /\ did[r] \subseteq did'[r] /\ "published" \in did'[r]
    BY <1>2, <2>1
  <2> QED
    BY <1>3, <2>1, <2>2
<1>6. CASE ~(Backend = "database" \/ (Backend = "redis" /\ IsUp("redis")))
  <2>1. PublishError(r) /\ did' = did
    BY <1>6 DEF Publish
  <2>2. PICK k \in {409, 500} :
           /\ Return(r, k) \/ (Raise(r) /\ k = 500)
           /\ k = 409 => call[r].path = "replay" /\ ~DispatchIsConfigured
    BY <2>1 DEF PublishError
  <2>3. Clean(call[r].path, k, did'[r])
    BY <1>1, <2>1, <2>2 DEF Clean
  <2> QED
    BY <1>1, <1>2, <2>1, <2>2, <2>3, Decides
<1> QED
  BY <1>4, <1>5, <1>6

LEMMA SnapshotKeeps ==
  ASSUME ApiInv, NEW r \in Caller, Snapshot(r)
  PROVE  ApiInv'
<1>1. /\ pc[r] = "handle" /\ call[r] \in Call /\ did[r] = {} /\ ReadOnly
      /\ call[r].path \in {"/metrics", "/metrics/prometheus"}
  BY DEF Snapshot, At, ApiInv, Served, Progress, Decided
<1>2. CASE call[r].path = "/metrics"
  <2>1. Return(r, 200)
    BY <1>2 DEF Snapshot
  <2> QED
    BY <1>1, <2>1, DecidesUnchanged
<1>3. CASE call[r].path # "/metrics"
  <2>1. GoTo(r, "render") /\ "render" \in Label
    BY <1>3 DEF Snapshot, Label
  <2>2. did' = did /\ UNCHANGED call
    BY <1>1 DEF ReadOnly, KeepWorld
  <2>3. ASSUME pc'[r] = "render"
        PROVE  Progress(r)' /\ ProbesAreTrue(r)' /\ Truthful(r)'
    <3>1. Progress(r)'
      BY <1>1, <1>3, <2>2, <2>3 DEF Progress, Decided
    <3>2. ProbesAreTrue(r)'
      BY <2>3 DEF ProbesAreTrue, Asking
    <3>3. Truthful(r)'
      BY <2>3 DEF Truthful, Decided
    <3> QED
      BY <3>1, <3>2, <3>3
  <2> QED
    BY <1>1, <2>1, <2>3, GoesOnUnchanged
<1> QED
  BY <1>2, <1>3

(* The steps of render_http_metrics and observe_request, and the answer:   *)
(* the metrics lock is all they wait for, and what is decided stays.       *)
LEMMA RenderingKeeps ==
  ASSUME ApiInv, NEW r \in Caller, BeginRender(r) \/ EndRender(r)
  PROVE  ApiInv'
<1>1. /\ pc[r] \in {"render", "rendering"} /\ call[r] \in Call /\ did[r] = {}
      /\ call[r].path = "/metrics/prometheus"
  BY DEF BeginRender, EndRender, ApiInv, Served, Progress, Decided
<1>2. /\ UNCHANGED <<call, row, up, probed, did, ups, downs>>
      /\ probed \in [Caller -> SUBSET Dependency]
      /\ row \in [Row -> {"none", "queued", "dead_letter"}]
      /\ did \in [Caller -> SUBSET {"created", "replayed", "published"}]
  BY DEF BeginRender, EndRender, ApiInv, Types
<1>3. CASE BeginRender(r)
  <2>1. GoTo(r, "rendering") /\ "rendering" \in Label
    BY <1>3 DEF BeginRender, Label
  <2>2. ASSUME pc'[r] = "rendering"
        PROVE  Progress(r)' /\ ProbesAreTrue(r)' /\ Truthful(r)'
    <3>1. Progress(r)'
      BY <1>1, <1>2, <2>2 DEF Progress, Decided
    <3>2. ProbesAreTrue(r)'
      BY <2>2 DEF ProbesAreTrue, Asking
    <3>3. Truthful(r)'
      BY <2>2 DEF Truthful, Decided
    <3> QED
      BY <3>1, <3>2, <3>3
  <2> QED
    BY <1>1, <1>2, <2>1, <2>2, GoesOn
<1>4. CASE EndRender(r)
  <2>1. Return(r, 200)
    BY <1>4 DEF EndRender
  <2> QED
    BY <1>1, <1>2, <2>1, Decides DEF Clean
<1> QED
  BY <1>3, <1>4

LEMMA AnsweringKeeps ==
  ASSUME ApiInv, NEW r \in Caller, BeginObserve(r) \/ EndObserve(r) \/ Answer(r)
  PROVE  ApiInv'
<1>1. PICK label \in {"sample", "answer", "done"} : GoTo(r, label)
  BY DEF BeginObserve, EndObserve, Answer
<1>2. /\ UNCHANGED <<call, row, up, probed, did, ups, downs>>
      /\ probed \in [Caller -> SUBSET Dependency]
      /\ row \in [Row -> {"none", "queued", "dead_letter"}]
      /\ did \in [Caller -> SUBSET {"created", "replayed", "published"}]
      /\ code' = code
  BY <1>1 DEF BeginObserve, EndObserve, Answer, ReadOnly, KeepWorld, ApiInv, Types, GoTo
<1>3. pc[r] \in Decided
  BY DEF BeginObserve, EndObserve, Answer, Decided
<1>4. ASSUME pc'[r] = label
      PROVE  Progress(r)' /\ ProbesAreTrue(r)' /\ Truthful(r)'
  <2>1. Progress(r)'
    BY <1>2, <1>3, <1>4 DEF ApiInv, Served, Progress, Decided
  <2>2. ProbesAreTrue(r)'
    BY <1>4 DEF ProbesAreTrue, Asking
  <2>3. Truthful(r)'
    BY <1>2, <1>3, <1>4 DEF ApiInv, Served, Truthful
  <2> QED
    BY <2>1, <2>2, <2>3
<1> QED
  BY <1>1, <1>2, <1>3, <1>4, GoesOn DEF Label, Decided

-----------------------------------------------------------------------------
(* A call arrives, and knows which dependencies are up at that moment.     *)
LEMMA ArriveKeeps ==
  ASSUME ApiInv, NEW r \in Caller, Arrive(r)
  PROVE  ApiInv'
<1>1. PICK c \in Call :
        /\ call' = [call EXCEPT ![r] = c]
        /\ ups' = [ups EXCEPT ![r] = IF c.path = "/ready" THEN up ELSE {}]
        /\ downs' = [downs EXCEPT ![r] = IF c.path = "/ready" THEN Dependency \ up ELSE {}]
  BY DEF Arrive
<1>2. /\ pc[r] = "new" /\ GoTo(r, "authorise") /\ "authorise" \in Label
      /\ UNCHANGED <<row, up, probed, did>>
  BY DEF Arrive, Label
<1>3. /\ pc'[r] = "authorise" /\ code' = code
      /\ pc' \in [Caller -> Label]
      /\ \A q \in Caller \ {r} : pc'[q] = pc[q]
  BY <1>2 DEF ApiInv, Types, GoTo
<1>4. /\ call'[r] = c
      /\ c.path = "/ready" => ups'[r] = up /\ downs'[r] = Dependency \ up
      /\ \A q \in Caller \ {r} : call'[q] = call[q] /\ ups'[q] = ups[q] /\ downs'[q] = downs[q]
      /\ call' \in [Caller -> Call \cup {NoCall}]
      /\ ups' \in [Caller -> SUBSET Dependency] /\ downs' \in [Caller -> SUBSET Dependency]
  BY <1>1 DEF ApiInv, Types
<1>5. Types'
  BY <1>2, <1>3, <1>4 DEF ApiInv, Types
<1>6. Served(r)'
  <2>1. did[r] = {}
    BY <1>2 DEF ApiInv, Served, Progress, Decided
  <2>2. Progress(r)'
    BY <1>2, <1>3, <1>4, <2>1 DEF Progress, Decided
  <2>3. ProbesAreTrue(r)'
    BY <1>2, <1>3, <1>4 DEF ProbesAreTrue, Asking
  <2>4. Truthful(r)'
    BY <1>3 DEF Truthful, Decided
  <2> QED
    BY <2>2, <2>3, <2>4 DEF Served
<1>7. ASSUME NEW q \in Caller \ {r} PROVE Served(q)'
  <2>1. Served(q)
    BY DEF ApiInv
  <2>2. Progress(q)'
    BY <1>2, <1>3, <1>4, <2>1 DEF Served, Progress, Decided
  <2>3. ProbesAreTrue(q)'
    BY <1>2, <1>3, <1>4, <2>1 DEF Served, ProbesAreTrue, Asking
  <2>4. Truthful(q)'
    BY <1>2, <1>3, <1>4, <2>1 DEF Served, Truthful, Decided
  <2> QED
    BY <2>2, <2>3, <2>4 DEF Served
<1> QED
  BY <1>5, <1>6, <1>7 DEF ApiInv

(* A dependency changes; every call that is asking about them sees it.     *)
LEMMA ToggleKeeps ==
  ASSUME ApiInv, NEW d \in Reachable, Toggle(d)
  PROVE  ApiInv'
<1>1. /\ up' \subseteq Dependency
      /\ ups' = [r \in Caller |-> IF Asking(r) THEN ups[r] \cup up' ELSE ups[r]]
      /\ downs' = [r \in Caller |-> IF Asking(r) THEN downs[r] \cup (Dependency \ up') ELSE downs[r]]
      /\ UNCHANGED <<pc, call, code, row, probed, did>>
  BY DEF Toggle, ApiInv, Types, Reachable
<1>2. Types'
  BY <1>1 DEF ApiInv, Types
<1>3. ASSUME NEW q \in Caller PROVE Served(q)'
  <2>1. /\ ups[q] \subseteq ups'[q] /\ downs[q] \subseteq downs'[q]
        /\ Asking(q) => up' \subseteq ups'[q] /\ Dependency \ up' \subseteq downs'[q]
        /\ Asking(q)' <=> Asking(q)
    BY <1>1 DEF Asking
  <2>2. Served(q)
    BY DEF ApiInv
  <2>3. Progress(q)'
    BY <1>1, <2>2 DEF Served, Progress
  <2>4. ProbesAreTrue(q)'
    BY <1>1, <2>1, <2>2 DEF Served, ProbesAreTrue
  <2>5. pc[q] \in Decided => ~Asking(q)
    BY DEF Decided, Asking
  <2>6. pc[q] \in Decided => ups'[q] = ups[q] /\ downs'[q] = downs[q]
    BY <1>1, <2>5
  <2>7. Truthful(q)'
    BY <1>1, <2>2, <2>6 DEF Served, Truthful
  <2> QED
    BY <2>3, <2>4, <2>7 DEF Served
<1> QED
  BY <1>2, <1>3 DEF ApiInv

LEMMA SettleKeeps ==
  ASSUME ApiInv, NEW x \in Row, Settle(x)
  PROVE  ApiInv'
<1>1. /\ row' = [row EXCEPT ![x] = "dead_letter"]
      /\ UNCHANGED <<pc, call, code, up, probed, did, ups, downs>>
  BY DEF Settle
<1>2. /\ row' \in [Row -> {"none", "queued", "dead_letter"}]
      /\ \A y \in Row : row'[y] = "none" => row[y] = "none"
  BY <1>1 DEF ApiInv, Types
<1>3. Types'
  BY <1>1, <1>2 DEF ApiInv, Types
<1>4. \A q \in Caller : Served(q)'
  BY <1>1, <1>2, StillServed
<1> QED
  BY <1>3, <1>4 DEF ApiInv

-----------------------------------------------------------------------------
LEMMA InitHolds == Init => ApiInv
<1> SUFFICES ASSUME Init PROVE ApiInv
  OBVIOUS
<1>1. Types
  BY DEF Init, Types, Label, Dependency, Reachable
<1>2. \A r \in Caller : Served(r)
  BY DEF Init, Served, Progress, ProbesAreTrue, Truthful, Asking, Decided
<1> QED
  BY <1>1, <1>2 DEF ApiInv

LEMMA StepKeeps == ApiInv /\ [Next]_vars => ApiInv'
<1> SUFFICES ASSUME ApiInv, [Next]_vars PROVE ApiInv'
  OBVIOUS
<1>1. CASE UNCHANGED vars
  <2>1. /\ UNCHANGED <<pc, call, code, row, up, probed, did, ups, downs>>
        /\ \A x \in Row : row'[x] = "none" => row[x] = "none"
    BY <1>1 DEF vars, apiVars
  <2>2. Types'
    BY <2>1 DEF ApiInv, Types
  <2> QED
    BY <2>1, <2>2, StillServed DEF ApiInv
<1>2. CASE \E r \in Caller : Arrive(r)
  BY <1>2, ArriveKeeps
<1>3. ASSUME NEW r \in Caller, Handle(r) PROVE ApiInv'
  BY <1>3, AuthoriseKeeps, ReadersKeep, ProbeDatabaseKeeps, ProbeRedisKeeps,
     CreateKeeps, ReplayKeeps, PublishKeeps, SnapshotKeeps, RenderingKeeps, AnsweringKeeps
  DEF Handle
<1>4. CASE \E d \in Reachable : Toggle(d)
  BY <1>4, ToggleKeeps
<1>5. CASE \E x \in Row : Settle(x)
  BY <1>5, SettleKeeps
<1> QED
  BY <1>1, <1>2, <1>3, <1>4, <1>5 DEF Next

LEMMA Invariance == Spec => []ApiInv
BY InitHolds, StepKeeps, PTL DEF Spec

(* A 2xx of create_automation_request or of a replay is not given before   *)
(* the row is there, the replay is recorded and, with Redis, a message was *)
(* sent, whatever goes down in between.                                    *)
THEOREM AcceptedIsTrue == Spec => []AcceptedIsDone
<1>1. ApiInv => AcceptedIsDone
  BY DEF ApiInv, Served, Truthful, AcceptedIsDone, Answered, Decided
<1> QED
  BY <1>1, Invariance, PTL

(* Whatever DISPATCH_BACKEND and REDIS_URL are, the one refusal that has   *)
(* changed anything is the 409 of a replay under a word the code does not  *)
(* know, or under Redis with a malformed URL, and what it has changed is   *)
(* that one replay, recorded and unpublished.                              *)
THEOREM RefusalsAreAccounted ==
  Spec => [](\A r \in Caller : Answered(r) => Clean(call[r].path, code[r], did[r]))
<1>1. ApiInv => \A r \in Caller : Answered(r) => Clean(call[r].path, code[r], did[r])
  BY DEF ApiInv, Served, Truthful, Answered, Decided
<1> QED
  BY <1>1, Invariance, PTL

(* ADR 008: a call that is refused with a 4xx has changed nothing, when    *)
(* DISPATCH_BACKEND is one of the two words the code knows and, if it is   *)
(* Redis, REDIS_URL is a URL; outages of either dependency included.       *)
THEOREM RefusalsAreClean ==
  ASSUME DispatchIsConfigured
  PROVE  Spec => []RefusedChangesNothing
<1>1. (\A r \in Caller : Answered(r) => Clean(call[r].path, code[r], did[r]))
         => RefusedChangesNothing
  BY DEF Clean, RefusedChangesNothing
<1> QED
  BY <1>1, RefusalsAreAccounted, PTL

(* readiness: 200 only if every dependency answered since the call         *)
(* arrived, 503 only if one did not, however they change between probes.   *)
THEOREM ReadinessIsTrue == Spec => []ReadyIsTrue
<1>1. ApiInv => ReadyIsTrue
  BY DEF ApiInv, Served, Truthful, ReadyIsTrue, Answered, Decided
<1> QED
  BY <1>1, Invariance, PTL

-----------------------------------------------------------------------------
(* The counters.  OfRoute adds the counts of one route, Requests all.      *)
RouteTotals(n, rt) == CHOOSE f : f =
    [s \in SUBSET Code |->
       IF s = {} THEN 0 ELSE n[<<rt, Picked(s)>>] + f[s \ {Picked(s)}]]

RowOf(n, rt) == [k \in Code |-> n[<<rt, k>>]]

LEMMA OfRouteIsTotal ==
  ASSUME NEW n, NEW rt
  PROVE  OfRoute(n, rt) = Total(RowOf(n, rt), Code)
<1>1. OfRoute(n, rt) = RouteTotals(n, rt)[Code]
  BY DEF OfRoute, MapThenSumSet, MapThenFoldSet, RouteTotals, Picked
<1>2. PICK m : m = RowOf(n, rt)
  OBVIOUS
<1>3. ASSUME NEW f
      PROVE  Adds(m, f, Code) <=>
               f = [s \in SUBSET Code |->
                      IF s = {} THEN 0 ELSE n[<<rt, Picked(s)>>] + f[s \ {Picked(s)}]]
  <2>1. \A s \in SUBSET Code : s # {} => m[Picked(s)] = n[<<rt, Picked(s)>>]
    BY <1>2, PickedIsIn DEF RowOf
  <2>2. [s \in SUBSET Code |-> Unfolding(m, f, s)] =
          [s \in SUBSET Code |->
             IF s = {} THEN 0 ELSE n[<<rt, Picked(s)>>] + f[s \ {Picked(s)}]]
    BY <2>1 DEF Unfolding
  <2> QED
    BY <2>2 DEF Adds
<1>4. \E f : Adds(m, f, Code)
  BY TotalsExist, MetricsAssumption
<1>5. Adds(m, RouteTotals(n, rt), Code)
  BY <1>3, <1>4 DEF RouteTotals
<1>6. Adds(m, Totals(m, Code), Code)
  BY TotalsAdd, MetricsAssumption
<1> QED
  BY <1>1, <1>2, <1>5, <1>6, TotalsAgree, MetricsAssumption DEF Total

LEMMA RequestsIsTotal ==
  ASSUME NEW n
  PROVE  Requests(n) = Total(n, DOMAIN n)
BY DEF Requests, MapThenSumSet, MapThenFoldSet, Total, Totals, Adds, Unfolding, Picked

LEMMA SumsAreNatural ==
  ASSUME NEW n \in [Route \X Code -> Nat]
  PROVE  Requests(n) \in Nat /\ \A rt \in Route : OfRoute(n, rt) \in Nat
<1>1. IsFiniteSet(Route \X Code)
  BY FS_Product, MetricsAssumption
<1>2. Requests(n) = Total(n, Route \X Code)
  BY RequestsIsTotal
<1>3. Total(n, Route \X Code) \in Nat
  BY <1>1, TotalType
<1>4. ASSUME NEW rt \in Route PROVE OfRoute(n, rt) \in Nat
  <2>1. \A k \in Code : RowOf(n, rt)[k] \in Nat
    BY DEF RowOf
  <2> QED
    BY <2>1, OfRouteIsTotal, TotalType, MetricsAssumption
<1> QED
  BY <1>2, <1>3, <1>4

LEMMA NothingCounted ==
  Requests(NoCounts) = 0 /\ \A rt \in Route : OfRoute(NoCounts, rt) = 0
<1>1. IsFiniteSet(Route \X Code) /\ \A x \in Route \X Code : NoCounts[x] = 0
  BY FS_Product, MetricsAssumption DEF NoCounts
<1>2. Requests(NoCounts) = Total(NoCounts, Route \X Code)
  BY RequestsIsTotal DEF NoCounts
<1>3. ASSUME NEW rt \in Route PROVE OfRoute(NoCounts, rt) = 0
  <2>1. \A k \in Code : RowOf(NoCounts, rt)[k] = 0
    BY DEF RowOf, NoCounts
  <2> QED
    BY <2>1, OfRouteIsTotal, TotalZero, MetricsAssumption
<1> QED
  BY <1>1, <1>2, <1>3, TotalZero

(* One more request counted is one more of its route and one more in all.  *)
LEMMA OneMoreCounted ==
  ASSUME NEW n \in [Route \X Code -> Nat], NEW m \in [Route \X Code -> Nat],
         NEW x \in Route \X Code,
         m[x] = n[x] + 1, \A y \in Route \X Code : y # x => m[y] = n[y]
  PROVE  /\ Requests(m) = Requests(n) + 1
         /\ OfRoute(m, x[1]) = OfRoute(n, x[1]) + 1
         /\ \A q \in Route \ {x[1]} : OfRoute(m, q) = OfRoute(n, q)
<1> PICK rt \in Route, k \in Code : x = <<rt, k>>
  OBVIOUS
<1>1. IsFiniteSet(Route \X Code) /\ IsFiniteSet(Code)
  BY FS_Product, MetricsAssumption
<1>2. Requests(m) = Total(m, Route \X Code) /\ Requests(n) = Total(n, Route \X Code)
  BY RequestsIsTotal
<1>3. Total(m, Route \X Code) = Total(n, Route \X Code) + 1
  <2>1. PICK S, y, f, g : S = Route \X Code /\ y = x /\ f = n /\ g = m
    OBVIOUS
  <2>2. \A z \in S : f[z] \in Nat
    BY <2>1
  <2>3. g[y] = f[y] + 1 /\ \A z \in S \ {y} : g[z] = f[z]
    BY <2>1
  <2>4. y \in S /\ IsFiniteSet(S)
    BY <1>1, <2>1
  <2>5. Total(g, S) = Total(f, S) + 1
    BY <2>2, <2>3, <2>4, TotalBump
  <2> QED
    BY <2>1, <2>5
<1>4. OfRoute(m, rt) = OfRoute(n, rt) + 1
  <2>1. /\ RowOf(m, rt)[k] = RowOf(n, rt)[k] + 1
        /\ \A j \in Code : RowOf(n, rt)[j] \in Nat
        /\ \A j \in Code \ {k} : RowOf(m, rt)[j] = RowOf(n, rt)[j]
    BY DEF RowOf
  <2>2. PICK f : f = RowOf(n, rt)
    OBVIOUS
  <2>3. PICK g : g = RowOf(m, rt)
    OBVIOUS
  <2>4. /\ g[k] = f[k] + 1
        /\ \A j \in Code : f[j] \in Nat
        /\ \A j \in Code \ {k} : g[j] = f[j]
    BY <2>1, <2>2, <2>3
  <2>5. Total(g, Code) = Total(f, Code) + 1
    BY <1>1, <2>4, TotalBump
  <2> QED
    BY <2>2, <2>3, <2>5, OfRouteIsTotal
<1>5. ASSUME NEW q \in Route \ {rt} PROVE OfRoute(m, q) = OfRoute(n, q)
  <2>1. \A j \in Code : RowOf(n, q)[j] \in Nat /\ RowOf(m, q)[j] = RowOf(n, q)[j]
    BY DEF RowOf
  <2> QED
    BY <1>1, <2>1, OfRouteIsTotal, TotalSame
<1> QED
  BY <1>2, <1>3, <1>4, <1>5

-----------------------------------------------------------------------------
(* The metrics lock.  A call is counted, by BeginObserve, before it is     *)
(* answered, and its sample is missing only while it holds the lock.       *)
Counted == {"sample", "answer", "done"}

Behind(rt) == \E r \in Caller : pc[r] = "sample" /\ RouteOf(call[r].path) = rt

MetricsTypes ==
    /\ counts \in [Route \X Code -> Nat]
    /\ samples \in [Route -> Nat]
    /\ report \in [Caller -> [counts : [Route \X Code -> Nat], samples : [Route -> Nat]]]
    /\ earlier \in [Caller -> Nat]

SamplesFollow ==
    \A rt \in Route :
        samples[rt] = KeepLatest(IF Behind(rt) THEN OfRoute(counts, rt) - 1
                                               ELSE OfRoute(counts, rt))

LockIsHeld == \A r \in Caller : pc[r] \in {"sample", "rendering"} <=> lock = r

CountedCalls == {r \in Caller : pc[r] \in Counted}

Reported(r) ==
    /\ pc[r] = "rendering" => report[r].counts = counts
    /\ pc[r] \in Decided => code[r] \in Code
    /\ pc[r] \in Decided /\ call[r].path = "/metrics/prometheus" /\ code[r] = 200 =>
          /\ Agree(report[r].counts, report[r].samples)
          /\ earlier[r] <= Requests(report[r].counts)
    /\ pc[r] # "new" => earlier[r] <= Requests(counts)

MetricsInv ==
    /\ MetricsTypes /\ SamplesFollow /\ LockIsHeld
    /\ Requests(counts) = Cardinality(CountedCalls)
    /\ \A r \in Caller : Reported(r)

(* A step of r that neither takes nor leaves the lock and counts nothing.  *)
LEMMA QuietKeeps ==
  ASSUME MetricsInv, NEW r \in Caller, UNCHANGED metricsVars,
         earlier' \in [Caller -> Nat],
         \A q \in Caller \ {r} : /\ pc'[q] = pc[q] /\ code'[q] = code[q]
                                 /\ call'[q] = call[q] /\ earlier'[q] = earlier[q],
         pc[r] \notin {"sample", "rendering"}, pc'[r] \notin {"sample", "rendering"},
         pc'[r] \in Counted <=> pc[r] \in Counted,
         Reported(r)'
  PROVE  MetricsInv'
<1>1. counts' = counts /\ samples' = samples /\ lock' = lock /\ report' = report
  BY DEF metricsVars
<1>2. MetricsTypes'
  BY <1>1 DEF MetricsInv, MetricsTypes
<1>3. \A rt \in Route : Behind(rt)' <=> Behind(rt)
  BY DEF Behind
<1>4. SamplesFollow'
  BY <1>1, <1>3 DEF MetricsInv, SamplesFollow
<1>5. LockIsHeld'
  BY <1>1 DEF MetricsInv, LockIsHeld
<1>6. CountedCalls' = CountedCalls
  BY DEF CountedCalls
<1>7. Requests(counts') = Cardinality(CountedCalls')
  BY <1>1, <1>6 DEF MetricsInv
<1>8. ASSUME NEW q \in Caller \ {r} PROVE Reported(q)'
  BY <1>1 DEF MetricsInv, Reported
<1> QED
  BY <1>2, <1>4, <1>5, <1>7, <1>8 DEF MetricsInv

LEMMA NothingMoves ==
  ASSUME MetricsInv, UNCHANGED <<metricsVars, pc, code, call, earlier>>
  PROVE  MetricsInv'
<1>1. counts' = counts /\ samples' = samples /\ lock' = lock /\ report' = report
  BY DEF metricsVars
<1>2. MetricsTypes' /\ LockIsHeld' /\ CountedCalls' = CountedCalls
  BY <1>1 DEF MetricsInv, MetricsTypes, LockIsHeld, CountedCalls
<1>3. \A rt \in Route : Behind(rt)' <=> Behind(rt)
  BY DEF Behind
<1>4. SamplesFollow'
  BY <1>1, <1>3 DEF MetricsInv, SamplesFollow
<1>5. \A q \in Caller : Reported(q)'
  BY <1>1 DEF MetricsInv, Reported
<1> QED
  BY <1>1, <1>2, <1>4, <1>5 DEF MetricsInv

(* What the handlers but those of the lock do to a call: it goes on, or    *)
(* gets its code, which for a report is 200 in EndRender only.             *)
LEMMA HandlersAreQuiet ==
  ASSUME ApiInv, NEW r \in Caller,
         \/ Authorise(r) \/ Health(r) \/ ProbeDatabase(r) \/ ProbeRedis(r)
         \/ Invalid(r) \/ DatabaseError(r) \/ Create(r) \/ Replay(r) \/ Publish(r)
         \/ Reread(r) \/ Get(r) \/ Snapshot(r) \/ Enrich(r)
  PROVE  /\ KeepWorld /\ pc[r] \in {"authorise", "handle", "redis", "publish", "reread"}
         /\ \/ \E label \in {"handle", "redis", "publish", "reread", "render"} : GoTo(r, label)
            \/ \E k \in Codes : /\ Return(r, k) \/ (Raise(r) /\ k = 500)
                                /\ call[r].path = "/metrics/prometheus" => k # 200
<1>1. CASE Authorise(r)
  BY <1>1 DEF Authorise, ReadOnly, Codes
<1>2. CASE Health(r)
  BY <1>2 DEF Health, At, ReadOnly, Codes
<1>3. CASE ProbeDatabase(r)
  BY <1>3 DEF ProbeDatabase, At, Conclude, Codes
<1>4. CASE ProbeRedis(r)
  BY <1>4 DEF ProbeRedis, Conclude, Codes, ApiInv, Served, Progress
<1>5. CASE Invalid(r)
  BY <1>5 DEF Invalid, At, ReadOnly, Codes
<1>6. CASE DatabaseError(r)
  BY <1>6 DEF DatabaseError, At, ReadOnly, Codes
<1>7. CASE Create(r)
  BY <1>7 DEF Create, At, ReadOnly, Write
<1>8. CASE Replay(r)
  <2>1. pc[r] = "handle" /\ KeepWorld
    BY <1>8 DEF Replay, At, ReadOnly, Write
  <2>2. GoTo(r, "publish") \/ Return(r, 404) \/ Return(r, 409)
    BY <1>8 DEF Replay
  <2> QED
    BY <2>1, <2>2 DEF Codes
<1>9. CASE Publish(r)
  <2>1. pc[r] = "publish" /\ KeepWorld /\ call[r].path \in {"submit", "replay"}
    BY <1>9 DEF Publish, ApiInv, Served, Progress
  <2>2. Proceed(r) \/ PublishError(r)
    BY <1>9 DEF Publish
  <2>3. GoTo(r, "reread") \/ Return(r, 200) \/ Return(r, 409) \/ Raise(r)
    BY <2>2 DEF Proceed, PublishError
  <2> QED
    BY <2>1, <2>3 DEF Codes
<1>10. CASE Reread(r)
  BY <1>10 DEF Reread, ReadOnly, Codes
<1>11. CASE Get(r)
  BY <1>11 DEF Get, At, ReadOnly, Codes
<1>12. CASE Snapshot(r)
  BY <1>12 DEF Snapshot, At, ReadOnly, Codes
<1>13. CASE Enrich(r)
  BY <1>13 DEF Enrich, At, ReadOnly, Codes
<1> QED
  BY <1>1, <1>2, <1>3, <1>4, <1>5, <1>6, <1>7, <1>8, <1>9, <1>10, <1>11, <1>12, <1>13

LEMMA HandlersKeepMetrics ==
  ASSUME ApiInv, MetricsInv, NEW r \in Caller, KeepWorld,
         pc[r] \in {"authorise", "handle", "redis", "publish", "reread"},
         \/ \E label \in {"handle", "redis", "publish", "reread", "render"} : GoTo(r, label)
         \/ \E k \in Codes : /\ Return(r, k) \/ (Raise(r) /\ k = 500)
                             /\ call[r].path = "/metrics/prometheus" => k # 200
  PROVE  MetricsInv'
<1>1. /\ UNCHANGED metricsVars /\ call' = call /\ earlier' = earlier
      /\ earlier \in [Caller -> Nat] /\ earlier[r] <= Requests(counts)
      /\ counts' = counts
  BY DEF KeepWorld, metricsVars, MetricsInv, MetricsTypes, Reported
<1>2. pc \in [Caller -> Label] /\ code \in [Caller -> Nat]
  BY DEF ApiInv, Types
<1>3. CASE \E label \in {"handle", "redis", "publish", "reread", "render"} : GoTo(r, label)
  <2>1. /\ pc'[r] \in {"handle", "redis", "publish", "reread", "render"}
        /\ \A q \in Caller \ {r} : pc'[q] = pc[q]
        /\ code' = code
    BY <1>2, <1>3 DEF GoTo
  <2>2. Reported(r)'
    BY <1>1, <2>1 DEF Reported, Decided
  <2> QED
    BY <1>1, <2>1, <2>2, QuietKeeps DEF Counted
<1>4. ASSUME NEW k \in Codes, Return(r, k) \/ (Raise(r) /\ k = 500),
             call[r].path = "/metrics/prometheus" => k # 200
      PROVE  MetricsInv'
  <2>1. /\ pc'[r] = "count" /\ code'[r] = k
        /\ \A q \in Caller \ {r} : pc'[q] = pc[q] /\ code'[q] = code[q]
    BY <1>2, <1>4 DEF Return, Raise
  <2>2. k \in Code
    BY HttpAssumption
  <2>3. Reported(r)'
    BY <1>1, <1>4, <2>1, <2>2 DEF Reported
  <2> QED
    BY <1>1, <2>1, <2>3, QuietKeeps DEF Counted
<1> QED
  BY <1>3, <1>4

LEMMA AnswerKeepsMetrics ==
  ASSUME ApiInv, MetricsInv, NEW r \in Caller, Answer(r)
  PROVE  MetricsInv'
<1>1. /\ UNCHANGED metricsVars /\ call' = call /\ earlier' = earlier /\ code' = code
      /\ pc[r] = "answer" /\ pc'[r] = "done"
      /\ \A q \in Caller \ {r} : pc'[q] = pc[q]
      /\ counts' = counts /\ report' = report
  BY DEF Answer, GoTo, ReadOnly, KeepWorld, metricsVars, ApiInv, Types
<1>2. Reported(r)'
  BY <1>1 DEF MetricsInv, Reported, Decided
<1>3. earlier' \in [Caller -> Nat]
  BY <1>1 DEF MetricsInv, MetricsTypes
<1> QED
  BY <1>1, <1>2, <1>3, QuietKeeps DEF Counted

(* Who has its answer has been counted, so a call that arrives finds as    *)
(* many counted at least.                                                  *)
LEMMA ArriveKeepsMetrics ==
  ASSUME ApiInv, MetricsInv, NEW r \in Caller, Arrive(r)
  PROVE  MetricsInv'
<1>1. PICK D : D = {q \in Caller : pc[q] = "done"}
  OBVIOUS
<1>2. /\ UNCHANGED metricsVars /\ code' = code /\ counts' = counts
      /\ pc[r] = "new" /\ pc'[r] = "authorise"
      /\ \A q \in Caller \ {r} : pc'[q] = pc[q]
  BY DEF Arrive, GoTo, metricsVars, ApiInv, Types
<1>3. \A q \in Caller \ {r} : call'[q] = call[q]
  BY DEF Arrive, ApiInv, Types
<1>4. Cardinality(D) \in Nat /\ Cardinality(D) <= Requests(counts)
  <2>1. IsFiniteSet(CountedCalls) /\ D \subseteq CountedCalls
    BY <1>1, FS_Subset, MetricsAssumption DEF CountedCalls, Counted
  <2>2. /\ IsFiniteSet(D) /\ Cardinality(D) <= Cardinality(CountedCalls)
    BY <2>1, FS_Subset
  <2> QED
    BY <2>2, FS_CardinalityType DEF MetricsInv
<1>5. /\ earlier'[r] = Cardinality(D)
      /\ \A q \in Caller \ {r} : earlier'[q] = earlier[q]
      /\ earlier' \in [Caller -> Nat]
  BY <1>1, <1>4 DEF Arrive, MetricsInv, MetricsTypes
<1>6. Reported(r)'
  BY <1>2, <1>4, <1>5 DEF Reported, Decided
<1> QED
  BY <1>2, <1>3, <1>5, <1>6, QuietKeeps DEF Counted

(* observe_request: the count, under the lock, and then the sample.        *)
LEMMA BeginObserveKeepsMetrics ==
  ASSUME ApiInv, MetricsInv, NEW r \in Caller, BeginObserve(r)
  PROVE  MetricsInv'
<1>1. /\ pc[r] = "count" /\ pc'[r] = "sample" /\ lock = NoCaller /\ lock' = r
      /\ \A q \in Caller \ {r} : pc'[q] = pc[q]
      /\ UNCHANGED <<call, code, samples, report, earlier>>
  BY DEF BeginObserve, Count, Enter, GoTo, ApiInv, Types
<1>2. PICK rt \in Route, k \in Code : rt = RouteOf(call[r].path) /\ k = code[r]
  <2>1. call[r] \in Call /\ code[r] \in Code
    BY <1>1 DEF ApiInv, Served, Progress, MetricsInv, Reported, Decided
  <2>2. RouteOf(call[r].path) \in Route
    BY <2>1, HttpAssumption DEF Call
  <2> QED
    BY <2>1, <2>2
<1>3. counts' = [counts EXCEPT ![<<rt, k>>] = @ + 1]
  BY <1>2 DEF BeginObserve, Count
<1>4. counts \in [Route \X Code -> Nat]
  BY DEF MetricsInv, MetricsTypes
<1>5. /\ counts' \in [Route \X Code -> Nat]
      /\ Requests(counts') = Requests(counts) + 1
      /\ OfRoute(counts', rt) = OfRoute(counts, rt) + 1
      /\ \A q \in Route \ {rt} : OfRoute(counts', q) = OfRoute(counts, q)
  <2>1. PICK n, m : n = counts /\ m = counts'
    OBVIOUS
  <2>2. PICK x \in Route \X Code : x = <<rt, k>>
    OBVIOUS
  <2>3. /\ n \in [Route \X Code -> Nat] /\ m \in [Route \X Code -> Nat]
        /\ m[x] = n[x] + 1 /\ \A y \in Route \X Code : y # x => m[y] = n[y]
    BY <1>3, <1>4, <2>1, <2>2
  <2>4. /\ Requests(m) = Requests(n) + 1
        /\ OfRoute(m, x[1]) = OfRoute(n, x[1]) + 1
        /\ \A q \in Route \ {x[1]} : OfRoute(m, q) = OfRoute(n, q)
    BY <2>3, OneMoreCounted, Zenon
  <2>5. x[1] = rt
    BY <2>2
  <2>6. /\ m \in [Route \X Code -> Nat]
        /\ Requests(m) = Requests(n) + 1 /\ OfRoute(m, rt) = OfRoute(n, rt) + 1
        /\ \A q \in Route \ {rt} : OfRoute(m, q) = OfRoute(n, q)
    BY <2>3, <2>4, <2>5, Zenon
  <2> QED
    BY <2>1, <2>6, Zenon
<1>6. Requests(counts) \in Nat /\ \A q \in Route : OfRoute(counts, q) \in Nat
  BY <1>4, SumsAreNatural
<1>7. \A q \in Caller : pc[q] \notin {"sample", "rendering"}
  BY <1>1, MetricsAssumption DEF MetricsInv, LockIsHeld
<1>8. MetricsTypes'
  BY <1>1, <1>5 DEF MetricsInv, MetricsTypes
<1>9. SamplesFollow'
  <2>1. \A q \in Route : ~Behind(q)
    BY <1>7 DEF Behind
  <2>2. \A q \in Route : Behind(q)' <=> q = rt
    BY <1>1, <1>2, <1>7 DEF Behind
  <2>3. \A q \in Route : samples'[q] = KeepLatest(OfRoute(counts, q))
    BY <1>1, <2>1 DEF MetricsInv, SamplesFollow
  <2>4. OfRoute(counts', rt) - 1 = OfRoute(counts, rt)
    BY <1>5, <1>6
  <2> QED
    BY <1>5, <2>2, <2>3, <2>4 DEF SamplesFollow
<1>10. LockIsHeld'
  BY <1>1, <1>7 DEF LockIsHeld
<1>11. Requests(counts') = Cardinality(CountedCalls')
  <2>1. PICK C, D : C = CountedCalls /\ D = C \cup {r}
    OBVIOUS
  <2>2. CountedCalls' = D /\ r \notin C
    BY <1>1, <2>1 DEF CountedCalls, Counted
  <2>3. IsFiniteSet(C)
    BY <2>1, FS_Subset, MetricsAssumption DEF CountedCalls
  <2>4. Cardinality(D) = Cardinality(C) + 1
    BY <2>1, <2>2, <2>3, FS_AddElement
  <2> QED
    BY <1>5, <2>1, <2>2, <2>4 DEF MetricsInv
<1>12. ASSUME NEW q \in Caller PROVE Reported(q)'
  <2>1. pc'[q] # "rendering"
    BY <1>1, <1>7
  <2>2. /\ Reported(q) /\ earlier[q] \in Nat
        /\ pc'[q] \in Decided => pc[q] \in Decided
        /\ pc'[q] # "new" => pc[q] # "new"
    BY <1>1 DEF MetricsInv, MetricsTypes, Decided
  <2>3. pc'[q] # "new" => earlier'[q] <= Requests(counts')
    BY <1>1, <1>5, <1>6, <2>2 DEF Reported
  <2> QED
    BY <1>1, <2>1, <2>2, <2>3 DEF Reported
<1> QED
  BY <1>8, <1>9, <1>10, <1>11, <1>12 DEF MetricsInv

LEMMA EndObserveKeepsMetrics ==
  ASSUME ApiInv, MetricsInv, NEW r \in Caller, EndObserve(r)
  PROVE  MetricsInv'
<1>1. /\ pc[r] = "sample" /\ pc'[r] = "answer" /\ lock = r /\ lock' = NoCaller
      /\ \A q \in Caller \ {r} : pc'[q] = pc[q]
      /\ UNCHANGED <<call, code, counts, report, earlier>>
  BY DEF EndObserve, Sample, Leave, GoTo, ApiInv, Types
<1>2. PICK rt \in Route : rt = RouteOf(call[r].path)
  <2>1. call[r] \in Call
    BY <1>1 DEF ApiInv, Served, Progress
  <2>2. RouteOf(call[r].path) \in Route
    BY <2>1, HttpAssumption DEF Call
  <2> QED
    BY <2>2
<1>3. /\ samples \in [Route -> Nat] /\ counts \in [Route \X Code -> Nat]
      /\ samples' = [samples EXCEPT ![rt] = KeepLatest(@ + 1)]
  BY <1>2 DEF EndObserve, Sample, MetricsInv, MetricsTypes
<1>4. \A q \in Caller \ {r} : pc[q] \notin {"sample", "rendering"}
  BY <1>1 DEF MetricsInv, LockIsHeld
<1>5. \A n \in Nat : KeepLatest(n) \in Nat
  BY MetricsAssumption DEF KeepLatest
<1>6. MetricsTypes'
  BY <1>1, <1>3, <1>5 DEF MetricsInv, MetricsTypes
<1>7. SamplesFollow'
  <2>1. \A q \in Route : ~Behind(q)'
    BY <1>1, <1>4 DEF Behind
  <2>2. \A q \in Route : Behind(q) <=> q = rt
    BY <1>1, <1>2, <1>4 DEF Behind
  <2>3. samples[rt] = KeepLatest(OfRoute(counts, rt) - 1)
    BY <2>2 DEF MetricsInv, SamplesFollow
  <2>4. \A q \in Route \ {rt} : samples'[q] = KeepLatest(OfRoute(counts, q))
    BY <1>3, <2>2 DEF MetricsInv, SamplesFollow
  <2>5. samples'[rt] = KeepLatest(OfRoute(counts, rt))
    <3>1. PICK n : n = OfRoute(counts, rt) /\ n \in Nat
      BY <1>3, SumsAreNatural
    <3>2. samples'[rt] = KeepLatest(KeepLatest(n - 1) + 1)
      BY <1>3, <2>3, <3>1
    <3>3. KeepLatest(KeepLatest(n - 1) + 1) = KeepLatest(n)
      BY <3>1, MetricsAssumption DEF KeepLatest
    <3> QED
      BY <3>1, <3>2, <3>3
  <2> QED
    BY <1>1, <2>1, <2>4, <2>5 DEF SamplesFollow
<1>8. LockIsHeld'
  BY <1>1, <1>4, MetricsAssumption DEF LockIsHeld
<1>9. CountedCalls' = CountedCalls
  BY <1>1 DEF CountedCalls, Counted
<1>10. ASSUME NEW q \in Caller PROVE Reported(q)'
  <2>1. Reported(q) /\ pc'[q] # "rendering"
    BY <1>1, <1>4 DEF MetricsInv
  <2>2. /\ pc'[q] \in Decided => pc[q] \in Decided
        /\ pc'[q] # "new" => pc[q] # "new"
    BY <1>1 DEF Decided
  <2> QED
    BY <1>1, <2>1, <2>2 DEF Reported
<1> QED
  BY <1>1, <1>6, <1>7, <1>8, <1>9, <1>10 DEF MetricsInv

(* render_http_metrics: the counts, under the lock, and then the samples.  *)
LEMMA BeginRenderKeepsMetrics ==
  ASSUME ApiInv, MetricsInv, NEW r \in Caller, BeginRender(r)
  PROVE  MetricsInv'
<1>1. /\ pc[r] = "render" /\ pc'[r] = "rendering" /\ lock = NoCaller /\ lock' = r
      /\ \A q \in Caller \ {r} : pc'[q] = pc[q]
      /\ report' = [report EXCEPT ![r].counts = counts]
      /\ UNCHANGED <<call, code, samples, counts, earlier>>
  BY DEF BeginRender, RenderCounts, Enter, GoTo, ApiInv, Types
<1>2. MetricsTypes'
  BY <1>1 DEF MetricsInv, MetricsTypes
<1>3. \A q \in Caller : pc[q] \notin {"sample", "rendering"}
  BY <1>1, MetricsAssumption DEF MetricsInv, LockIsHeld
<1>4. \A rt \in Route : Behind(rt)' <=> Behind(rt)
  BY <1>1 DEF Behind
<1>5. SamplesFollow'
  BY <1>1, <1>4 DEF MetricsInv, SamplesFollow
<1>6. LockIsHeld' /\ CountedCalls' = CountedCalls
  BY <1>1, <1>3 DEF LockIsHeld, CountedCalls, Counted
<1>7. Reported(r)'
  <2>1. report'[r].counts = counts
    BY <1>1 DEF MetricsInv, MetricsTypes
  <2> QED
    BY <1>1, <2>1 DEF MetricsInv, Reported, Decided
<1>8. ASSUME NEW q \in Caller \ {r} PROVE Reported(q)'
  <2>1. report'[q] = report[q]
    BY <1>1 DEF MetricsInv, MetricsTypes
  <2> QED
    BY <1>1, <2>1 DEF MetricsInv, Reported
<1> QED
  BY <1>1, <1>2, <1>5, <1>6, <1>7, <1>8 DEF MetricsInv

LEMMA EndRenderKeepsMetrics ==
  ASSUME ApiInv, MetricsInv, NEW r \in Caller, EndRender(r)
  PROVE  MetricsInv'
<1>1. /\ pc[r] = "rendering" /\ pc'[r] = "count" /\ lock = r /\ lock' = NoCaller
      /\ code'[r] = 200
      /\ \A q \in Caller \ {r} : pc'[q] = pc[q] /\ code'[q] = code[q]
      /\ report' = [report EXCEPT ![r].samples = samples]
      /\ UNCHANGED <<call, samples, counts, earlier>>
  BY DEF EndRender, RenderSamples, Leave, Return, ApiInv, Types
<1>2. MetricsTypes'
  <2>1. /\ counts \in [Route \X Code -> Nat] /\ samples \in [Route -> Nat]
        /\ report[r] \in [counts : [Route \X Code -> Nat], samples : [Route -> Nat]]
    BY DEF MetricsInv, MetricsTypes
  <2>2. PICK v \in [counts : [Route \X Code -> Nat], samples : [Route -> Nat]] :
          v = [report[r] EXCEPT !.samples = samples]
    BY <2>1
  <2>3. report' = [report EXCEPT ![r] = v]
    BY <1>1, <2>2
  <2>4. counts' = counts /\ samples' = samples /\ earlier' = earlier
    BY <1>1
  <2> QED
    BY <2>3, <2>4 DEF MetricsInv, MetricsTypes
<1>3. \A q \in Caller \ {r} : pc[q] \notin {"sample", "rendering"}
  BY <1>1 DEF MetricsInv, LockIsHeld
<1>4. \A rt \in Route : ~Behind(rt) /\ ~Behind(rt)'
  BY <1>1, <1>3 DEF Behind
<1>5. /\ SamplesFollow'
      /\ \A rt \in Route : samples[rt] = KeepLatest(OfRoute(counts, rt))
  BY <1>1, <1>4 DEF MetricsInv, SamplesFollow
<1>6. LockIsHeld' /\ CountedCalls' = CountedCalls
  BY <1>1, <1>3, MetricsAssumption DEF LockIsHeld, CountedCalls, Counted
<1>7. Reported(r)'
  <2>1. report'[r].counts = counts /\ report'[r].samples = samples
    BY <1>1 DEF MetricsInv, MetricsTypes, Reported
  <2>2. Agree(counts, samples)
    BY <1>5 DEF Agree, KeepLatest
  <2>3. 200 \in Code
    BY HttpAssumption DEF Codes
  <2>4. earlier[r] <= Requests(counts)
    BY <1>1 DEF MetricsInv, Reported
  <2>5. Agree(report'[r].counts, report'[r].samples)
    BY <2>1, <2>2
  <2> QED
    BY <1>1, <2>1, <2>3, <2>4, <2>5 DEF Reported
<1>8. ASSUME NEW q \in Caller \ {r} PROVE Reported(q)'
  <2>1. report'[q] = report[q]
    BY <1>1 DEF MetricsInv, MetricsTypes
  <2> QED
    BY <1>1, <2>1 DEF MetricsInv, Reported
<1> QED
  BY <1>1, <1>2, <1>5, <1>6, <1>7, <1>8 DEF MetricsInv

LEMMA MetricsInitHolds == Init => MetricsInv
<1> SUFFICES ASSUME Init PROVE MetricsInv
  OBVIOUS
<1>1. /\ counts = NoCounts /\ samples = NoSamples /\ lock = NoCaller
      /\ report = [c \in Caller |-> NoReport] /\ earlier = [c \in Caller |-> 0]
      /\ \A r \in Caller : pc[r] = "new"
  BY DEF Init, MetricsInit
<1>2. MetricsTypes
  BY <1>1 DEF MetricsTypes, NoCounts, NoSamples, NoReport
<1>3. Requests(counts) = 0 /\ \A rt \in Route : OfRoute(counts, rt) = 0
  BY <1>1, NothingCounted
<1>4. SamplesFollow
  <2>1. \A rt \in Route : ~Behind(rt) /\ samples[rt] = 0
    BY <1>1 DEF Behind, NoSamples
  <2>2. KeepLatest(0) = 0
    BY MetricsAssumption DEF KeepLatest
  <2> QED
    BY <1>3, <2>1, <2>2 DEF SamplesFollow
<1>5. LockIsHeld
  BY <1>1, MetricsAssumption DEF LockIsHeld
<1>6. CountedCalls = {}
  BY <1>1 DEF CountedCalls, Counted
<1>7. Requests(counts) = Cardinality(CountedCalls)
  BY <1>3, <1>6, FS_EmptySet
<1>8. \A r \in Caller : Reported(r)
  BY <1>1 DEF Reported, Decided
<1> QED
  BY <1>2, <1>4, <1>5, <1>7, <1>8 DEF MetricsInv

LEMMA MetricsStepKeeps == ApiInv /\ MetricsInv /\ [Next]_vars => MetricsInv'
<1> SUFFICES ASSUME ApiInv, MetricsInv, [Next]_vars PROVE MetricsInv'
  OBVIOUS
<1>1. CASE UNCHANGED vars
  BY <1>1, NothingMoves DEF vars, apiVars
<1>2. CASE \E r \in Caller : Arrive(r)
  BY <1>2, ArriveKeepsMetrics
<1>3. ASSUME NEW r \in Caller, Handle(r) PROVE MetricsInv'
  <2>1. CASE BeginRender(r)
    BY <2>1, BeginRenderKeepsMetrics
  <2>2. CASE EndRender(r)
    BY <2>2, EndRenderKeepsMetrics
  <2>3. CASE BeginObserve(r)
    BY <2>3, BeginObserveKeepsMetrics
  <2>4. CASE EndObserve(r)
    BY <2>4, EndObserveKeepsMetrics
  <2>5. CASE Answer(r)
    BY <2>5, AnswerKeepsMetrics
  <2>6. CASE ~(BeginRender(r) \/ EndRender(r) \/ BeginObserve(r) \/ EndObserve(r) \/ Answer(r))
    <3>1. \/ Authorise(r) \/ Health(r) \/ ProbeDatabase(r) \/ ProbeRedis(r)
          \/ Invalid(r) \/ DatabaseError(r) \/ Create(r) \/ Replay(r) \/ Publish(r)
          \/ Reread(r) \/ Get(r) \/ Snapshot(r) \/ Enrich(r)
      BY <1>3, <2>6 DEF Handle
    <3> QED
      BY <3>1, HandlersAreQuiet, HandlersKeepMetrics
  <2> QED
    BY <2>1, <2>2, <2>3, <2>4, <2>5, <2>6
<1>4. CASE \E d \in Reachable : Toggle(d)
  BY <1>4, NothingMoves DEF Toggle
<1>5. CASE \E x \in Row : Settle(x)
  BY <1>5, NothingMoves DEF Settle
<1> QED
  BY <1>1, <1>2, <1>3, <1>4, <1>5 DEF Next

LEMMA MetricsInvariance == Spec => []MetricsInv
BY Invariance, MetricsInitHolds, MetricsStepKeeps, PTL DEF Spec

(* render_http_metrics takes the counts and the samples under one hold of  *)
(* _metrics_lock, so a report never shows half of an observe_request, for  *)
(* any number of callers, routes and codes and any cap on the samples.     *)
THEOREM ReportsAreWhole == Spec => []ReportsAgree
<1>1. MetricsInv => ReportsAgree
  BY DEF MetricsInv, Reported, ReportsAgree, Answered, Decided
<1> QED
  BY <1>1, MetricsInvariance, PTL

(* The finally clause counts a request before it is answered: who has an   *)
(* answer, a 500 included, is in every report asked for afterwards.        *)
THEOREM AnswersAreCounted == Spec => []AnsweredIsCounted
<1>1. MetricsInv => AnsweredIsCounted
  <2>1. MetricsInv => \A r \in Caller : /\ Requests(report[r].counts) \in Nat
                                        /\ earlier[r] \in Nat
    BY SumsAreNatural DEF MetricsInv, MetricsTypes
  <2> QED
    BY <2>1 DEF MetricsInv, Reported, AnsweredIsCounted, Answered, Decided
<1> QED
  BY <1>1, MetricsInvariance, PTL

=============================================================================

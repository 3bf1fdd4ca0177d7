----------------------------- MODULE AuditReads -----------------------------
(***************************************************************************)
(* The reports of app/repository.py while the orchestrator works:          *)
(* get_details reads the row and its events in two transactions, metrics   *)
(* runs three statements under read committed, each with a snapshot of its *)
(* own.  One reader asks for one report after the other; between its       *)
(* statements every other process may go on.                               *)
(***************************************************************************)
EXTENDS Orchestrator, Functions

CONSTANTS
  MaxReports  \* bound on the reports asked for

ASSUME ReadsAssumption == MaxReports \in Nat

VARIABLES
  subject,   \* the request asked for, NoRequest for metrics
  todo,      \* the statements still to run
  answer,    \* what they have returned
  reports

readerVars == <<subject, todo, answer, reports>>

NoAnswer ==
  [status |-> "absent", attempt_count |-> 0, events |-> <<>>,
   total_requests |-> 0, by_status |-> [s \in AutomationStatus |-> 0], oldest |-> 0]

ReadsTypeOK ==
  /\ subject \in Requests \cup {NoRequest}
  /\ todo \in Seq({"row", "events", "total_requests", "by_status", "oldest"})
  /\ answer.status \in AutomationStatus \cup {"absent"}
  /\ answer.attempt_count \in Nat
  /\ answer.events \in Seq(AutomationEvent)
  /\ subject \in Requests /\ answer.status = "absent" => answer.events = <<>>
  /\ answer.total_requests \in 0..Cardinality(Requests)
  /\ answer.by_status \in [AutomationStatus -> 0..Cardinality(Requests)]
  /\ answer.oldest \in 0..Cardinality(Requests)
  /\ reports \in 0..MaxReports

ReadsInit ==
  /\ Init
  /\ subject = NoRequest /\ todo = <<>> /\ answer = NoAnswer /\ reports = 0

-----------------------------------------------------------------------------
(* Mutant: the events are read before the row.                             *)
GetDetailsReversed == <<"events", "row">>

GetDetails == <<"row", "events">>

(* Mutant: the total is counted last.                                      *)
MetricsReversed == <<"by_status", "oldest", "total_requests">>

Metrics == <<"total_requests", "by_status", "oldest">>

Ask(r, statements) ==
  /\ todo = <<>>
  /\ reports < MaxReports
  /\ reports' = reports + 1
  /\ subject' = r /\ todo' = statements /\ answer' = NoAnswer

WithStatus(s) == {r \in Requests : status[r] = s}

Stored == {r \in Requests : Persisted(r)}

Waiting == WithStatus("queued") \cup WithStatus("retrying")

(* created_at of the oldest waiting request, 0 for none.                   *)
OldestWaiting ==
  IF Waiting = {} THEN 0
  ELSE CHOOSE t \in {created_at[r] : r \in Waiting} :
         \A r \in Waiting : t <= created_at[r]

(* What one statement returns, in a snapshot of its own.                   *)
Returned ==
  CASE Head(todo) = "row" ->
         [answer EXCEPT !.status = status[subject],
                        !.attempt_count = attempt_count[subject]]
    [] Head(todo) = "events" -> [answer EXCEPT !.events = events[subject]]
    [] Head(todo) = "total_requests" ->
         [answer EXCEPT !.total_requests = Cardinality(Stored)]
    [] Head(todo) = "by_status" ->
         [answer EXCEPT !.by_status =
            [s \in AutomationStatus |-> Cardinality(WithStatus(s))]]
    [] Head(todo) = "oldest" -> [answer EXCEPT !.oldest = OldestWaiting]

(* A row that is not there is answered 404 without a second statement.     *)
RunStatement ==
  /\ todo # <<>>
  /\ answer' = Returned
  /\ todo' = IF Head(todo) = "row" /\ status[subject] = "absent"
               THEN <<>> ELSE Tail(todo)
  /\ UNCHANGED <<subject, reports>>

Read ==
  /\ (\E r \in Requests : Ask(r, GetDetails)) \/ Ask(NoRequest, Metrics) \/ RunStatement
  /\ UNCHANGED vars

ReadsNext == (Next /\ UNCHANGED readerVars) \/ Read

ReadsSpec == ReadsInit /\ [][ReadsNext]_<<vars, readerVars>>

-----------------------------------------------------------------------------
Answered(r) == todo = <<>> /\ subject = r /\ reports > 0

(* A report about one request is never ahead of its own trail: the status  *)
(* and the attempt it shows are those of one of the events it lists, the   *)
(* last one unless the request has moved on in between, although row and   *)
(* events come from two transactions.                                      *)
DetailsCohere ==
  \A r \in Requests :
    Answered(r) /\ answer.status # "absent" =>
      \E i \in DOMAIN answer.events :
        /\ answer.events[i].status = answer.status
        /\ answer.status # "completed" =>
             answer.events[i].attempt = answer.attempt_count
        /\ answer.status \in {"completed", "dead_letter"}
             /\ i # Len(answer.events) => answer.events[i + 1].status = "queued"

(* The gauges never report more requests than the statuses account for:    *)
(* what is submitted between the statements can only add to by_status.     *)
MetricsCohere ==
  Answered(NoRequest) =>
    answer.total_requests <= FoldFunction(+, 0, answer.by_status)

=============================================================================

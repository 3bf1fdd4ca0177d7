----------------------------- MODULE Enrichment -----------------------------
(***************************************************************************)
(* LlmDocumentEnricher.enrich, which turns whatever a language model        *)
(* answers into a typed result or an EnrichmentError, and the two callers   *)
(* it has: the API, and scripts/evaluate_enrichment.py, which runs it over  *)
(* a list of cases and adds up what it got.                                 *)
(*                                                                          *)
(* An answer is what the code tells apart: the first layer that is broken   *)
(* (shape) or, for a JSON object, its three keys.  A type may be "blank", of *)
(* no characters, or "absent"; confidence is counted in hundredths.  The    *)
(* language model is external, and so are pydantic's checks and the         *)
(* exceptions of json and httpx.                                            *)
(***************************************************************************)
EXTENDS Integers, FiniteSets, Sequences

CONSTANTS Case,          \* the cases in order
          Field,         \* names a field that holds something may have
          DocumentType,  \* types a model may name
          Confidence,    \* numbers a model may give, in hundredths
          Threshold,     \* review_threshold of calls to the API
          Configured     \* LLM_BASE_URL and LLM_MODEL are set

DefaultThreshold == 80

ASSUME EnrichmentAssumption ==
    /\ IsFiniteSet(Field)
    /\ Case \in Seq([expected : DocumentType, required : SUBSET Field])
    /\ "blank" \notin DocumentType /\ "absent" \notin DocumentType
    /\ Confidence \subseteq Int /\ Threshold \subseteq 0 .. 100
    /\ Configured \in BOOLEAN

VARIABLES
    answer,  \* what the model answered last
    call,    \* threshold and outcome of the last enrich
    at,      \* cases the evaluation has gone through
    tally,   \* its counters
    state    \* "evaluating", "summary" or "aborted"

enrichmentVars == <<answer, call, at, tally, state>>

Shape == {"unreachable", "error_status", "not_json", "no_choices", "empty_choices",
          "no_content", "prose", "not_an_object", "object"}
Broken == [shape : Shape \ {"object"}, type : {"blank"}, form : {"absent"},
           confidence : {0}, fields : {{}}]
Object == [shape : {"object"}, type : DocumentType \cup {"blank", "absent"},
           form : {"absent", "a_word", "beyond_float"}, confidence : {0}, fields : {{}}]
          \cup [shape : {"object"}, type : DocumentType \cup {"blank", "absent"},
                form : {"number"}, confidence : Confidence, fields : SUBSET Field]
ModelAnswer == Broken \cup Object

-----------------------------------------------------------------------------
(* enrich *)

\* The exceptions that end it before or while the result is built: body["choices"]
\* KeyError, [0] IndexError, json.loads of null TypeError, and so on.
Exception(a) ==
    CASE a.shape \in {"unreachable", "error_status"} -> "HTTPError"
      [] a.shape \in {"not_json", "prose"} -> "JSONDecodeError"
      [] a.shape = "no_choices" -> "KeyError"
      [] a.shape = "empty_choices" -> "IndexError"
      [] a.shape \in {"no_content", "not_an_object"} -> "TypeError"
      [] a.form = "absent" -> "KeyError"
      [] a.form = "a_word" -> "ValueError"
      [] a.form = "beyond_float" -> "OverflowError"
      [] a.type = "absent" -> "KeyError"
      [] OTHER -> "none"

Converted == {"HTTPError", "KeyError", "TypeError", "ValueError", "JSONDecodeError"}

\* Mutant: no bounds on the confidence.
ValidType(a) == a.type # "blank"

\* DocumentEnrichmentResult's constraints.
Valid(a) == a.type # "blank" /\ a.confidence \in 0 .. 100

Rejected == [kind |-> "EnrichmentError"]
Raised(e) == [kind |-> e]

Result(a, threshold) ==
    [kind |-> "result", type |-> a.type, fields |-> a.fields, confidence |-> a.confidence,
     review |-> a.confidence < threshold]

Enriched(a, threshold) ==
    IF ~Configured \/ Exception(a) \in Converted THEN Rejected
    ELSE IF Exception(a) # "none" THEN Raised(Exception(a))
    ELSE IF Valid(a) THEN Result(a, threshold) ELSE Rejected

-----------------------------------------------------------------------------
NoTally == [completed |-> 0, failures |-> 0, types |-> 0, checks |-> 0, found |-> 0, reviews |-> 0]

EnrichmentInit ==
    /\ answer \in {a \in Broken : a.shape = "unreachable"}
    /\ call = [threshold |-> DefaultThreshold, outcome |-> Rejected]
    /\ at = 0
    /\ tally = NoTally
    /\ state = "evaluating"

Enrich(threshold) ==
    /\ answer' \in ModelAnswer
    /\ call' = [threshold |-> threshold, outcome |-> Enriched(answer', threshold)]

\* POST /enrichment/documents.
Ask ==
    /\ \E threshold \in Threshold : Enrich(threshold)
    /\ UNCHANGED <<at, tally, state>>

\* A case that leads to a result.
Count(t, c, r) ==
    [completed |-> t.completed + 1, failures |-> t.failures,
     types     |-> t.types + (IF r.type = c.expected THEN 1 ELSE 0),
     checks    |-> t.checks + Cardinality(c.required),
     found     |-> t.found + Cardinality(c.required \cap r.fields),
     reviews   |-> t.reviews + (IF r.review THEN 1 ELSE 0)]

\* Mutant: a failed case goes on to the tallies.
CountFailureAndReview(t) == [t EXCEPT !.failures = @ + 1, !.reviews = @ + 1]

CountFailure(t) == [t EXCEPT !.failures = @ + 1]

Evaluate ==
    /\ state = "evaluating" /\ at < Len(Case)
    /\ Enrich(DefaultThreshold)
    /\ LET o == call'.outcome IN
          CASE o.kind = "result" ->
                  /\ at' = at + 1 /\ UNCHANGED state
                  /\ tally' = Count(tally, Case[at + 1], o)
            [] o.kind = "EnrichmentError" ->
                  /\ at' = at + 1 /\ UNCHANGED state
                  /\ tally' = CountFailure(tally)
            [] OTHER -> state' = "aborted" /\ UNCHANGED <<at, tally>>

Summarise ==
    /\ state = "evaluating" /\ at = Len(Case)
    /\ state' = "summary"
    /\ UNCHANGED <<answer, call, at, tally>>

EnrichmentNext == Ask \/ Evaluate \/ Summarise

EnrichmentSpec == EnrichmentInit /\ [][EnrichmentNext]_enrichmentVars

-----------------------------------------------------------------------------
\* ADR 005: a result exists only if the model is configured and its answer is
\* well formed with a confidence between 0 and 1, and it asks for review exactly
\* when the confidence is below the threshold of the call (enrich).
ResultsAreGuarded ==
    call.outcome.kind = "result" =>
        /\ Configured /\ answer.form = "number"
        /\ call.outcome.type \in DocumentType
        /\ call.outcome.confidence \in 0 .. 100
        /\ call.outcome.review <=> answer.confidence < call.threshold

\* Whatever fails in between, every case is counted once, the three rates of
\* the summary are fractions, and reviews are of completed cases only
\* (evaluate_enrichment.main).
RatesAreFractions ==
    /\ tally.completed + tally.failures = at
    /\ tally.types <= tally.completed
    /\ tally.reviews <= tally.completed
    /\ tally.found <= tally.checks
    /\ state = "summary" => at = Len(Case)

\* tests/test_enrichment.py: output that is not as asked for is an
\* EnrichmentError, the only exception the API turns into 503.
MalformedIsRejected ==
    call.outcome.kind \in {"result", "EnrichmentError"}
=============================================================================

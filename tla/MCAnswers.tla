------------------------------ MODULE MCAnswers ------------------------------
(***************************************************************************)
(* What other systems answer: the targets of the adapters, and the language *)
(* model.  The two parts share nothing, so one of them at a time is enough. *)
(***************************************************************************)
EXTENDS Adapters, Enrichment, TLC

VARIABLE part

\* From half a second ago to a second and a half away.
HalfSecondsAround == -1 .. 3

\* evaluation/document_cases.json, reduced to what the summary counts.
Cases == << [expected |-> "invoice", required |-> {"number"}],
            [expected |-> "unknown", required |-> {}] >>

Types == {"invoice", "unknown"}

\* Either side of each bound, in hundredths.
Numbers == {-1, 0, 79, 80, 100, 101}

AnswersInit == part \in {"targets", "model"} /\ Init /\ EnrichmentInit

AnswersNext ==
    \/ part = "targets" /\ Next /\ UNCHANGED <<part, enrichmentVars>>
    \/ part = "model" /\ EnrichmentNext /\ UNCHANGED <<part, vars>>

AnswersSpec == AnswersInit /\ [][AnswersNext]_<<part, vars, enrichmentVars>>
=============================================================================

------------------------------- MODULE MCVerifier -------------------------------
(***************************************************************************)
(* The verifier over the harness's own fixtures, over fixtures for what    *)
(* those leave out, and over the mutants of the fuzz tool.                 *)
(***************************************************************************)
EXTENDS Corpora, Verifier

\* The harness declares for each of its fixtures what the verifier says of it: the first
\* reason code, the step that finds it, the limits and the observations of the verdict
\* (src/harness/negative-fixtures.ts, countersign-fixtures.ts, relying-party-kats.ts).
DeclaredVerdicts ==
    verdict # None /\ Input.code # None =>
        /\ verdict.reason = IF Input.code = OK THEN None ELSE Input.code
        /\ verdict.step = Input.step
        /\ \A field \in DOMAIN Input.limits : verdict[field] = Input.limits[field]
        /\ Input.present \subseteq verdict.observations
        /\ Input.absent \cap verdict.observations = {}
=============================================================================

----------------------------- MODULE CorpusOrigins -----------------------------
(***************************************************************************)
(* The fixtures of the harness about requests, malformed members and the   *)
(* declared origins of inputs (D-60, D-78), as edits of the conformant     *)
(* bundle with the code and the step at which each is refused.             *)
(***************************************************************************)
EXTENDS Edits

RequestVariants ==
    LET Diverged(name, F(_)) ==
            Fixture(name, "request/coordinate-mismatch", 7, DivergeRequest(ValidSubset, F))
    IN << Diverged("request-tenant", LAMBDA q : [q EXCEPT !.tenant = "other-tenant"]),
          Diverged("request-site", LAMBDA q : [q EXCEPT !.site = "other-site"]),
          Diverged("request-target", LAMBDA q : [q EXCEPT !.target = "verifier_signing", !.peer = "verifier_signing"]),
          Diverged("request-peer", LAMBDA q : [q EXCEPT !.peer = "verifier_signing"]),
          Diverged("request-peer-missing", LAMBDA q : [q EXCEPT !.peer = None]) >>

\* The schema variants; the payload is swapped and the signature is stale.
MalformedVariants ==
    LET Swapped(name, code, field, id, place, defect) ==
            Fixture(name, code, 6, FlipSignature(Malformed(ValidSubset, field, id, place, defect), field, id))
    IN << Swapped("binding-non-map", "schema/bad-type", "receipts", "r0", "binding", "type"),
          Swapped("request-id-array", "schema/bad-type", "requests", "request-view", "request_id", "type"),
          Swapped("committed-at-non-uint", "schema/bad-type", "receipts", "r0", "emission.at", "type"),
          Swapped("committed-at-missing", "schema/missing-field", "receipts", "r0", "emission.at", "missing"),
          Swapped("subject-kid-array", "schema/bad-type", "credentials", CredentialId("ep_signing"),
                  "subject_kid", "type"),
          Swapped("epoch-owner-array", "schema/bad-type", "receipts", "r3", "binding", "member"),
          Swapped("issued-at-non-uint", "schema/bad-type", "receipts", "r3", "freshness.issued", "type"),
          Swapped("parent-edge-non-map", "schema/bad-type", "receipts", "r8", "parents", "member") >>

\* Of a presentation, two defects at once: the mode is read first, then the state.
PresentationVariants ==
    LET Presented(name, code, flaws) ==
            Fixture(name, code, 6, D77Authorization(ValidSubset,
                LAMBDA body : [body EXCEPT !.presentation.flaws = flaws, !.presentation.sig = FALSE]))
    IN << Presented("signer-mode-nontext", "schema/bad-type", {<<"mode", "type">>}),
          Presented("state-nontext", "schema/bad-type", {<<"state", "type">>}),
          Presented("mode-before-state", "schema/enum-unknown", {<<"mode", "value">>, <<"state", "type">>}),
          Presented("state-before-id", "schema/enum-unknown",
                    {<<"state", "value">>, <<"presentation_id", "size">>}) >>

-----------------------------------------------------------------------------
\* D-78: the origins of what was consumed

Untrusted == "untrusted_origin_declared_in_action_ancestry"

WithOrigin(r, origin, disposition) ==
    [r EXCEPT !.body.items[1].origin = origin, !.body.items[1].disposition = disposition]

\* The origins of the inferences that have parents, and of every observed item.
Declaring(b, origins, origin, disposition) ==
    [b EXCEPT !.receipts = Mapped(@, LAMBDA r :
        IF r.kind = "observation" THEN WithOrigin(r, origin, disposition)
        ELSE IF r.kind = "inference" /\ r.parents # <<>> THEN [r EXCEPT !.body.origins = origins]
        ELSE r)]

Origin(name, ancestry, untrusted, bundle) ==
    Reporting(Conformant(name, bundle), [ancestry |-> ancestry],
              {x \in {Untrusted} : untrusted}, {x \in {Untrusted} : ~untrusted})

WithoutJournal == ClearJournal(ValidSubset)

ThirdPartyRetrieval == Declaring(WithoutJournal, {"principal", "third_party"}, None, "used")
DeclaredTrusted == Declaring(WithoutJournal, {"principal", "operator_system"}, "principal", "used")

\* The dispatched attempt rests on the root authorization alone.
WithoutInput(b) ==
    UpdateAttemptFlow(b, LAMBDA r :
        [r EXCEPT !.parents = <<Edge("r2", "authorization", "authorized_by")>>, !.body.authorization = "r2"])

OriginPositives ==
    << Origin("d78-origin-third-party-retrieval", "partially_declared", TRUE, ThirdPartyRetrieval),
       Origin("origin-declared-only-device-sensed", "declared_only", TRUE,
              Declaring(WithoutJournal, {"device_sensed"}, "device_sensed", "used")),
       Origin("origin-declared-only-trusted", "declared_only", FALSE, DeclaredTrusted),
       Origin("origin-no-input-ancestor", "not_evaluated", FALSE, WithoutInput(WithoutJournal)),
       Origin("origin-unknown-only", "partially_declared", TRUE,
              Declaring(WithoutJournal, {"unknown"}, None, "used")),
       Origin("origin-all-discarded", "not_declared", FALSE,
              Declaring(WithoutJournal, None, "third_party", "discarded")) >>

OriginNegatives ==
    LET Malformation(name, code, receipt, place, defect) ==
            Fixture(name, code, 6, Malformed(ValidSubset, "receipts", receipt, place, defect))
    IN << Fixture("item-disposition-missing", "schema/missing-field", 6,
                  Malformed(Malformed(ValidSubset, "receipts", "r0", "items.disposition", "missing"),
                            "receipts", "r0", "items.origin", "value")),
          Malformation("origins-not-array", "schema/bad-type", "r1", "origins", "type"),
          Malformation("origins-empty", "schema/out-of-range", "r1", "origins", "count"),
          Malformation("origins-nontext", "schema/bad-type", "r1", "origins", "member"),
          Malformation("origins-enum-unknown", "schema/enum-unknown", "r1", "origins", "value"),
          Malformation("origins-duplicate-nonadjacent", "schema/duplicate-entry", "r1", "origins", "repeat"),
          Malformation("origins-unsorted", "schema/unsorted-set", "r1", "origins", "order"),
          Malformation("item-origin-enum-unknown", "schema/enum-unknown", "r0", "items.origin", "value"),
          Malformation("item-origin-nontext", "schema/bad-type", "r0", "items.origin", "type"),
          Malformation("item-disposition-enum-unknown", "schema/enum-unknown", "r0", "items.disposition", "value"),
          Malformation("item-disposition-nontext", "schema/bad-type", "r0", "items.disposition", "type") >>

\* Only the root observation, of the anchored epoch 42, is of a third party; all that
\* rests on it is of epoch 43, of which no journal is carried.
CrossEpochAncestry ==
    LET link == [manifest |-> "manifest-42", anchor |-> "anchor", reason |-> "historical_evidence"]
        Moved(e) == IF e.parent = "r0" THEN [e EXCEPT !.cross = link] ELSE [e EXCEPT !.epoch = 43]
        Receipt43(r) == IF r.id = "r0" THEN WithOrigin(r, "third_party", "used")
                        ELSE [r EXCEPT !.epoch = 43, !.parents = Mapped(@, Moved)]
        receipts == Mapped(Receipts, Receipt43)
        Alone(m) == [m EXCEPT !.index = IndexOver(SubSeq(@.entries, 1, 1)), !.count = 1,
                              !.span = [first |-> 0, last |-> 0]]
    IN [RebuildManifest([ValidSubset EXCEPT !.receipts = receipts], Alone, TRUE)
        EXCEPT !.batches = <<>>, !.proofs = <<>>]

\* The refused attempt rests on the root authorization, the outcome on that attempt and
\* the root observation, and the second inference on the outcome.
OutcomeSupportsAncestry ==
    LET thirdParty(r) == WithOrigin(r, "third_party", "used")
        refused(r) == [r EXCEPT !.parents = <<Edge("r2", "authorization", "authorized_by")>>,
                                !.body.authorization = "r2"]
        outcome(r) == [r EXCEPT !.parents = << Edge("r6", "action_attempt", "observed_outcome"),
                                               Edge("r0", "observation", "supports") >>,
                                !.body.subject = "r6"]
        inference(r) == [r EXCEPT !.parents = <<Edge("r9", "outcome_observation", "supports")>>,
                                  !.body.consumption = "prompt"]
        b1 == On(On(WithoutJournal, "receipts", "r0", thirdParty), "receipts", "r6", refused)
        b2 == On(On(b1, "receipts", "r9", outcome), "receipts", "r4", inference)
    IN [b2 EXCEPT !.receipts = Mapped(@, IntendParents)]

\* The same receipts under other ids, twenty sequence numbers later.
Twin(id) == "twin-" \o id

TwinReceipt(r) ==
    LET named == {"authorization", "attempt", "subject"} \cap DOMAIN r.body
    IN [r EXCEPT !.id = Twin(@), !.digest = <<"envelope", Twin(r.id)>>, !.eseq = @ + 20, !.iseq = @ + 20,
                 !.parents = Mapped(@, LAMBDA e : [e EXCEPT !.parent = Twin(@)]),
                 !.intended = Mapped(@, Twin),
                 !.body = [f \in DOMAIN @ |-> IF f \in named THEN Twin(@[f]) ELSE @[f]]]

TwoAttempts ==
    LET ours == Declaring(DeclaredTrusted, {"principal"}, "principal", "used").receipts
        theirs == Declaring(DeclaredTrusted, {"third_party"}, "third_party", "used").receipts
    IN [DeclaredTrusted EXCEPT !.receipts = ours \o Mapped(theirs, TwinReceipt)]

RefusedForTheJournal ==
    Body(Declaring(DeclaredTrusted, {"third_party"}, "principal", "used"), "r6", "refusal", "journal/unavailable")

OriginBoundaries ==
    << Origin("origin-cross-epoch-ancestry", "partially_declared", TRUE, CrossEpochAncestry),
       Origin("origin-outcome-supports-ancestry", "partially_declared", TRUE, OutcomeSupportsAncestry),
       Origin("origin-two-attempts-distinct-sets", "declared_only", TRUE, TwoAttempts),
       Fixture("repair-d78-untrusted-then-late-failure", "epoch/open-close", 14,
               [ThirdPartyRetrieval EXCEPT !.manifests = <<Manifest42>>]),
       Reporting(Conformant("origin-aar3-refused-and-untrusted",
                            [RefusedForTheJournal EXCEPT !.profile = "AAR-3", !.batches = <<Batch>>,
                                                         !.proofs = <<Membership(2)>>]),
                 [ancestry |-> "declared_only"],
                 {"refused_pre_dispatch", Untrusted, "membership_only", "ingress_completeness_not_established"},
                 {"degraded_dispatch"}) >>

\* An item with a member that is no text has no ordinal.
OriginItemVariants ==
    LET Both(name, code, first, second) ==
            Fixture(name, code, 6, Malformed(Malformed(ValidSubset, "receipts", "r0", "items.disposition", first),
                                             "receipts", "r0", "items.origin", second))
    IN << Fixture("d78-item-123-origin-web", "receipt/manifest-inconsistent", 10,
                  On(WithoutJournal, "receipts", "r0", LAMBDA r : [r EXCEPT !.body.items[1].ordinal = None])),
          Both("d78-item-disposition-type-before-origin-enum", "schema/bad-type", "type", "value"),
          Both("d78-item-disposition-enum-before-origin-type", "schema/enum-unknown", "value", "type") >>

OriginReportVariants ==
    LET again == [Find(ThirdPartyRetrieval.receipts, "r8")
                     EXCEPT !.id = "r10", !.digest = <<"envelope", "r10">>, !.eseq = 10, !.iseq = 110]
    IN << Origin("d78-report-eligible-undispatched", "not_evaluated", FALSE,
                 KeepReceipts(ThirdPartyRetrieval, LAMBDA r : r.kind \notin {"dispatch", "outcome_observation"})),
          Origin("d78-report-mixed-attempts-diamond", "partially_declared", TRUE,
                 On(ThirdPartyRetrieval, "receipts", "r6", LAMBDA r :
                    [r EXCEPT !.body.disposition = "eligible_for_dispatch", !.body.refusal = None])),
          Origin("d78-report-repeated-dispatch", "partially_declared", TRUE,
                 Add(ThirdPartyRetrieval, "receipts", again)) >>
=============================================================================

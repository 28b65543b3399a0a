------------------------------- MODULE CorpusSchema -------------------------------
(***************************************************************************)
(* The schema fixtures of decision D-82: one malformed field for each rule *)
(* of an envelope (step 6) or of the bundle (step 3), and pairs of them    *)
(* where the earlier rule is to be reported.                               *)
(***************************************************************************)
EXTENDS CorpusConformant

\* One artifact with these flaws.
Schema6(rows) ==
    Mapped(rows, LAMBDA row :
        Fixture(row[1], row[2], 6, On(Base, row[3], row[4], LAMBDA a : [a EXCEPT !.flaws = row[5]])))

\* The presentation of the approval with these flaws.
Presented6(rows) ==
    Mapped(rows, LAMBDA row :
        Fixture(row[1], row[2], 6, MutatePresentation(Base, LAMBDA p : [p EXCEPT !.flaws = row[3]])))

VerifierCredential == CredentialId("verifier_signing")

Unnamed == "schema/enum-unknown"
Mistyped == "schema/bad-type"
Absent == "schema/missing-field"

\* The three kinds of defect that the rows below are about.
Value(place) == <<place, "value">>
Type(place) == <<place, "type">>
Missing(place) == <<place, "missing">>

-----------------------------------------------------------------------------
EnumRows ==
    LET Row(name, field, id, place) == <<name, Unnamed, field, id, {Value(place)}>>
    IN Schema6(<<
        Row("schema-enum-credential-principal-role", "credentials", VerifierCredential, "role"),
        Row("schema-enum-credential-key-usage", "credentials", VerifierCredential, "usage"),
        Row("schema-enum-delegation-use", "delegations", "delegation-view", "use"),
        Row("schema-enum-epoch-event-event", "events", "submitted", "event"),
        Row("schema-enum-manifest-close-reason", "manifests", "manifest-42", "reason"),
        Row("schema-enum-manifest-late-arrival-policy", "manifests", "manifest-42", "late_policy"),
        Row("schema-enum-manifest-fork-policy", "manifests", "manifest-42", "fork_policy"),
        Row("schema-enum-transformation-operation", "receipts", "r0", "items.transforms"),
        Row("schema-enum-correlation-phase", "receipts", "r0", "correlation.phase"),
        Row("schema-enum-native-attestation-format", "receipts", "r0", "attestations.format"),
        Row("schema-enum-action-informational-reversibility", "receipts", "r6", "informational"),
        Row("schema-enum-action-operational-reversibility", "receipts", "r6", "operational"),
        Row("schema-enum-outcome-state", "receipts", "r9", "state"),
        Row("schema-enum-evidence-time-class", "receipts", "r0", "evidence.time"),
        Row("schema-enum-evidence-provenance-class", "receipts", "r1", "evidence.provenance"),
        Row("schema-enum-evidence-outcome-level", "receipts", "r8", "evidence.outcome") >>)
       \o Presented6(<< <<"schema-enum-presentation-transform-operation", Unnamed, {Value("transforms.operation")}>> >>)

\* Of two faults the one in the earlier field.
ProductionRows ==
    Schema6(<<
        <<"schema-d82-credential-missing", Absent, "credentials", VerifierCredential, {Missing("usage")}>>,
        <<"schema-d82-credential-bad-type", Mistyped, "credentials", VerifierCredential, {Type("from")}>>,
        <<"schema-d82-credential-paired", Unnamed, "credentials", VerifierCredential, {Value("role"), Type("usage")}>>,
        <<"schema-d82-delegation-missing", Absent, "delegations", "delegation-view", {Missing("not_before")}>>,
        <<"schema-d82-delegation-bad-type", Mistyped, "delegations", "delegation-view", {Type("not_after")}>>,
        <<"schema-d82-delegation-paired", Mistyped, "delegations", "delegation-view", {Type("not_before"), Value("use")}>>,
        <<"schema-d82-epoch-event-missing", Absent, "events", "submitted", {Missing("seq")}>>,
        <<"schema-d82-epoch-event-bad-type", Mistyped, "events", "submitted", {Type("occurred")}>>,
        <<"schema-d82-epoch-event-paired", Mistyped, "events", "submitted", {Type("seq"), Value("event")}>>,
        <<"schema-d82-manifest-missing", Absent, "manifests", "manifest-42", {Missing("opened")}>>,
        <<"schema-d82-manifest-bad-type", Mistyped, "manifests", "manifest-42", {Type("closed")}>>,
        <<"schema-d82-manifest-paired", Unnamed, "manifests", "manifest-42", {Value("reason"), Type("fork_policy")}>>,
        <<"schema-d82-receipt-missing", Absent, "receipts", "r0", {Missing("freshness.nonce")}>>,
        <<"schema-d82-receipt-bad-type", Mistyped, "receipts", "r0", {Type("freshness.invocation")}>>,
        <<"schema-d82-receipt-paired-missing-first", Absent, "receipts", "r0",
          {Missing("freshness.nonce"), Value("evidence.time")}>>,
        <<"schema-d82-receipt-paired-enum-first", Unnamed, "receipts", "r0",
          {Value("evidence.time"), Missing("correlation.phase")}>> >>)
    \o Presented6(<<
        <<"schema-d82-presentation-missing", Absent, {Missing("transforms.operation")}>>,
        <<"schema-d82-presentation-bad-type", Mistyped, {Type("transforms")}>>,
        <<"schema-d82-presentation-paired", Unnamed, {Value("transforms.operation"), Type("delivered")}>> >>)

\* Amendment (b): times, sequences and epoch ids, also those of nested members.
TimeRows ==
    LET Row(name, field, id, place) == <<name, Mistyped, field, id, {Type(place)}>>
    IN Schema6(<<
        Row("schema-d82-receipt-wall-time-text", "receipts", "r0", "evidence.time"),
        Row("schema-d82-observation-observed-at-text", "receipts", "r0", "observed_at"),
        Row("schema-d82-event-epoch-id-list", "events", "submitted", "epoch"),
        Row("schema-d82-event-close-last-seq-text", "events", "close", "detail"),
        Row("schema-d82-dispatch-dispatched-at-text", "receipts", "r8", "dispatched_at"),
        Row("schema-d82-outcome-observed-at-text", "receipts", "r9", "observed_at"),
        Row("schema-d82-parent-edge-epoch-id-text", "receipts", "r9", "parents.epoch"),
        Row("schema-d82-manifest-span-first-text", "manifests", "manifest-42", "span.first"),
        Row("schema-d82-manifest-index-entry-committed-at-text", "manifests", "manifest-42", "index.at"),
        Row("schema-d82-anchor-head-observed-at-text", "anchors", "anchor", "head"),
        Row("schema-d82-merkle-batch-epoch-id-text", "batches", "batch", "epoch") >>)

\* Amendment (ab): presence, then type of every member of a proof.
ProofRows ==
    Schema6(<<
        <<"schema-d82-anchor-head-root-missing", Absent, "anchors", "anchor", {Missing("head.root")}>>,
        <<"schema-d82-anchor-inclusion-leaf-digest-missing", Absent, "anchors", "anchor", {Missing("inclusion.leaf")}>>,
        <<"schema-d82-index-entry-receipt-id-missing", Absent, "manifests", "manifest-42", {Missing("index.receipt_id")}>>,
        <<"schema-d82-batch-tree-size-text", Mistyped, "batches", "batch", {Type("size")}>>,
        <<"schema-d82-index-root-null", Mistyped, "manifests", "manifest-42", {Type("index.root")}>>,
        <<"schema-d82-index-root-int-array", Mistyped, "manifests", "manifest-42", {Type("index.root")}>>,
        <<"schema-d82-anchor-root-null", Mistyped, "anchors", "anchor", {Type("root")}>>,
        <<"schema-d82-anchor-manifest-digest-null", Mistyped, "anchors", "anchor", {Type("manifest_digest")}>>,
        <<"schema-d82-independence-groups-member-int", Mistyped, "manifests", "manifest-42", {Type("group")}>>,
        <<"schema-d82-independence-groups-missing", Absent, "manifests", "manifest-42", {Missing("groups")}>>,
        <<"schema-d82-batch-tree-size-over", "schema/out-of-range", "batches", "batch", {<<"size", "count">>}>>,
        <<"schema-d82-plan-duplicate-target-id", "schema/duplicate-entry", "manifests", "manifest-42",
          {<<"plan.targets", "repeat">>}>>,
        <<"schema-d82-credential-path-nine", "schema/out-of-range", "credentials", VerifierCredential,
          {<<"path", "count">>}>>,
        <<"schema-d82-anchor-plan-mixed-keys", Mistyped, "manifests", "manifest-42", {Type("plan")}>>,
        <<"schema-d82-native-attestation-int-keyed", Mistyped, "receipts", "r0", {Type("attestations")}>>,
        <<"schema-d82-action-int-keyed", Mistyped, "receipts", "r6", {Type("action")}>>,
        <<"schema-d82-command-int-keyed", Mistyped, "receipts", "r6", {Type("command")}>> >>)
    \o Presented6(<< <<"schema-d82-presentation-transform-int-keyed", Mistyped, {Type("transforms")}>> >>)

\* The members of the bundle itself: ranges, proofs, trust inputs.
BundleRows ==
    LET Row(row) == Fixture(row[1], row[2], 3, [row[3] EXCEPT !.flaws = row[4]])
        complete == MakeCompleteRange(Base)
    IN Mapped(<<
        <<"schema-d82-range-entry-committed-at-text", Mistyped, complete, {Type("entry.at")}>>,
        <<"schema-d82-boundary-entry-epoch-seq-text", Mistyped, complete, {Type("left.eseq")}>>,
        <<"schema-d82-range-inclusion-missing", Absent, complete, {Missing("entry.inclusion")}>>,
        <<"schema-d82-merkle-proof-siblings-missing", Absent, Base, {Missing("proof.siblings")}>>,
        <<"schema-d82-claimed-profile-int", Mistyped, Base, {Type("profile")}>>,
        <<"schema-d82-v-negative-created-at-text", Mistyped, Base, {Type("v"), Type("created")}>>,
        <<"schema-d82-delegations-1001", "schema/out-of-range", Base, {<<"delegations", "count">>}>>,
        <<"schema-d82-merkle-proof-21-siblings", "schema/out-of-range", Base, {<<"proof.siblings", "count">>}>>,
        <<"schema-d82-expected-heads-duplicate-target-id", "schema/duplicate-entry", Base, {<<"heads", "repeat">>}>>,
        <<"schema-d82-merkle-proof-leaf-epoch-id-text", Mistyped, Base, {Type("proof.leaf.epoch")}>> >>, Row)

SchemaFixtures == EnumRows \o ProductionRows \o TimeRows \o ProofRows \o BundleRows
=============================================================================

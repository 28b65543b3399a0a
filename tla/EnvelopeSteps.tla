----------------------------- MODULE EnvelopeSteps -----------------------------
(***************************************************************************)
(* The form of a bundle: the limits and the encoding of its bytes (steps   *)
(* 1, 2), its schema (step 3), its resource counts (step 4) and, for each  *)
(* signed object in it, the envelope and the schema of its payload (step   *)
(* 6, sub-steps 1 to 6).                                                   *)
(*                                                                         *)
(* What is malformed in a document is its set `flaws` of pairs <<place,    *)
(* defect>>.  The order in which the verifier looks at the places, and at  *)
(* the defects of one place, decides which code it reports.  Of an array   *)
(* whose members have one rule (the roots, the ranges) at most one member  *)
(* is flawed.                                                              *)
(***************************************************************************)
EXTENDS Faults, FiniteSets

CONSTANTS               \* LIMITS, scaled to the bundles of the model
    MaxNodes,           \* receipts, and countersignatures
    MaxParents,         \* parents of a receipt
    MaxEdges,           \* parents of all the receipts
    MaxProof,           \* digests of a proof
    MaxProofs           \* digests of all the proofs

ASSUME CountsAssumption == \A n \in {MaxNodes, MaxParents, MaxEdges, MaxProof, MaxProofs} : n \in Nat

\* The first flaw of a table of <<place, defect, code>> is the one that is reported.
Judge(flaws, table) ==
    IF flaws = {} THEN OK
    ELSE ForEach(table, LAMBDA t : Require(<<t[1], t[2]>> \notin flaws, t[3]))

-----------------------------------------------------------------------------
\* Step 2, and wherever bytes are decoded

\* A scan that loses the item boundaries ends there; the other defects are all
\* collected, and reported in this order.
DecodeDefects ==
    << <<"depth", "resource/cbor-depth">>, <<"indefinite", "cbor/indefinite-length">>,
       <<"malformed", "cbor/malformed">>, <<"utf8", "cbor/invalid-utf8">>,
       <<"duplicate", "cbor/duplicate-key">>, <<"tag", "cbor/tag-forbidden">>,
       <<"float", "cbor/float-forbidden">>, <<"trailing", "cbor/trailing-bytes">>,
       <<"long_form", "cbor/non-canonical">> >>

Decode(flaws, place) ==
    ForEach(DecodeDefects, LAMBDA d : Require(<<place, d[1]>> \notin flaws, d[2]))

Undecodable(flaws, place) == \E d \in Elements(DecodeDefects) : <<place, d[1]>> \in flaws

-----------------------------------------------------------------------------
\* The schema rules: closed(), fixed(), textSize(), sortedUnique(), checkField()

\* The defects of one place.  "absent" is a member missing where it is read, "missing"
\* one that a closed map does not have; "length" is that of a text.
FieldDefects ==
    << <<"absent", "schema/missing-field">>, <<"type", "schema/bad-type">>,
       <<"extra", "schema/unknown-field">>, <<"missing", "schema/missing-field">>,
       <<"version", "schema/version-wrong">>, <<"count", "schema/out-of-range">>,
       <<"member", "schema/bad-type">>, <<"size", "schema/digest-size">>,
       <<"length", "schema/string-size">>, <<"value", "schema/enum-unknown">>,
       <<"repeat", "schema/duplicate-entry">>, <<"order", "schema/unsorted-set">> >>

\* Mutant: a value outside its enumeration is taken.
CheckFieldOpen(flaws, place) ==
    ForEach(FieldDefects, LAMBDA d : Require(<<place, d[1]>> \notin flaws \/ d[1] = "value", d[2]))

CheckField(flaws, place) ==
    ForEach(FieldDefects, LAMBDA d : Require(<<place, d[1]>> \notin flaws, d[2]))

ApplyRules(flaws, places) ==
    IF flaws = {} THEN OK ELSE ForEach(places, LAMBDA place : CheckField(flaws, place))

Within(prefix, names) == Mapped(names, LAMBDA name : prefix \o "." \o name)

EntryRules(prefix) ==
    Within(prefix, << "leaf", "receipt_id", "kind", "issuer", "iseq", "eseq", "at", "subjects",
                      "correlations" >>)

\* RANGE_ITEM_RULES: an entry of a range or one of its boundaries.
ItemRules(item) ==
    Within(item, << "entry" >>) \o EntryRules(item)
    \o Within(item, << "inclusion", "size", "index", "siblings" >>)

SelectorRules ==
    << "selector", "selector.tenant", "selector.site", "selector.from", "selector.kinds",
       "selector.subjects", "selector.correlations", "selector.issuers" >>

TrustRules ==
    << "trust", "trust.eval", "trust.policy", "trust.heads", "trust.life_safety", "store",
       "store.digest", "store.snapshot", "store.created", "roots", "root", "root.id", "root.kid",
       "root.tenant", "root.sites", "root.usages", "head", "head.target", "head.root",
       "head.observed", "head.size", "heads" >>

ArtifactFields ==
    << "receipts", "requests", "delegations", "credentials", "statuses", "rotations", "events",
       "manifests", "anchors", "batches", "proofs", "payloads", "countersignatures" >>

ArtifactRules ==
    << "artifacts" >> \o ArtifactFields
    \o << "payload", "payload.digest", "payload.media", "payload.bytes", "proof", "proof.batch",
          "proof.size", "proof.index", "proof.leaf", "proof.leaf.epoch", "proof.leaf.digest",
          "proof.siblings" >>

BundleRules ==
    << "bundle", "v", "created", "nonce", "profile", "coverage", "commitment", "ranges", "range",
       "range.manifest", "range.commitment", "range.size", "range.first", "range.entries" >>
    \o ItemRules("entry") \o << "range.left" >> \o ItemRules("left")
    \o << "range.right" >> \o ItemRules("right")
    \o SelectorRules \o TrustRules \o ArtifactRules

-----------------------------------------------------------------------------
\* Step 3

\* The primary id of an envelope cannot be read: it is no pair, or its payload does not decode.
Unreadable(a) ==
    <<"entry", "type">> \in a.flaws \/ Undecodable(a.flaws, "payload") \/ <<"payload", "type">> \in a.flaws

\* What an artifact is found by.
PrimaryId(field, a) == IF field = "proofs" THEN <<a.batch, a.index>> ELSE a.id

\* An artifact array is sorted by primary id, each of which it has once, which is judged
\* when every id of it is readable.
Sorted(b, field) ==
    LET s == b[field]
    IN IF field \notin {"payloads", "proofs"} /\ \E i \in DOMAIN s : Unreadable(s[i]) THEN OK
       ELSE Require(\A i, j \in DOMAIN s : PrimaryId(field, s[i]) = PrimaryId(field, s[j]) => i = j,
                    "schema/duplicate-entry")
            ?? Require(<<field, "id_order">> \notin b.flaws, "schema/unsorted-set")

\* A required member missing of the trust inputs leaves the verifier without an answer.
Indeterminate(flaws, code) ==
    /\ code = "schema/missing-field"
    /\ \E place \in {"trust", "store", "root", "head"} : <<place, "missing">> \in flaws

Schema(b) ==
    ApplyRules(b.flaws, BundleRules) ?? ForEach(ArtifactFields, LAMBDA field : Sorted(b, field))
    ?? Judge(b.flaws, << <<"commitment", "digest", "bundle/selector-commitment">> >>)

-----------------------------------------------------------------------------
\* Step 4

\* Every inclusion, consistency and membership proof once; its size is that of its path.
ProofSizes(b) ==
    FlattenSeq([i \in DOMAIN b.ranges |->
        LET r == b.ranges[i]
            items == r.entries \o SelectSeq(<<r.left, r.right>>, LAMBDA item : item # None)
        IN Mapped(items, LAMBDA item : Len(item.siblings))])
    \o Mapped(b.proofs, LAMBDA p : Len(p.siblings))
    \o FlattenSeq([i \in DOMAIN b.anchors |->
           LET a == b.anchors[i]
           IN <<Len(a.inclusion.siblings)>>
              \o (IF a.consistency = None THEN <<>> ELSE <<Len(a.consistency.path)>>)])

Total(s) == FoldSeq(LAMBDA n, sum : n + sum, 0, s)

Counts(b) ==
    Require(Len(b.receipts) <= MaxNodes, "resource/node-count")
    ?? Require(Len(b.countersignatures) <= MaxNodes, "resource/node-count")
    ?? ForEach(b.receipts, LAMBDA r : Require(Len(r.parents) <= MaxParents, "resource/parent-count"))
    ?? Require(Total(Mapped(b.receipts, LAMBDA r : Len(r.parents))) <= MaxEdges,
               "resource/edge-count")
    ?? ForEach(ProofSizes(b), LAMBDA n : Require(n <= MaxProof, "resource/proof-too-large"))
    ?? Require(Total(ProofSizes(b)) <= MaxProofs, "resource/proofs-too-large")

-----------------------------------------------------------------------------
\* Step 5

TrustInputs(b, now, configuration) ==
    Judge(b.flaws, << <<"store.snapshot", "zero", "schema/out-of-range">>,
                      <<"store.digest", "digest", "hash/mismatch">> >>)
    ?? Require(\A i, j \in DOMAIN b.roots : b.roots[i].kid = b.roots[j].kid => i = j,
               "schema/duplicate-entry")
    ?? ForEach(b.roots, LAMBDA root :
           Require(root.tenant = b.selector.tenant /\ b.selector.site \in root.sites,
                   "credential/root-not-accepted"))
    ?? Require(configuration # None => \A root \in Elements(b.roots) : root.kid \notin configuration.kids,
               "credential/root-not-accepted")
    ?? Require(b.eval = now, "schema/out-of-range")
    ?? Require(b.eval >= b.storeCreated, "schema/out-of-range")

-----------------------------------------------------------------------------
\* Step 6, sub-steps 1 to 5: the COSE envelope

EnvelopeRows == << <<"entry", "type", "schema/bad-type">>, <<"cose", "wrapped", "cose/tagged">> >>

HeaderRows ==
    << <<"protected", "type", "cose/protected-not-map">>,
       <<"protected", "label", "cose/protected-label">>,
       <<"alg", "absent", "cose/alg-missing">>, <<"alg", "value", "cose/alg-wrong">>,
       <<"content_type", "absent", "cose/content-type-missing">>,
       <<"content_type", "value", "cose/content-type-wrong">>,
       <<"kid", "absent", "cose/kid-missing">>, <<"kid", "size", "schema/digest-size">>,
       <<"coordinate", "absent", "cose/receipt-coordinate-missing">>,
       <<"unprotected", "alg", "cose/alg-in-unprotected">>,
       <<"unprotected", "label", "cose/unprotected-not-empty">>,
       <<"cose_payload", "attached", "cose/payload-not-detached">>,
       <<"signature", "der", "sig/der-encoding">>, <<"signature", "length", "sig/bad-length">>,
       <<"signature", "zero", "sig/zero-rs">>, <<"signature", "high", "sig/high-s">> >>

ParseCose(flaws) ==
    Judge(flaws, EnvelopeRows) ?? Decode(flaws, "cose")
    ?? Judge(flaws, << <<"cose", "structure", "cose/bad-structure">> >>)
    ?? Require(~Undecodable(flaws, "protected"), "cose/protected-not-map")
    ?? Judge(flaws, HeaderRows)

-----------------------------------------------------------------------------
\* Step 6, sub-step 6: the payload

CredentialRules ==
    << "principal_type", "role", "from", "until", "algorithm", "usage", "path", "credential_id",
       "subject_kid" >>

PresentationRules ==
    << "mode", "transforms", "transforms.operation", "delivered", "state", "presentation_id" >>

StatusRules ==
    << "produced", "next", "lease", "profile", "status", "instant", "sequence", "snapshot_id" >>

EventRules == << "epoch", "seq", "occurred", "event", "body", "event_id", "detail" >>

ManifestRules ==
    << "epoch", "opened", "closed", "span", "span.first", "span.last", "reason", "late_policy",
       "deadline", "fork_policy", "index", "index.count", "index.root", "index.entries" >>
    \o EntryRules("index")
    \o << "manifest_id", "plan", "basis", "groups", "group", "group.operator", "plan.targets" >>

AnchorRules ==
    << "epoch", "manifest_digest", "submitted", "accepted", "size", "index", "root", "inclusion",
       "inclusion.size", "inclusion.index", "inclusion.leaf", "inclusion.siblings", "consistency",
       "consistency.old", "consistency.new", "consistency.path", "head", "head.size", "head.root",
       "anchor_id" >>

BatchRules ==
    << "tenant", "site", "owner", "epoch", "signer", "size", "root", "at", "claim", "batch_id" >>

ReceiptRules ==
    << "receipt_id", "receipt_kind", "binding", "binding.epoch", "binding.eseq", "binding.late",
       "emission", "emission.iseq", "emission.at", "freshness", "freshness.issued",
       "freshness.expires", "freshness.nonce", "freshness.domain", "freshness.invocation",
       "freshness.use", "freshness.intended", "evidence", "evidence.time",
       "evidence.provenance", "evidence.outcome", "parents", "parents.epoch", "correlation",
       "correlation.phase", "body" >>

BodyRules ==
    [observation |-> << "consumption", "items", "items.transforms", "items.disposition",
                        "items.origin", "observed_at", "attestations", "attestations.format" >>,
     inference |-> << "origins" >>,
     authorization |-> <<>>,
     action_attempt |-> << "action", "informational", "operational", "command", "excluded",
                           "excluded.name", "excluded.reason", "excluded.commitment",
                           "excluded.reason_value" >>,
     dispatch |-> << "dispatched_at" >>,
     outcome_observation |-> << "observed_at", "state" >>]

PayloadRules(kind, a) ==
    CASE kind = "credential" -> CredentialRules
      [] kind = "presentation" -> PresentationRules
      [] kind = "status" -> StatusRules
      [] kind = "request" -> << "freshness", "freshness.issued", "freshness.expires", "request_id" >>
      [] kind = "rotation" -> << "effective", "sequence", "rotation_id" >>
      [] kind = "delegation" -> << "not_before", "not_after", "use", "delegation_id" >>
      [] kind = "epoch_event" -> EventRules
      [] kind = "epoch_manifest" -> ManifestRules
      [] kind = "anchor" -> AnchorRules
      [] kind = "merkle_batch" -> BatchRules
      [] kind = "mediator_countersignature" ->
            << "at", "countersignature_id", "attempt_digest", "command_digest" >>
      [] kind = "receipt" -> ReceiptRules \o BodyRules[a.kind]

\* parseEnvelope()
Parse(kind, a) ==
    ParseCose(a.flaws) ?? Decode(a.flaws, "payload")
    ?? ApplyRules(a.flaws, << "payload", "v" >>) ?? ApplyRules(a.flaws, PayloadRules(kind, a))
=============================================================================

-------------------------------- MODULE CorpusCodes --------------------------------
(***************************************************************************)
(* The fixtures of the harness that lead to each reason code once, in the  *)
(* order of the families of codes, which is that of the steps.             *)
(***************************************************************************)
EXTENDS CorpusConformant

\* One flaw of the bundle itself, found at this step.
BundleFlaws(at, rows) ==
    Mapped(rows, LAMBDA row : Fixture(row[1], row[1], at, Wrong(Base, row[2], row[3])))

\* The code is the name of the fixture.
Coded(at, rows) == Mapped(rows, LAMBDA row : Fixture(row[1], row[1], at, row[2]))

-----------------------------------------------------------------------------
\* Steps 1 to 5

\* Receipts that are nothing but their ids and parents.
Shells(count, parents) ==
    [n \in 1 .. count |-> [Receipts[1] EXCEPT !.id = <<"shell", n>>,
                              !.parents = [p \in 1 .. parents |-> Edge("r0", "observation", "supports")]]] \o <<>>

ResourceFixtures ==
    LET Deep(n) == [i \in 1 .. n |-> Leaf(i)] \o <<>>
        complete == MakeCompleteRange(Base)
        proof == [Base.proofs[1] EXCEPT !.siblings = Deep(MaxProof)]
    IN BundleFlaws(1, << <<"resource/bundle-too-large", "bytes", "size">> >>)
       \o BundleFlaws(2, << <<"resource/cbor-depth", "bytes", "depth">> >>)
       \o Coded(4, <<
            <<"resource/node-count", [Base EXCEPT !.receipts = Shells(MaxNodes + 1, 0)]>>,
            <<"resource/parent-count", [Base EXCEPT !.receipts[1].parents = Shells(1, MaxParents + 1)[1].parents]>>,
            <<"resource/edge-count", [Base EXCEPT !.receipts = Shells(MaxEdges \div MaxParents + 1, MaxParents)]>>,
            <<"resource/proof-too-large", [complete EXCEPT !.ranges[1].entries[1].siblings = Deep(MaxProof + 1)]>>,
            <<"resource/proofs-too-large",
              [Base EXCEPT !.proofs = [n \in 1 .. MaxProofs \div MaxProof + 1 |-> [proof EXCEPT !.index = n - 1]] \o <<>>]>> >>)

\* Two defects of the bytes: the scan that loses its place is the one reported.
CborFixtures ==
    LET Decoding(name, code, at, flaws) == Fixture(name, code, at, [Base EXCEPT !.flaws = flaws])
        Bytes(defect) == {<<"bytes", defect>>}
        float == "cbor/float-forbidden"
        malformed == "cbor/malformed"
    IN BundleFlaws(2, << <<"cbor/malformed", "bytes", "malformed">>, <<"cbor/invalid-utf8", "bytes", "utf8">>,
                         <<"cbor/indefinite-length", "bytes", "indefinite">>,
                         <<"cbor/duplicate-key", "bytes", "duplicate">>,
                         <<"cbor/trailing-bytes", "bytes", "trailing">>, <<"cbor/tag-forbidden", "bytes", "tag">>,
                         <<"cbor/float-forbidden", "bytes", "float">>,
                         <<"cbor/non-canonical", "bytes", "long_form">> >>)
       \o << Decoding("cbor-d82-noncanonical-then-malformed", malformed, 2, Bytes("long_form") \cup Bytes("malformed")),
             Decoding("cbor-d82-uint-beyond-safe", malformed, 2, Bytes("malformed")),
             Decoding("cbor-d82-half-float", float, 2, Bytes("float")),
             Decoding("cbor-d82-float64", float, 2, Bytes("float")),
             Decoding("cbor-d82-negative-beyond-safe", malformed, 2, Bytes("malformed")),
             Decoding("cbor-d82-depth-32-ok", "schema/bad-type", 3, {<<"bundle", "type">>}),
             Decoding("cbor-d82-depth-33", "resource/cbor-depth", 2, Bytes("depth")) >>

SchemaCodes ==
    BundleFlaws(3, << <<"schema/unknown-field", "bundle", "extra">>, <<"schema/missing-field", "bundle", "missing">>,
                      <<"schema/bad-type", "created", "type">>, <<"schema/version-wrong", "v", "version">>,
                      <<"schema/enum-unknown", "profile", "value">>, <<"schema/out-of-range", "ranges", "count">>,
                      <<"schema/string-size", "payload.media", "length">>,
                      <<"schema/digest-size", "commitment", "size">>,
                      <<"schema/unsorted-set", "selector.kinds", "order">>,
                      <<"schema/duplicate-entry", "selector.subjects", "repeat">>,
                      <<"bundle/selector-commitment", "commitment", "digest">> >>)

-----------------------------------------------------------------------------
\* Step 6

CoseFixtures ==
    LET First(code, place, defect) ==
            Fixture(code, code, 6, Malformed(Base, "credentials", RootId, place, defect))
    IN << First("cose/tagged", "cose", "wrapped"), First("cose/bad-structure", "cose", "structure"),
          First("cose/protected-not-map", "protected", "type"), First("cose/protected-label", "protected", "label"),
          First("cose/alg-missing", "alg", "absent"), First("cose/alg-wrong", "alg", "value"),
          First("cose/content-type-missing", "content_type", "absent"),
          First("cose/content-type-wrong", "content_type", "value"), First("cose/kid-missing", "kid", "absent"),
          First("cose/alg-in-unprotected", "unprotected", "alg"),
          First("cose/unprotected-not-empty", "unprotected", "label"),
          First("cose/payload-not-detached", "cose_payload", "attached"),
          First("sig/der-encoding", "signature", "der"), First("sig/bad-length", "signature", "length"),
          First("sig/zero-rs", "signature", "zero"), First("sig/high-s", "signature", "high") >>
       \o Coded(6, << <<"sig/verify-failed", FlipSignature(Base, "credentials", RootId)>>,
                      <<"cose/receipt-coordinate-missing", Malformed(Base, "receipts", "r0", "coordinate", "absent")>>,
                      <<"cose/receipt-coordinate-mismatch", Put(Base, "receipts", "r0", "coordinates", FALSE)>> >>)

\* The credential of the agent, and the request that it signed.
KeyFixtures ==
    LET Agent(F(_)) == On(Base, "credentials", CredentialId("agent_signing"), F)
        RootBetween(from, until) ==
            On(Base, "credentials", RootId, LAMBDA c : [c EXCEPT !.from = from, !.until = until])
        other == Agent(LAMBDA c : [c EXCEPT !.subject = "other-curve", !.key = "other-curve", !.curve = "unknown"])
    IN Coded(6, <<
        <<"key/not-found", Put(Base, "requests", "request-view", "by", "missing-key")>>,
        <<"key/not-p256", Put(other, "requests", "request-view", "by", "other-curve")>>,
        <<"receipt/signer-role-mismatch", Put(Base, "receipts", "r1", "role", "outcome_observer")>>,
        <<"credential/kid-key-mismatch", Agent(LAMBDA c : [c EXCEPT !.key = "other-key"])>>,
        <<"credential/usage-mismatch", Agent(LAMBDA c : [c EXCEPT !.usage = "ep_signing"])>>,
        <<"credential/not-yet-valid", RootBetween(Base.eval + 1, 30 * Day)>>,
        <<"credential/expired", RootBetween(-Day, 1)>> >>)

-----------------------------------------------------------------------------
\* Steps 7 to 11

ContentFixtures ==
    Coded(7, <<
        <<"hash/mismatch", Broken(Base, "receipts", "r1", "conclusion")>>,
        <<"request/commitment-mismatch",
          On(Base, "receipts", "r0", LAMBDA r : [r EXCEPT !.root.commitment = "wrong-commitment"])>>,
        <<"request/coordinate-mismatch",
          DivergeRequest(Base, LAMBDA q : [q EXCEPT !.target = "verifier_signing", !.peer = "verifier_signing"])>>,
        <<"bundle/dependency-missing", [Base EXCEPT !.requests = <<>>]>>,
        <<"manifest/media-type-mismatch", [Base EXCEPT !.payloads[1].media = "application/octet-stream"]>>,
        <<"identity/receipt-id-mismatch", Broken(Base, "receipts", "r0", "id")>>,
        <<"identity/artifact-id-mismatch", Broken(Base, "delegations", "delegation-view", "id")>> >>)
    \o Coded(9, << <<"identity/coordinate-equivocation", Put(Base, "receipts", "r1", "iseq", Receipts[1].iseq)>> >>)

SemanticFixtures ==
    LET Changed(id, F(_)) == On(Base, "receipts", id, LAMBDA r : [r EXCEPT !.body = F(@)])
    IN Coded(10, <<
        <<"receipt/kind-body-mismatch",
          Changed("r1", LAMBDA body : [body EXCEPT !.shape = "observation", !.manifests = <<>>])>>,
        <<"receipt/manifest-inconsistent", Changed("r0", LAMBDA body : [body EXCEPT !.items[1].ordinal = 1])>>,
        <<"receipt/consumption-ref-unresolved", Body(Base, "r1", "consumption", "unresolved-consumption")>>,
        <<"receipt/decision-presentation", Body(Base, "r2", "presentation", None)>>,
        <<"receipt/attempt-disposition", Body(Base, "r7", "refusal", "unexpected")>>,
        <<"receipt/action-command-mismatch",
          Changed("r6", LAMBDA body : [body EXCEPT !.action.name = "camera.ptz.preset"])>>,
        <<"receipt/dispatch-attempt-mismatch", Body(Base, "r8", "attempt", "wrong-attempt")>>,
        <<"receipt/outcome-subject-mismatch", Body(Base, "r9", "subject", "wrong-subject")>> >>)

LifecycleFixtures ==
    LET Stapled(F(_)) == On(Base, "statuses", "status-good", F)
        eval == Base.eval
        second == Credential(<<"verifier_signing", "verifier">>)
        reused == [Base EXCEPT !.credentials = @ \o
                      << [second EXCEPT !.id = CredentialId("reuse:agent"), !.role = "agent"],
                         [second EXCEPT !.id = CredentialId("reuse:ep"), !.role = "enforcement_point"] >>]
    IN Coded(8, <<
        <<"credential/root-not-accepted", [Base EXCEPT !.roots[1].kid = "unaccepted-root"]>>,
        <<"credential/path-invalid",
          Put(Base, "credentials", CredentialId("verifier_signing"), "path", <<CredentialId("missing")>>)>>,
        <<"credential/status-missing", [Base EXCEPT !.statuses = <<>>]>>,
        <<"credential/status-stale", Stapled(LAMBDA s : [s EXCEPT !.at = eval - Minutes - 1])>>,
        <<"credential/revoked", Stapled(LAMBDA s : RevokedBeforeUse(Base, s))>>,
        <<"credential/compromised", Stapled(LAMBDA s : CompromisedBeforeUse(Base, s))>>,
        <<"credential/status-unknown", Stapled(LAMBDA s : [s EXCEPT !.status = "unknown"])>>,
        <<"credential/lease-too-long", Stapled(LAMBDA s : [s EXCEPT !.leaseUntil = s.leaseFrom + Hour + 1])>>,
        <<"credential/lease-expired",
          Stapled(LAMBDA s : [s EXCEPT !.leaseUntil = eval, !.next = eval + 100, !.at = eval - 1])>>,
        <<"credential/rotation-invalid", Put(Base, "rotations", "rotation-agent", "predecessorKid", "wrong-kid")>>,
        <<"credential/rotation-rollback", AddRotation(Base, LAMBDA r : [r EXCEPT !.effective = @ + 1])>>,
        <<"credential/role-key-reuse", reused>> >>)

ReplayFixtures ==
    LET First(member, value) == Put(Base, "receipts", "r0", member, value)
    IN Coded(11, <<
        <<"replay/not-yet-valid", First("issued", Receipts[1].at + 1)>>,
        <<"replay/expired", First("expires", Receipts[1].at)>>,
        <<"replay/parent-binding", Put(Base, "receipts", "r8", "intended", <<>>)>>,
        <<"replay/invocation-mismatch", Put(Base, "receipts", "r8", "invocation", "different-invocation")>>,
        <<"replay/one-time-reused",
          Put(First("use", "one_time"), "receipts", "r1", "use", "one_time")>> >>)

-----------------------------------------------------------------------------
\* Steps 12 and 13

\* A chain of observations, each derived from the one before it; as many roots.
Chain(n) ==
    [i \in 1 .. n |->
        [Receipts[1] EXCEPT !.id = <<"chain", i>>, !.eseq = i, !.iseq = 10000 + i, !.at = 100 + i,
             !.root = IF i = 1 THEN Receipts[1].root ELSE None,
             !.parents = IF i = 1 THEN <<>> ELSE <<Edge(<<"chain", i - 1>>, "observation", "derived_from")>>,
             !.intended = IF i = 1 THEN <<>> ELSE <<<<"chain", i - 1>>>>]] \o <<>>

Abreast(n) ==
    [i \in 1 .. n |-> [Receipts[1] EXCEPT !.id = <<"root", i>>, !.eseq = i, !.iseq = 20000 + i, !.at = 100 + i]] \o <<>>

GraphFixtures ==
    LET observing == KeepReceipts(ClearJournal(Base), LAMBDA r : r.kind = "observation")
        Child(F(_)) == On(observing, "receipts", "r3", F)
        ParentEdge(member, value) == Child(LAMBDA r : [r EXCEPT !.parents[1][member] = value])
        nowhere == [manifest |-> "missing-manifest", anchor |-> "missing-anchor", reason |-> "historical_evidence"]
    IN Coded(12, <<
        <<"resource/dag-depth", [ClearJournal(Base) EXCEPT !.receipts = Chain(DagDepth + 1)]>>,
        <<"resource/dag-width", [ClearJournal(Base) EXCEPT !.receipts = Abreast(DagWidth + 1)]>>,
        <<"graph/dangling-parent",
          Child(LAMBDA r : [r EXCEPT !.parents[1].parent = "dangling", !.intended = <<"dangling">>])>>,
        <<"graph/parent-metadata-mismatch", ParentEdge("kind", "inference")>>,
        <<"graph/edge-illegal", ParentEdge("type", "attempted_as")>>,
        <<"graph/root-missing",
          Put(KeepReceipts(observing, LAMBDA r : r.root # None), "receipts", "r0", "root", None)>>,
        <<"graph/root-forbidden", Child(LAMBDA r : [r EXCEPT !.root = Root("human_request", "forbidden", "forbidden")])>>,
        <<"graph/tenant-site-splice", Child(LAMBDA r : [r EXCEPT !.tenant = "spliced"])>>,
        <<"graph/cross-epoch-forbidden", Child(LAMBDA r : [r EXCEPT !.epoch = 43])>>,
        <<"graph/cross-epoch-unanchored",
          Child(LAMBDA r : [r EXCEPT !.epoch = 43, !.parents[1].cross = nowhere])>> >>)

DominatorFixtures ==
    LET Flow(F(_)) == UpdateAttemptFlow(ClearJournal(Base), F)
        Delegated(F(_)) == MutateEmbeddedDelegation(Base, F)
        otherwise == Flow(LAMBDA r : [r EXCEPT !.body.authorization = "r2"])
    IN Coded(13, <<
        <<"graph/dominator-missing",
          Flow(LAMBDA r : [r EXCEPT !.parents = <<Edge("r4", "inference", "triggered_by")>>])>>,
        <<"graph/dominator-ambiguous",
          Flow(LAMBDA r : [r EXCEPT !.parents = Append(@, Edge("r2", "authorization", "authorized_by"))])>>,
        <<"delegation/not-yet-valid", Delegated(LAMBDA d : [d EXCEPT !.from = d.until - 1])>>,
        <<"delegation/expired", Delegated(LAMBDA d : [d EXCEPT !.until = 1])>>,
        <<"delegation/scope", Delegated(LAMBDA d : [d EXCEPT !.scope.actions = {"camera.ptz.preset"}])>>,
        <<"delegation/chain-invalid", Delegated(LAMBDA d : [d EXCEPT !.parents = <<"missing-parent">>])>> >>)
    \o <<Fixture("graph-dominator-wrong-attempt-authorization", "graph/dominator-missing", 13, otherwise)>>

-----------------------------------------------------------------------------
\* Steps 14 to 19

EpochFixtures ==
    LET OpenAndClose == [Base EXCEPT !.events = SubSeq(@, 1, 2), !.anchors = <<>>]
        CloseBody(F(_)) == On(OpenAndClose, "events", "close", LAMBDA e : [e EXCEPT !.body = F(@)])
    IN Coded(14, <<
        <<"epoch/event-chain", Put(Base, "events", "close", "previous", "broken-chain")>>,
        <<"epoch/open-close", [Base EXCEPT !.events = SubSeq(@, 1, 1), !.anchors = <<>>]>>,
        <<"epoch/duration-exceeded", RebuildEventChain(Put(OpenAndClose, "events", "close", "at", Day + 1), Manifest42)>>,
        <<"epoch/span-count-mismatch", CloseBody(LAMBDA body : [body EXCEPT !.count = 9])>>,
        <<"epoch/anchor-deadline", CloseBody(LAMBDA body : [body EXCEPT !.deadline = @ + 1])>>,
        <<"epoch/late-insertion",
          RebuildManifest(Base, LAMBDA m : [m EXCEPT !.closed = 48, !.deadline = 48 + Day], FALSE)>>,
        <<"epoch/fork",
          [Base EXCEPT !.manifests = Append(@, [@[1] EXCEPT !.id = "manifest-forked", !.reason = "size"]),
                       !.anchors = <<>>]>>,
        <<"epoch/id-nonmonotonic", AddSecondEpoch(Base, 41, Manifest42.id)>>,
        <<"epoch/predecessor-mismatch", AddSecondEpoch(Base, 43, "wrong-predecessor")>> >>)

IndexFixtures ==
    LET Entries15(F(_)) == RebuildManifest(Base, LAMBDA m : [m EXCEPT !.index.entries = F(@)], FALSE)
    IN Coded(15, <<
        <<"manifest/index-order", Entries15(LAMBDA s : <<s[2], s[1]>> \o SubSeq(s, 3, Len(s)))>>,
        <<"manifest/index-gap", Entries15(LAMBDA s : [s EXCEPT ![2].leaf = 2])>>,
        <<"manifest/index-duplicate", Entries15(LAMBDA s : [s EXCEPT ![2].eseq = s[1].eseq])>>,
        <<"manifest/index-receipt-mismatch", Entries15(LAMBDA s : [s EXCEPT ![1].kind = "dispatch"])>>,
        <<"manifest/index-root-mismatch",
          RebuildManifest(Base, LAMBDA m : [m EXCEPT !.index.root = Flipped], FALSE)>> >>)

\* The same item at both places of a batch of two.
DuplicateLeaf ==
    LET LeafAt(i) == [MerkleLeaf(2) EXCEPT !.size = 2, !.index = i - 1]
        hashes == Mapped(<<1, 2>>, LAMBDA i : Leaf(LeafAt(i)))
        proofs == Mapped(<<1, 2>>, LAMBDA i :
            [batch |-> "batch", size |-> 2, index |-> i - 1, leaf |-> LeafAt(i),
             siblings |-> PromotedProof(hashes, i - 1)])
    IN [MutateMerkleBatch(Base, LAMBDA m : [m EXCEPT !.size = 2, !.root = PromotedRoot(hashes)])
           EXCEPT !.proofs = proofs]

MerkleFixtures ==
    Coded(16, << <<"merkle/batch-binding", [Base EXCEPT !.proofs[1].leaf.epoch = 43]>>,
                 <<"merkle/duplicate-leaf", DuplicateLeaf>>,
                 <<"merkle/path-length", [Base EXCEPT !.proofs[1].siblings = <<>>]>>,
                 <<"merkle/root-mismatch", [Base EXCEPT !.proofs[1].siblings[1] = Flipped]>> >>)

AnchorFixtures ==
    LET Anchored(F(_)) == On(Base, "anchors", "anchor", F)
        rebound == RebindAnchor(Base.anchors[1], Manifest42, 43)
        Expected(member, value) == [Base EXCEPT !.heads[1][member] = value]
    IN Coded(17, <<
        <<"anchor/target-unplanned", Anchored(LAMBDA a : [a EXCEPT !.target.id = "unplanned"])>>,
        <<"anchor/manifest-binding", [Base EXCEPT !.anchors = <<rebound>>, !.heads[1].root = rebound.root]>>,
        <<"anchor/inclusion-invalid", Anchored(LAMBDA a : [a EXCEPT !.inclusion.leaf = Flipped])>>,
        <<"anchor/consistency-invalid", Anchored(LAMBDA a : [a EXCEPT !.consistency.path[1] = Flipped])>>,
        <<"anchor/submission-late", Anchored(LAMBDA a : [a EXCEPT !.submitted = Manifest42.closed + Day + 1])>>,
        <<"anchor/head-missing", Expected("target", "other-target")>>,
        <<"anchor/head-mismatch", Expected("root", Flipped)>>,
        <<"anchor/head-stale", Expected("observed", Base.eval - Day - 1)>>,
        <<"anchor/independence-invalid",
          RebuildManifest(Base, LAMBDA m : [m EXCEPT !.groups[1].operator = "mismatched"], TRUE)>> >>)

RangeFixtures ==
    LET complete == MakeCompleteRange(Base)
        Ranged(F(_)) == [complete EXCEPT !.ranges[1] = F(@)]
        dispatches == [Base EXCEPT !.selector.kinds = {"dispatch"}, !.selector.subjects = None,
                                   !.selector.correlations = None]
    IN Coded(18, <<
        <<"bundle/selector-interval", [Base EXCEPT !.selector.until = Base.selector.from]>>,
        <<"bundle/range-manifest-missing", Ranged(LAMBDA r : [r EXCEPT !.manifest = "missing"])>>,
        <<"bundle/range-selector-mismatch", Ranged(LAMBDA r : [r EXCEPT !.commitment = "wrong-selector"])>>,
        <<"bundle/range-noncontiguous",
          Ranged(LAMBDA r : [r EXCEPT !.entries[2].entry.leaf = r.entries[1].entry.leaf])>>,
        <<"bundle/range-boundary", Ranged(LAMBDA r : [r EXCEPT !.entries = Front(@)])>>,
        <<"bundle/range-proof-invalid", Ranged(LAMBDA r : [r EXCEPT !.entries[1].siblings[1] = Flipped])>>,
        <<"bundle/selected-receipt-missing", KeepReceipts(complete, LAMBDA r : r.id # "r6")>>,
        <<"bundle/coverage-overclaim", [Base EXCEPT !.coverage = "complete"]>>,
        <<"bundle/artifact-out-of-scope", MakeCompleteRange(dispatches)>> >>)

\* The root inference alone, and without a journal.
InferenceOnly(b, F(_)) == On(KeepReceipts(ClearJournal(b), LAMBDA r : r.id = "r1"), "receipts", "r1", F)

EvidenceFixtures ==
    LET sensed == Put(ClearJournal(Base), "receipts", "r9", "outcome",
                      [level |-> "independently_sensed", predicate |-> None])
        qualified == On(AddOpaquePayload(sensed, "qualification"), "receipts", "r9",
                        LAMBDA r : [r EXCEPT !.outcome.predicate = "qualification"])
    IN Coded(19, <<
        <<"manifest/payload-missing",
          InferenceOnly(Base, LAMBDA r : [r EXCEPT !.time = [@ EXCEPT !.class = "boot_bound", !.boot = "missing"]])>>,
        <<"evidence/time-class-unsatisfied", InferenceOnly(Base, LAMBDA r : [r EXCEPT !.time.class = "boot_bound"])>>,
        <<"evidence/provenance-class-unsatisfied",
          InferenceOnly(Base, LAMBDA r : [r EXCEPT !.provenance.class = "proxy_captured"])>>,
        <<"evidence/outcome-class-unsatisfied", sensed>>,
        <<"evidence/observer-not-independent", qualified>> >>)

CodeFixtures ==
    ResourceFixtures \o CborFixtures \o SchemaCodes \o CoseFixtures \o KeyFixtures \o ContentFixtures
    \o SemanticFixtures \o LifecycleFixtures \o ReplayFixtures \o GraphFixtures \o DominatorFixtures
    \o EpochFixtures \o IndexFixtures \o MerkleFixtures \o AnchorFixtures \o RangeFixtures \o EvidenceFixtures
=============================================================================

-------------------------------- MODULE CorpusD82 --------------------------------
(***************************************************************************)
(* The repair fixtures of decision D-82: the order of the checks inside a  *)
(* step, cross-epoch edges and delegation chains, members that are present *)
(* but null or of another type, and proofs that are judged before what     *)
(* they are about.                                                         *)
(***************************************************************************)
EXTENDS CorpusConformant

Journalless == ClearJournal(Base)

Roots(b) == KeepReceipts(b, LAMBDA r : r.parents = <<>>)
Observations(b) == KeepReceipts(b, LAMBDA r : r.kind = "observation")

FirstSignature(b) == FlipSignature(b, "credentials", RootId)

\* The delegation embedded in the decision names one that is carried, edited.
ChainRepair(F(_)) ==
    Under(AddTopLevelDelegation(Base, LAMBDA d : [F(d) EXCEPT !.id = "parent"]), <<"parent">>)

\* Step order: arrays before envelopes, each envelope to its end before the next.
OrderRepairs ==
    LET cut == MutatePresentation(Base, LAMBDA p : [p EXCEPT !.broken = {"id"}])
        swapped == [cut EXCEPT !.receipts = <<@[1], @[3], @[2]>> \o SubSeq(@, 4, Len(@))]
    IN Table(<<
        <<"repair-d82-order-before-signature", "schema/unsorted-set", 3,
          FirstSignature(Wrong(Base, "receipts", "id_order"))>>,
        <<"repair-d82-sig-before-later-origins", "sig/verify-failed", 6,
          Malformed(FirstSignature(Base), "receipts", "r1", "origins", "type")>>,
        <<"repair-d82-embedded-delegation-before-later-receipt", "schema/enum-unknown", 6,
          FlipSignature(EmbedIn(Base, "r2", LAMBDA d : Wrong(d, "use", "value")), "receipts", "r3")>>,
        <<"repair-d82-step7-receipt-hash-before-presentation-id", "hash/mismatch", 7,
          Broken(cut, "receipts", "r2", "decision")>>,
        <<"repair-d82-step7-presentation-id-before-later-receipt", "identity/artifact-id-mismatch", 7,
          Broken(swapped, "receipts", "r1", "conclusion")>>,
        <<"repair-d82-presentation-id-mismatch", "identity/artifact-id-mismatch", 7, cut>>,
        <<"repair-d82-graph-dangling-before-root-missing", "graph/dangling-parent", 12,
          On(Put(Observations(Journalless), "receipts", "r0", "root", None), "receipts", "r3",
             LAMBDA r : [r EXCEPT !.parents[1].parent = "uncarried", !.intended = <<"uncarried">>])>>,
        <<"repair-d82-graph-root-order-artifact", "graph/root-forbidden", 12,
          LET b == KeepReceipts(Roots(Journalless), LAMBDA r : r.kind # "authorization")
          IN [b EXCEPT !.receipts = <<[@[2] EXCEPT !.root.kind = "standing_condition_trigger"],
                                      [@[1] EXCEPT !.root = None]>>]>> >>)

\* Outcomes, edges between epochs, insertion into an epoch, its chain of events.
GraphRepairs ==
    LET Outcome(F(_)) == On(Base, "receipts", "r9", LAMBDA r : IntendParents([r EXCEPT !.parents = F(@)]))
        other == "manifest-other"
        outsider == IssuedByRoot(Base, Outsider, Outsider, "ep_signing")
        branch == [Base.events[2] EXCEPT !.id = "branch", !.previous = "uncarried"]
        Derived(F(_)) == On(Base, "receipts", "r3", F)
        forbidden == "graph/cross-epoch-forbidden"
        unanchored == "graph/cross-epoch-unanchored"
        subject == "receipt/outcome-subject-mismatch"
    IN Table(<<
        <<"receipt-outcome-no-subject-edge", subject, 10,
          Outcome(LAMBDA edges : <<Edge("r3", "observation", "supports")>>)>>,
        <<"receipt-outcome-two-subject-edges", subject, 10,
          Outcome(LAMBDA edges : Append(edges, Edge("r7", "action_attempt", "observed_outcome")))>>,
        <<"graph-cross-epoch-wrong-epoch-manifest", unanchored, 12,
          CrossEpochChild(AddManifestWithAnchor(Base, 41, "ep_signing"), other, "anchor-other")>>,
        <<"graph-cross-epoch-same-number-other-owner", unanchored, 12,
          CrossEpochChild(AddManifestWithAnchor(outsider, 42, Outsider), other, "anchor-other")>>,
        <<"graph-cross-epoch-reason-not-text", forbidden, 12,
          On(CrossEpochChild(Base, "manifest-42", "anchor"), "receipts", "r3",
             LAMBDA r : [r EXCEPT !.parents[1].cross.reason = Null])>>,
        <<"repair-d82-cross-epoch-null", forbidden, 12, Derived(LAMBDA r : [r EXCEPT !.parents[1].cross = Null])>>,
        <<"repair-d82-root-null-with-parents", "graph/root-forbidden", 12,
          Derived(LAMBDA r : [r EXCEPT !.root = Root(Null, None, None)])>>,
        <<"repair-d82-edge-type-constructor", "graph/edge-illegal", 12,
          Derived(LAMBDA r : [r EXCEPT !.parents[1].type = "constructor"])>>,
        <<"repair-d82-late-for-epoch-equal", "epoch/late-insertion", 14,
          Put(Journalless, "receipts", "r9", "late", Epoch)>>,
        <<"repair-d82-branching-chain", "epoch/event-chain", 14, Add(Base, "events", branch)>>,
        <<"epoch-manifest-duration-exceeded", "epoch/duration-exceeded", 14,
          RebuildManifest(Base, LAMBDA m : [m EXCEPT !.opened = @ - 200000], TRUE)>>,
        <<"repair-d82-epoch-coordinate-equivocation", "identity/coordinate-equivocation", 9,
          Add(Journalless, "receipts", [Receipts[1] EXCEPT !.id = "r10", !.iseq = @ + 1000])>> >>)

\* What a delegation contains, up its chain and down to the attempt.
DelegationRepairs ==
    LET invalid == "delegation/chain-invalid"
        scope == "delegation/scope"
        Scope(F(_)) == MutateEmbeddedDelegation(Base, LAMBDA d : [d EXCEPT !.scope = F(@)])
        \* A scope that is no map of arrays of text contains nothing.
        nothing == [name \in DOMAIN DelegationView.scope |-> {}]
        Attempt7(b, purpose) == Put(b, "receipts", "r7", "purpose", purpose)
        Decision5(b, profile) == On(b, "receipts", "r5", LAMBDA r : [r EXCEPT !.body.decision.profile = profile])
        nullInvocation ==
            AddTopLevelDelegation(Base, LAMBDA d : [Wider(d, "parent", 100) EXCEPT !.invocation = Null])
    IN Table(<<
        <<"repair-d82-chain-scope-widened", invalid, 13,
          ChainRepair(LAMBDA d : [d EXCEPT !.scope.actions = {"camera.ptz.preset"}])>>,
        <<"repair-d82-chain-grandparent-missing", invalid, 13,
          ChainRepair(LAMBDA d : [d EXCEPT !.parents = <<"missing-grandparent">>])>>,
        <<"repair-d82-chain-use-widened", invalid, 13, ChainRepair(LAMBDA d : [d EXCEPT !.use = "one_time"])>>,
        <<"repair-d82-parent-delegation-invocation-null", invalid, 13,
          MutateEmbeddedDelegation(nullInvocation, LAMBDA d : [d EXCEPT !.parents = <<"parent">>,
                                                                        !.invocation = None])>>,
        <<"repair-d82-delegation-scope-not-map", scope, 13, Scope(LAMBDA s : nothing)>>,
        <<"repair-d82-delegation-scope-actions-not-array", scope, 13,
          Scope(LAMBDA s : [s EXCEPT !.actions = {}])>>,
        <<"repair-d82-delegation-scope-null", scope, 13, Scope(LAMBDA s : nothing)>>,
        <<"repair-d82-scope-mixed-keys", scope, 13, Scope(LAMBDA s : nothing)>>,
        <<"repair-d82-attempt-legal-not-map", scope, 13, Attempt7(Base, None)>>,
        <<"repair-d82-decision-profile-missing", scope, 13, Decision5(Base, None)>>,
        <<"repair-d82-scope-purpose-null-contained", scope, 13,
          Attempt7(Scope(LAMBDA s : [s EXCEPT !.purposes = {}]), Null)>>,
        <<"repair-d82-scope-profile-int-contained", scope, 13,
          Decision5(Scope(LAMBDA s : [s EXCEPT !.profiles = {}]), Null)>> >>)

\* An envelope, and a reference that resolves to nothing.
EnvelopeRepairs ==
    LET Cose(place, defect) == Malformed(Base, "credentials", RootId, place, defect)
        Embedded(member) == On(Base, "receipts", "r2", LAMBDA r :
                                [r EXCEPT !.body[member] = Wrong(@, "entry", "type")])
        Presented(F(_)) == MutatePresentation(Base, LAMBDA p : [p EXCEPT !.artifacts = F(@)])
        typed == "schema/bad-type"
        inconsistent == "receipt/manifest-inconsistent"
        Observer(F(_)) == On(Journalless, "receipts", "r0", LAMBDA r : F(r))
        Rootless(kind) == [Roots(Journalless) EXCEPT !.receipts[1].root.kind = kind]
    IN Table(<<
        <<"repair-d82-presentation-null", typed, 6, Embedded("presentation")>>,
        <<"repair-d82-delegation-null", typed, 6, Embedded("delegation")>>,
        <<"repair-d82-credential-envelope-three-elements", typed, 6, Cose("entry", "type")>>,
        <<"repair-d82-cose-protected-empty-map", "cose/alg-missing", 6, Cose("alg", "absent")>>,
        <<"repair-d82-cose-protected-undecodable", "cose/protected-not-map", 6, Cose("protected", "malformed")>>,
        <<"repair-d82-sig-r-at-order", "sig/verify-failed", 6, FirstSignature(Base)>>,
        <<"repair-d82-cose-unprotected-text-label", "cose/unprotected-not-empty", 6, Cose("unprotected", "label")>>,
        <<"repair-d82-cose-truncated", "cbor/malformed", 6, Cose("cose", "malformed")>>,
        <<"repair-d82-cose-nested-tag", "cbor/tag-forbidden", 6, Cose("cose", "tag")>>,
        <<"repair-d82-payload-depth-33", "resource/cbor-depth", 6,
          Malformed(Base, "receipts", "r0", "payload", "depth")>>,
        <<"repair-d82-root-not-map", "graph/root-missing", 12,
          [Roots(Journalless) EXCEPT !.receipts[1].root = None]>>,
        <<"repair-d82-root-kind-missing", "graph/root-forbidden", 12, Rootless(None)>>,
        <<"repair-d82-root-kind-list", "graph/root-forbidden", 12, Rootless(Null)>>,
        <<"repair-d82-root-kind-constructor", "graph/root-forbidden", 12, Rootless("constructor")>>,
        <<"repair-d82-issuer-role-list", "receipt/signer-role-mismatch", 6,
          Put(Base, "receipts", "r9", "role", Null)>>,
        <<"repair-d82-credential-path-member-not-bytes", "credential/path-invalid", 8,
          Put(Base, "credentials", CredentialId("verifier_signing"), "path", <<CredentialId("unknown")>>)>>,
        <<"repair-d82-rotation-successor-id-not-bytes", "credential/rotation-invalid", 8,
          Put(Base, "rotations", "rotation-agent", "successor", CredentialId("unknown"))>>,
        <<"repair-d82-status-credential-id-not-bytes", "credential/status-missing", 8,
          AddStatusSnapshot(Base, LAMBDA s : [s EXCEPT !.credential = CredentialId("unknown")])>>,
        <<"repair-d82-status-snapshot-id-member-not-bytes", "credential/status-missing", 8,
          On(Base, "receipts", "r5", LAMBDA r : [r EXCEPT !.body.decision.statuses = {Null}])>>,
        <<"repair-d82-presentation-artifacts-ordinals", inconsistent, 10,
          Presented(LAMBDA s : <<[ordinal |-> 1], [ordinal |-> 0]>>)>>,
        <<"repair-d82-presentation-artifacts-item-not-map", inconsistent, 10,
          Presented(LAMBDA s : <<[ordinal |-> None]>>)>>,
        <<"repair-d82-presentation-ordinal-bool", inconsistent, 10,
          Presented(LAMBDA s : <<[ordinal |-> None]>>)>>,
        <<"repair-d82-provenance-on-observation", "evidence/provenance-class-unsatisfied", 10,
          Observer(LAMBDA r : [r EXCEPT !.provenance = [class |-> "self_asserted", capture |-> None, provider |-> None]])>>,
        <<"repair-d82-outcome-label-on-wrong-kind", "evidence/outcome-class-unsatisfied", 10,
          Observer(LAMBDA r : [r EXCEPT !.outcome = [level |-> "unknown", predicate |-> None]])>>,
        <<"repair-d82-outcome-level-wrong-kind", "evidence/outcome-class-unsatisfied", 10,
          On(Base, "receipts", "r7", LAMBDA r : [r EXCEPT !.outcome.level = "dispatched"])>>,
        <<"repair-d82-degraded-null", "receipt/attempt-disposition", 10,
          On(Base, "receipts", "r7", LAMBDA r : [r EXCEPT !.body.degraded = Null])>>,
        <<"repair-d82-hazard-class-null", "schema/enum-unknown", 10,
          On(Base, "receipts", "r7", LAMBDA r : [r EXCEPT !.body.action.hazard = Null])>>,
        <<"repair-d82-manifest-byte-length-mismatch", "hash/mismatch", 7,
          On(Base, "receipts", "r1", LAMBDA r : [r EXCEPT !.body.manifests[1].length = @ + 1])>>,
        <<"repair-d82-attestation-id-31-bytes", "evidence/time-class-unsatisfied", 19,
          [KeepReceipts(Journalless, LAMBDA r : r.id = "r1") EXCEPT !.receipts[1].time.class = "boot_bound"]>>
        >>)

\* Epochs, anchors, proofs and ranges.
ProofRepairs ==
    LET Closed(F(_)) == RelinkEventChain(On(Base, "events", "close", LAMBDA e : [e EXCEPT !.body = F(@)]))
        span == "epoch/span-count-mismatch"
        Predecessor(value) == RebuildManifest(Base, LAMBDA m : [m EXCEPT !.predecessor = value], TRUE)
        Anchored(F(_)) == On(Base, "anchors", "anchor", F)
        unrelated == Flipped
        complete == MakeCompleteRange(Base)
        first == complete.ranges[1].entries[1]
        early == Receipt(777, "r10", "observation", "agent_signing", <<>>,
                         Root("human_request", "request-extra", "human-request-extra"), Seen)
        head == "anchor/head-mismatch"
        typed == "schema/bad-type"
        later == MakeCompleteRange([Base EXCEPT !.selector.from = 101])
    IN Table(<<
        <<"repair-d82-close-manifest-id-missing", span, 14, Closed(LAMBDA body : [body EXCEPT !.manifest = None])>>,
        <<"repair-d82-close-item-count-list", span, 14, Closed(LAMBDA body : [body EXCEPT !.count = None])>>,
        <<"repair-d82-open-first-seq-mismatch", span, 14,
          On(Base, "events", "open", LAMBDA e : [e EXCEPT !.body.first = @ + 1])>>,
        <<"repair-d82-event0-previous-null", "epoch/event-chain", 14,
          Put(Base, "events", "open", "previous", Null)>>,
        <<"repair-d82-manifest-predecessor-null", "epoch/predecessor-mismatch", 14, Predecessor(Null)>>,
        <<"repair-d82-manifest-predecessor-not-bytes", "epoch/predecessor-mismatch", 14, Predecessor(Null)>>,
        <<"repair-d82-merkle-batch-id-not-bytes", typed, 3, Wrong(Base, "proof.batch", "type")>>,
        <<"repair-d82-range-manifest-id-missing", "schema/missing-field", 3,
          Wrong(complete, "range.manifest", "missing")>>,
        <<"repair-d82-selector-kinds-duplicate-unsorted", "schema/unsorted-set", 3,
          Wrong(Base, "selector.kinds", "order")>>,
        <<"repair-d82-trust-inputs-missing", "schema/missing-field", 3, Wrong(Base, "trust", "missing")>>,
        <<"repair-d82-trust-snapshot-zero", "schema/out-of-range", 5, Wrong(Base, "store.snapshot", "zero")>>,
        <<"repair-d82-anchor-manifest-id-not-bytes", "anchor/target-unplanned", 17,
          Anchored(LAMBDA a : [a EXCEPT !.manifest = Null])>>,
        <<"repair-d82-anchor-target-id-int-planned", "anchor/target-unplanned", 17,
          On(RebuildManifest(Base, LAMBDA m : [m EXCEPT !.targets[1].id = Null], TRUE), "anchors", "anchor",
             LAMBDA a : [a EXCEPT !.target.id = Null])>>,
        <<"repair-d82-anchor-consistency-null", typed, 6, Malformed(Base, "anchors", "anchor", "consistency", "type")>>,
        <<"repair-d82-anchor-consistency-unrelated", "anchor/consistency-invalid", 17,
          Anchored(LAMBDA a : [a EXCEPT !.consistency = [oldSize |-> 1, newSize |-> 1, oldRoot |-> unrelated,
                                                         newRoot |-> unrelated, path |-> <<>>]])>>,
        <<"repair-d82-anchor-head-root-changed", head, 17,
          Anchored(LAMBDA a : [a EXCEPT !.head.root = unrelated])>>,
        <<"repair-d82-expected-head-larger-same-root", head, 17, [Base EXCEPT !.heads[1].size = @ + 1]>>,
        <<"repair-d82-range-boundary-proof-invalid", "bundle/range-proof-invalid", 18,
          [complete EXCEPT !.ranges[1].left = [first EXCEPT !.entry.iseq = @ + 1]]>>,
        <<"repair-d82-range-boundary-mismatch-and-bad-proof", "bundle/range-proof-invalid", 18,
          [complete EXCEPT !.ranges[1].entries = [Front(@) EXCEPT ![1].index = 999]]>>,
        <<"repair-d82-merkle-path-length-impossible", "merkle/path-length", 16,
          [Base EXCEPT !.proofs[1].siblings = Append(@, Flipped)]>>,
        <<"repair-d82-complete-extra-unindexed-receipt", "manifest/receipt-unindexed", 15,
          Add(complete, "receipts", [early EXCEPT !.iseq = 7777, !.at = -1, !.issued = -2])>>,
        <<"repair-d82-range-below-previous-range", "bundle/range-noncontiguous", 18,
          LET bad == IndexProofs(later.manifests[1])[1]
          IN [later EXCEPT !.ranges = Append(@, [@[1] EXCEPT !.first = 0,
                               !.entries = <<[bad EXCEPT !.siblings[1] = Flipped]>>])]>>,
        <<"repair-d82-verifier-key-not-found", "key/not-found", 20,
          Without(Base, "credentials", CredentialId("verifier_signing"))>> >>)

D82Repairs == OrderRepairs \o GraphRepairs \o DelegationRepairs \o EnvelopeRepairs \o ProofRepairs
=============================================================================

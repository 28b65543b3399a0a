---------------------------- MODULE CorpusConformant ----------------------------
(***************************************************************************)
(* The fixtures that the harness holds to be conformant: keys that expire  *)
(* or are revoked after their last use, delegation chains, subsets without *)
(* receipts, anchors newer than expected, mediator countersignatures.      *)
(***************************************************************************)
EXTENDS Edits

\* baseBundle()
Base == ValidSubset

RootId == CredentialId("credential_issuing")

\* A further key under the root.
IssuedByRoot(b, id, key, usage) ==
    D77Credential(b, CredentialId(id), key, usage, "credential_issuing", <<RootId>>, "credential_issuing")

\* The receipt-only outcome key expires after its receipt; an approval is presented in
\* a session of the enforcement point and signed with its key.
InSession(presentation, by) ==
    [presentation EXCEPT !.mode = "ep_authenticated_session", !.by = by]

D77PositiveFixtures ==
    LET expired == Put(Base, "credentials", CredentialId("outcome_signing"), "until", Base.eval - 1)
        session == D77Authorization(Base, LAMBDA body :
                       [body EXCEPT !.presentation = InSession(@, "ep_signing")])
    IN << Conformant("repair-d77-receipt-signed-before-expiry", expired),
          Conformant("repair-d77-presentation-ep-session-positive",
                     Add(session, "receipts", Find(Receipts, "r1"))) >>

\* A second site rotates its own keys with the sequence number of the first.
RotationOfTwoSites ==
    LET second == "second-site"
        allowed == [Base EXCEPT !.roots[1].sites = @ \cup {second}]
        At(b, id, key) == On(IssuedByRoot(b, id, key, "agent_signing"), "credentials", CredentialId(id),
                             LAMBDA c : [c EXCEPT !.site = second])
    IN AddRotation(At(At(allowed, Outsider, Outsider), "d77_leaf", "d77_leaf"), LAMBDA r :
           [r EXCEPT !.predecessor = CredentialId(Outsider), !.predecessorKid = Outsider,
                     !.successor = CredentialId("d77_leaf"), !.successorKid = "d77_leaf", !.site = second])

D80D81PositiveFixtures ==
    LET AfterLastUse(status) ==
            AddStatusSnapshot(Base, LAMBDA s :
                [s EXCEPT !.status = status, !.instant = Max(UseTimes(Base, "ep_signing")) + 1])
    IN << Conformant("d80-rotation-two-sites-same-seq", RotationOfTwoSites),
          Conformant("d80-root-rotation", D80RootRotation(Base, TRUE)),
          Conformant("d81-status-revoked-after-last-use", AfterLastUse("revoked")),
          Conformant("d81-status-compromised-after-last-use", AfterLastUse("compromised")),
          Conformant("d81-status-revoked-key-unused", AddStatusSnapshot(Base, LAMBDA s :
              [s EXCEPT !.status = "revoked", !.instant = s.at,
                        !.credential = CredentialId("agent_signing_successor")])),
          Conformant("d81-anchor-credential-expired-after-use",
                     Put(Base, "credentials", CredentialId("anchor_signing"), "until",
                         Base.anchors[1].accepted + 1)) >>

\* addDelegationLadder(): each delegation of a level names all those of the next.
DelegationLadder(b, levels) ==
    LET Rung(k, column) ==
            [b.delegations[1] EXCEPT !.id = levels[k][column],
                                     !.parents = IF k = Len(levels) THEN <<>> ELSE levels[k + 1]]
        Level(k) == Mapped(<<1, 2>>, LAMBDA column : Rung(k, column))
    IN [b EXCEPT !.delegations = FlattenSeq(Mapped([k \in DOMAIN levels |-> k], Level))]

SharedAncestors ==
    << <<"parent-1", "parent-2">>, <<"middle-1", "middle-2">>, <<"shared-1", "shared-2">> >>

\* The delegation embedded in the decision has these parents.
Under(b, parents) == MutateEmbeddedDelegation(b, LAMBDA d : [d EXCEPT !.parents = parents])

Wider(d, id, margin) ==
    [d EXCEPT !.id = id, !.from = @ - margin, !.until = @ + margin,
              !.scope.actions = @ \cup {"camera.ptz.preset"},
              !.scope.profiles = {"AAR-1", "AAR-2", "AAR-2A", "AAR-3"}]

TwoLevels ==
    LET b1 == AddTopLevelDelegation(Base, LAMBDA d : Wider(d, "grandparent", 100))
        b2 == AddTopLevelDelegation(b1, LAMBDA d :
                  [d EXCEPT !.id = "parent", !.from = @ - 50, !.until = @ + 50, !.parents = <<"grandparent">>])
    IN Under(b2, <<"parent">>)

ParentWithoutInvocation ==
    MutateEmbeddedDelegation(
        AddTopLevelDelegation(Base, LAMBDA d : [Wider(d, "parent", 100) EXCEPT !.invocation = None]),
        LAMBDA d : [d EXCEPT !.parents = <<"parent">>, !.invocation = None])

\* An observation of a device in the failure domain of the observer, on which the
\* outcome does not rest.
UnrelatedObservation ==
    LET domain == "observer-domain"
        unrelated == [Receipts[1] EXCEPT
            !.id = "r10", !.digest = <<"envelope", "r10">>, !.eseq = 10, !.iseq = 110, !.at = 110,
            !.root = Root("human_request", "request-unrelated", "human-request-unrelated"),
            !.body.domain = domain]
    IN On(AddOpaquePayload(Add(ClearJournal(Base), "receipts", unrelated), "qualification"),
          "receipts", "r9", LAMBDA r :
              [r EXCEPT !.outcome = [level |-> "independently_sensed", predicate |-> "qualification"],
                        !.body.domain = domain])

\* Two entries that are not carried, in the order of their times but not of their sequence.
OrderNotSequence ==
    LET entry == [Index.entries[1] EXCEPT !.id = "uncarried-a", !.eseq = 5]
        second == [entry EXCEPT !.leaf = 1, !.id = "uncarried-b", !.eseq = 3, !.at = @ + 1]
        rebuilt == RebuildManifest([Base EXCEPT !.receipts = <<>>], LAMBDA m :
            [m EXCEPT !.index = IndexOver(<<entry, second>>), !.count = 2, !.span = [first |-> 3, last |-> 5]],
            TRUE)
    IN On(rebuilt, "events", "open", LAMBDA e : [e EXCEPT !.body.first = 3])

D82PositiveFixtures ==
    LET Observations == KeepReceipts(ClearJournal(Base), LAMBDA r : r.kind = "observation")
        none == "not_evaluated"
    IN << Conformant("d82-observer-independent-of-unrelated-observation", UnrelatedObservation),
          Conformant("d82-chain-shared-ancestors",
                     Under(DelegationLadder(Base, SharedAncestors), SharedAncestors[1])),
          Conformant("d82-chain-two-levels", TwoLevels),
          Reporting(Conformant("d82-observation-only-subset", Observations), [provenance |-> none], {}, {}),
          Reporting(Conformant("d82-no-receipts-subset", [ClearJournal(Base) EXCEPT !.receipts = <<>>]),
                    [time |-> none, provenance |-> none, outcome |-> none], {}, {}),
          Conformant("d82-receipt-verified-after-window",
                     Put(ClearJournal(Base), "receipts", "r0", "expires", 101)),
          Conformant("d82-invocation-differs-across-derived-from",
                     On(ClearJournal(Base), "receipts", "r3", LAMBDA r :
                        [r EXCEPT !.invocation = "other-invocation", !.flow = None])),
          Conformant("d82-manifest-predecessor-uncarried",
                     RebuildManifest(Base, LAMBDA m : [m EXCEPT !.predecessor = "uncarried"], TRUE)),
          Conformant("d82-anchor-head-newer-than-expected",
                     On(Base, "anchors", "anchor", LAMBDA a :
                        [a EXCEPT !.head = [size |-> a.head.size + 3, root |-> Flipped]])),
          Conformant("d82-parent-delegation-invocation-absent", ParentWithoutInvocation),
          Conformant("d82-index-order-not-seq-order", OrderNotSequence) >>

-----------------------------------------------------------------------------
\* withCountersignature(): a mediator vouches for an attempt with a key of its own.
WithCountersignature(b, command, until) ==
    LET mediator == "mediator_outcome_signing"
        credential == [CredentialWithUsage(b, "outcome_signing") EXCEPT
                          !.id = CredentialId(mediator), !.subject = mediator, !.key = mediator, !.until = until]
    IN Add(Add(b, "credentials", credential), "countersignatures",
           Signed("countersignature", mediator, b.created)
           @@ [attempt |-> <<"envelope", "r7">>, command |-> command])

Countersigned42 == WithCountersignature(Base, "command-digest", 30 * Day)

CountersignFixtures ==
    LET observed == {"mediator_countersigned"}
    IN << Reporting(Conformant("mediator-countersign-valid", Countersigned42), [x \in {} |-> None], observed, {}),
          Fixture("mediator-countersign-command-digest-tampered", "countersign/digest-mismatch", 10,
                  WithCountersignature(Base, "tampered", 30 * Day)),
          Fixture("mediator-countersign-credential-expired", "countersign/credential-invalid", 6,
                  WithCountersignature(Base, "command-digest", Base.eval - 1)),
          Reporting(Conformant("mediator-countersign-absent", Base), [x \in {} |-> None], {}, observed) >>
=============================================================================

-------------------------------- MODULE Corpora --------------------------------
(***************************************************************************)
(* All that the verifier is run over: the fixtures of the harness with the *)
(* verdicts that it declares for them, and the mutants of the fuzz tool.   *)
(***************************************************************************)
EXTENDS CorpusOrigins, CorpusRepairs, CorpusD82, CorpusSchema, CorpusClasses, CorpusPolicies, Fuzz

Declared ==
    <<Conformant("valid subset", ValidSubset)>>
    \o RequestVariants \o MalformedVariants \o PresentationVariants
    \o OriginPositives \o OriginNegatives \o OriginBoundaries \o OriginItemVariants \o OriginReportVariants
    \o D77PositiveFixtures \o D80D81PositiveFixtures \o D82PositiveFixtures \o CountersignFixtures
    \o ReleaseRepairs \o D77Repairs \o D79To81Repairs \o D82Repairs
    \o SchemaFixtures \o CodeFixtures \o ClassFixtures \o PolicyFixtures

-----------------------------------------------------------------------------
\* What the fixtures of the harness leave out

\* The middle delegation of a chain ends when the attempt is made, the embedded one later.
ParentEndsFirst == Put(TwoLevels, "delegations", "parent", "until", 107)

\* The key that signs delegations alone is revoked.
AuthorityRevoked ==
    AddStatusSnapshot(Base, LAMBDA s :
        [s EXCEPT !.credential = CredentialId("authority_signing"), !.status = "revoked", !.instant = 150])

\* The attempt comes before the dispatch in the journal and after it by the clock.
JournaledLate == Body([Base EXCEPT !.profile = "AAR-3"], "r8", "at", 106)

\* A third epoch after the second one, with this predecessor.
ThirdEpoch(predecessor) ==
    LET b == AddSecondEpoch(Base, Epoch + 1, Manifest42.id)
        m == [b.manifests[2] EXCEPT !.id = "manifest-third", !.epoch = Epoch + 2, !.predecessor = predecessor,
                                    !.opened = @ + Later, !.closed = @ + Later, !.deadline = @ + Later]
        Third(e) == [Closing(e, m) EXCEPT !.id = [open |-> "open-third", close |-> "close-third"][e.event],
                                          !.epoch = m.epoch, !.at = @ + Later]
        open == Third(b.events[Len(b.events) - 1])
    IN [b EXCEPT !.manifests = Append(@, m),
                 !.events = @ \o <<open, [Third(b.events[Len(b.events)]) EXCEPT !.previous = open.id]>>]

\* The log is said to have grown from a tree of three leaves with this root.
GrownFrom(Root3(_)) ==
    On(Base, "anchors", "anchor", LAMBDA a :
       LET leaves == RfcLeaves(Manifest42)
       IN [a EXCEPT !.consistency.oldSize = 3, !.consistency.oldRoot = Root3(RfcRoot(SubSeq(leaves, 1, 3))),
                    !.consistency.path = <<leaves[3], leaves[4], Node(leaves[1], leaves[2])>>])

\* An observation of the second epoch rests on one of the first: of the two manifests the
\* second alone is anchored, and it lists both.
AnchoredAfterwards ==
    LET b == AddSecondEpoch(Base, Epoch + 1, Manifest42.id)
        a == RebindAnchor(Base.anchors[1], b.manifests[2], Epoch + 1)
    IN CrossEpochChild([b EXCEPT !.anchors = <<a>>, !.heads[1].root = a.root], b.manifests[2].id, a.id)

\* Complete as to the range of an epoch in which nothing was emitted, and nothing else.
EmptyEpochShown ==
    LET b == AddSecondEpoch(Base, Epoch + 1, Manifest42.id)
        m == [b.manifests[2] EXCEPT !.index = [count |-> 0, root |-> EmptyTree, entries |-> <<>>],
                                    !.span = [first |-> None, last |-> None], !.count = 0, !.reason = "padding"]
        n == Len(b.events)
    IN [b EXCEPT !.manifests[2] = m, !.events[n - 1].body.first = None, !.events[n] = Closing(@, m),
                 !.coverage = "complete",
                 !.ranges = <<[manifest |-> m.id, commitment |-> b.commitment, first |-> None, entries |-> <<>>,
                               left |-> None, right |-> None]>>]

\* The log says that the manifest has the second place of its tree; it has the first.
AnchoredElsewhere ==
    On(Base, "anchors", "anchor", LAMBDA a : [a EXCEPT !.index = 1, !.inclusion.index = 1])

\* The leaf of a batch that names the second place is in the first one, and proved there.
MemberElsewhere ==
    LET hashes == Mapped(<<2, 1, 3>>, LAMBDA i : Leaf(MerkleLeaf(i)))
    IN [MutateMerkleBatch(Base, LAMBDA m : [m EXCEPT !.root = PromotedRoot(hashes)])
           EXCEPT !.proofs[1].siblings = PromotedProof(hashes, 0)]

Further ==
    << Fixture("parent delegation ends before the attempt", "delegation/chain-invalid", 13, ParentEndsFirst),
       Fixture("authority key revoked", "credential/revoked", 8, AuthorityRevoked),
       Fixture("attempt later than its dispatch", "journal/uncommitted-dispatch", 13, JournaledLate),
       Conformant("range of an empty epoch", EmptyEpochShown),
       Conformant("three epochs", ThirdEpoch("manifest-second")),
       Fixture("parent anchored with its child", "graph/cross-epoch-unanchored", 12, AnchoredAfterwards),
       Fixture("an epoch is skipped", "epoch/predecessor-mismatch", 14, ThirdEpoch(Manifest42.id)),
       Conformant("grown from three leaves", GrownFrom(LAMBDA root : root)),
       Fixture("grown from something else", "anchor/consistency-invalid", 17, GrownFrom(LAMBDA root : Flipped)),
       Fixture("anchored at another place", "anchor/inclusion-invalid", 17, AnchoredElsewhere),
       Fixture("member at another place", "merkle/root-mismatch", 16, MemberElsewhere) >>

TheCorpus ==
    LET all == Declared \o Further \o FuzzFixtures IN all
=============================================================================

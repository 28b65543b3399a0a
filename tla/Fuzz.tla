---------------------------------- MODULE Fuzz ----------------------------------
(***************************************************************************)
(* The operators of the differential fuzz tool that are aimed at one step  *)
(* of the verifier.  The tool applies one of them to a seed with random    *)
(* choices; here an operator is the sequence of everything it can make.    *)
(* Random bytes are a name that nothing has.  A changed receipt keeps its  *)
(* name, as after the cascade of mutateEmbeddedDelegation(): the tool does *)
(* without it elsewhere, and most of its mutants then die of a dangling    *)
(* parent before the step they are aimed at.                               *)
(***************************************************************************)
EXTENDS CorpusConformant

CONSTANT Random     \* rng.bytes(): a digest of nothing

\* rng.near()
Near(times) == UNION {{t - 1, t, t + 1} : t \in times}

Enumerated(S) == FoldSet(LAMBDA x, s : Append(s, x), <<>>, S)

Pairs(S, T) == FlattenSeq(Mapped(Enumerated(S), LAMBDA x : Mapped(Enumerated(T), LAMBDA y : <<x, y>>)))

\* A mutant for each choice, and for each choice of two.
Each(choices, Mutant(_)) == Mapped(Enumerated(choices), Mutant)

EachPair(S, T, Mutant(_)) == Mapped(Pairs(S, T), Mutant)

ReceiptAt(b, i, F(_)) == [b EXCEPT !.receipts[i] = F(@)]

Committed(b) == {b.receipts[i].at : i \in DOMAIN b.receipts}

WithParents(b) == {i \in DOMAIN b.receipts : b.receipts[i].parents # <<>>}

\* credential/window: the credential gets another id, and what names it is not rewritten.
CredentialWindow(b) ==
    LET Set(member) ==
            EachPair(DOMAIN b.credentials, Near({b.eval, Min(Committed(b)), Max(Committed(b))}),
                     LAMBDA c : [b EXCEPT !.credentials[c[1]] =
                         [@ EXCEPT !.id = <<"credential", "mutated">>, ![member] = c[2]]])
    IN Set("from") \o Set("until")

\* status/boundary
StatusBoundary(b) ==
    LET s == b.statuses[1]
        Set(member, values) == Each(values, LAMBDA at : [b EXCEPT !.statuses[1] = [@ EXCEPT ![member] = at]])
    IN Set("at", Near({b.eval - Minutes})) \o Set("leaseUntil", Near({s.leaseFrom + Hour, b.eval}))
       \o Set("next", Near({b.eval}))

\* receipt/coordinate-collision: the issuer's sequence number of another receipt of the role.
CoordinateCollision(b) ==
    LET pairs == SelectSeq(Pairs(DOMAIN b.receipts, DOMAIN b.receipts), LAMBDA pair :
                     pair[1] # pair[2] /\ b.receipts[pair[1]].role = b.receipts[pair[2]].role)
    IN Mapped(pairs, LAMBDA pair :
           ReceiptAt(b, pair[1], LAMBDA r : [r EXCEPT !.iseq = b.receipts[pair[2]].iseq]))

\* receipt/outcome-subject
OutcomeSubject(b) ==
    EachPair({i \in DOMAIN b.receipts : b.receipts[i].kind = "outcome_observation"},
             {b.receipts[j].id : j \in DOMAIN b.receipts} \cup {Random},
             LAMBDA choice : ReceiptAt(b, choice[1], LAMBDA r : [r EXCEPT !.body.subject = choice[2]]))

\* replay/freshness
Freshness(b) ==
    LET Set(member) == EachPair(DOMAIN b.receipts, {-1, 0, 1}, LAMBDA c :
                           ReceiptAt(b, c[1], LAMBDA r : [r EXCEPT ![member] = r.at + c[2]]))
    IN Set("issued") \o Set("expires")

\* replay/intended-parents: the last one is dropped, one is replaced, one is added.
IntendedParents(b) ==
    LET Intending(i, F(_)) == ReceiptAt(b, i, LAMBDA r : [r EXCEPT !.intended = F(@)])
        at == WithParents(b)
    IN Each(at, LAMBDA i : Intending(i, Front))
       \o Each(at, LAMBDA i : Intending(i, LAMBDA s : [s EXCEPT ![1] = b.receipts[1].id]))
       \o Each(at, LAMBDA i : Intending(i, LAMBDA s : Append(s, Random)))

\* graph/child-edge: what was intended follows the parent only.
ChildEdge(b) ==
    LET Edged(i, F(_)) == ReceiptAt(b, i, LAMBDA r : [r EXCEPT !.parents[1] = F(@)])
        at == WithParents(b)
        Every(values, member) ==
            EachPair(at, values, LAMBDA c : Edged(c[1], LAMBDA e : [e EXCEPT ![member] = c[2]]))
        Parented(c) == ReceiptAt(b, c[1], LAMBDA r : IntendParents([r EXCEPT !.parents[1].parent = c[2]]))
    IN Every(DOMAIN KindRoles, "kind") \o Every(DOMAIN EdgeMatrix, "type")
       \o Every({Random}, "tenant") \o Every({Random}, "site") \o Every({Epoch - 1, Epoch + 1}, "epoch")
       \o Mapped(SelectSeq(Pairs(at, DOMAIN b.receipts), LAMBDA c : c[2] < c[1]),
                 LAMBDA c : Parented(<<c[1], b.receipts[c[2]].id>>))
       \o EachPair(at, {Random}, Parented)

\* delegation/embedded: the delegation of the decision behind the dispatch.
EmbeddedDelegation(b) ==
    LET Embedded(values, F(_, _)) == Each(values, LAMBDA v : MutateEmbeddedDelegation(b, LAMBDA d : F(d, v)))
        attempts == {r.at : r \in {r \in Elements(b.receipts) : r.kind = "action_attempt"}}
    IN Embedded({{"camera.ptz.preset"}, {"camera.view"}}, LAMBDA d, v : [d EXCEPT !.scope.actions = v])
       \o Embedded(Near({Min(attempts)}), LAMBDA d, v : [d EXCEPT !.from = v])
       \o Embedded(Near({Max(attempts)}), LAMBDA d, v : [d EXCEPT !.until = v])
       \o Embedded({Random}, LAMBDA d, v : [d EXCEPT !.parents = <<v>>])

\* epoch/event
EpochEvent(b) ==
    << Put(b, "events", "close", "previous", Random),
       MutateLastEvent(b, LAMBDA e : [e EXCEPT !.at = @ - 1]), MutateLastEvent(b, LAMBDA e : [e EXCEPT !.at = @ + 1]) >>

\* manifest/index: the digest of the index is not made again, its manifest and anchor are.
ManifestIndex(b) ==
    LET n == Len(b.manifests[1].index.entries)
        Next1(i) == (i % n) + 1
        Rebuilt(F(_)) == RebuildManifest(b, LAMBDA m : [m EXCEPT !.index = F(@)], TRUE)
        Entry1(i, F(_)) == Rebuilt(LAMBDA index : [index EXCEPT !.entries[i] = F(@)])
        entries == b.manifests[1].index.entries
    IN Each(1 .. n, LAMBDA i : Rebuilt(LAMBDA index :
               [index EXCEPT !.entries = [@ EXCEPT ![i] = entries[Next1(i)], ![Next1(i)] = entries[i]]]))
       \o Each(1 .. n, LAMBDA i : Entry1(i, LAMBDA e : [e EXCEPT !.leaf = @ + 1]))
       \o Each(1 .. n, LAMBDA i : Entry1(i, LAMBDA e : [e EXCEPT !.eseq = entries[Next1(i)].eseq]))
       \o EachPair(1 .. n, DOMAIN KindRoles, LAMBDA c : Entry1(c[1], LAMBDA e : [e EXCEPT !.kind = c[2]]))
       \o << Rebuilt(LAMBDA index : [index EXCEPT !.root = Flipped]),
             Rebuilt(LAMBDA index : [index EXCEPT !.count = @ + 1]),
             Rebuilt(LAMBDA index : [index EXCEPT !.count = @ - 1]) >>

\* merkle/sibling
MerkleSibling(b) ==
    LET Proof(F(_)) == [b EXCEPT !.proofs[1] = F(@)]
        Moved(member) == Each({-1, 1}, LAMBDA delta : Proof(LAMBDA p : [p EXCEPT ![member] = @ + delta]))
    IN Each(DOMAIN b.proofs[1].siblings, LAMBDA i : Proof(LAMBDA p : [p EXCEPT !.siblings[i] = Flipped]))
       \o Moved("index") \o Moved("size")

\* anchor/proof and anchor/head: the relying party's expectation does not follow.
AnchorProof(b) ==
    LET Anchored(F(_)) == On(b, "anchors", "anchor", F)
    IN << Anchored(LAMBDA a : [a EXCEPT !.inclusion.leaf = Flipped]),
          Anchored(LAMBDA a : [a EXCEPT !.accepted = @ - 1]), Anchored(LAMBDA a : [a EXCEPT !.accepted = @ + 1]),
          Anchored(LAMBDA a : [a EXCEPT !.head.size = @ - 1]), Anchored(LAMBDA a : [a EXCEPT !.head.size = @ + 1]) >>
       \o Each(Near({b.manifests[1].deadline}), LAMBDA at : Anchored(LAMBDA a : [a EXCEPT !.submitted = at]))

AnchorHead(b) ==
    LET Expected(F(_)) == [b EXCEPT !.heads[1] = F(@)]
    IN << Expected(LAMBDA head : [head EXCEPT !.root = Flipped]),
          Expected(LAMBDA head : [head EXCEPT !.target = Random]),
          Expected(LAMBDA head : [head EXCEPT !.size = @ - 1]), Expected(LAMBDA head : [head EXCEPT !.size = @ + 1]) >>
       \o Each(Near({b.eval - Day}), LAMBDA at : Expected(LAMBDA head : [head EXCEPT !.observed = at]))

\* range/sibling and range/boundary, for a bundle with ranges
RangeMutants(b) ==
    LET Ranged(F(_)) == [b EXCEPT !.ranges[1] = F(@)]
        items == b.ranges[1].entries
    IN IF b.ranges = <<>> THEN <<>>
       ELSE FlattenSeq(Mapped(Enumerated(DOMAIN items), LAMBDA i : Each(DOMAIN items[i].siblings, LAMBDA k :
                 Ranged(LAMBDA range : [range EXCEPT !.entries[i].siblings[k] = Flipped]))))
            \o Each(DOMAIN items, LAMBDA i : Ranged(LAMBDA range : [range EXCEPT !.entries = RemoveAt(@, i)]))
            \o Each({-1, 1}, LAMBDA delta : Ranged(LAMBDA range : [range EXCEPT !.first = @ + delta]))

\* bundle/selector: its commitment is made again.
BundleSelector(b) ==
    Each(Near({b.selector.from}), LAMBDA at : [b EXCEPT !.selector.until = at])
    \o Each(b.selector.kinds, LAMBDA kind : [b EXCEPT !.selector.kinds = @ \ {kind}])
    \o << [b EXCEPT !.selector.subjects = None], [b EXCEPT !.selector.correlations = None] >>

\* key/verifier-credential-remove
VerifierRemoved(b) == <<[b EXCEPT !.credentials = SelectSeq(@, LAMBDA c : c.usage # "verifier_signing")]>>

StepOperators(b) ==
    CredentialWindow(b) \o StatusBoundary(b) \o CoordinateCollision(b) \o OutcomeSubject(b)
    \o Freshness(b) \o IntendedParents(b) \o ChildEdge(b) \o EmbeddedDelegation(b) \o EpochEvent(b)
    \o ManifestIndex(b) \o MerkleSibling(b) \o AnchorProof(b) \o AnchorHead(b) \o RangeMutants(b)
    \o BundleSelector(b) \o VerifierRemoved(b)

-----------------------------------------------------------------------------
\* A mutant has no declared outcome.
Mutants(name, b) == Mapped(StepOperators(b), LAMBDA m : Fixture(name, None, 0, m))

\* A seed in which much is at stake: delegations two levels deep, complete coverage,
\* the profile that wants its journal, a key that is revoked after its last use.
RichSeed ==
    LET ranged == MakeCompleteRange(TwoLevels)
    IN AddStatusSnapshot([ranged EXCEPT !.profile = "AAR-3"], LAMBDA s :
           [s EXCEPT !.status = "revoked", !.instant = Max(UseTimes(Base, "ep_signing")) + 1])

BaseMutants == Mutants("mutant of the base", Base)
RichMutants == Mutants("mutant of the rich seed", RichSeed)

FuzzFixtures == <<Conformant("rich", RichSeed)>> \o BaseMutants \o RichMutants
=============================================================================

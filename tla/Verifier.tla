-------------------------------- MODULE Verifier --------------------------------
(***************************************************************************)
(* verifyBundle(): the twenty steps over one bundle, one after the other,  *)
(* up to the first that finds an issue, and the verdict that is signed     *)
(* then.  The bundle is one of a corpus; each fixture of it has the time   *)
(* and the configuration with which the verifier is called.  The history   *)
(* and the retained bundles of a relying party are in RelyingParty.        *)
(***************************************************************************)
EXTENDS ReceiptSteps, GraphSteps, RangeSteps

CONSTANT Corpus         \* a sequence of fixtures [bundle, now, configuration, ...]

-----------------------------------------------------------------------------
(***************************************************************************)
(* What is taken for granted of a bundle: an array is an array, a time, an *)
(* epoch, a sequence or a size is an integer and a class one of its        *)
(* enumeration (a value of another type is a flaw of its place), and the   *)
(* content id of a delegation determines it.                               *)
(***************************************************************************)
IsArray(s) == Len(s) \in Nat /\ DOMAIN s = 1 .. Len(s)

Embedded(b) == {r.body.delegation : r \in {r \in Elements(b.receipts) : r.kind = "authorization"}}

HasArrays(b) ==
    /\ \A field \in Elements(ArtifactFields) \cup {"ranges"} : IsArray(b[field])
    /\ \A r \in Elements(b.receipts) : IsArray(r.parents)
    /\ \A a \in Elements(b.anchors) :
          IsArray(a.inclusion.siblings) /\ (a.consistency # None => IsArray(a.consistency.path))
    /\ \A m \in Elements(b.manifests) : IsArray(m.index.entries)
    /\ \A range \in Elements(b.ranges) : IsArray(range.entries)
    /\ \A d \in Elements(b.delegations) \cup Embedded(b) : IsArray(d.parents)

HasIntegers(b) ==
    /\ \A e \in Entries(b) : SigningTime(b, e) \in Int
    /\ \A r \in Elements(b.receipts) : {r.at, r.epoch, r.eseq} \subseteq Int
    /\ \A a \in Elements(b.anchors) :
          {a.size, a.index} \subseteq Nat /\ (a.consistency # None => a.consistency.oldSize \in Nat)
    /\ \A p \in Elements(b.proofs) : p.index \in Nat
    /\ \A range \in Elements(b.ranges) : \A item \in Elements(range.entries) \cup ({range.left, range.right} \ {None}) :
          item.index \in Nat
    /\ \A batch \in Elements(b.batches) : batch.size \in Nat
    /\ \A m \in Elements(b.manifests) : {m.opened, m.closed, m.epoch} \subseteq Int
    /\ \A d \in Elements(b.delegations) \cup Embedded(b) : {d.from, d.until} \subseteq Int
    /\ \A c \in Elements(b.credentials) : {c.from, c.until} \subseteq Int
    /\ \A s \in Elements(b.statuses) :
          s.status \in Instants /\ CheckField(s.flaws, "instant") = OK => s.instant \in Int

HasClasses(b) ==
    \A r \in Elements(b.receipts) :
        /\ r.kind \in DOMAIN Commitments
        /\ r.time.class \in Elements(TimeClasses)
        /\ r.outcome # None => r.outcome.level \in Elements(OutcomeLevels) \cup {"contradicted", "unknown"}

\* What the verifier compares of delegations.
DelegationContent(d) == <<d.parents, d.scope, d.from, d.until, d.tenant, d.site, d.use, d.invocation>>

HasNames(b) ==
    \A c, d \in {d \in Elements(b.delegations) \cup Embedded(b) : "id" \notin d.broken} :
        c.id = d.id => DelegationContent(c) = DelegationContent(d)

ASSUME CorpusAssumption ==
    \A k \in DOMAIN Corpus :
        LET b == Corpus[k].bundle IN HasArrays(b) /\ HasIntegers(b) /\ HasClasses(b) /\ HasNames(b)

-----------------------------------------------------------------------------
VARIABLES
    fixture,            \* which one
    step,               \* the step that is next, or at which the issue was found
    issue,              \* the reason code, or OK
    observations,       \* what the verdict reports beside the result
    verdict             \* None until it is signed

vars == <<fixture, step, issue, observations, verdict>>

Input == Corpus[fixture]
Bundle == Input.bundle
Configuration == Input.configuration

\* signerKey()
VerifierKid == IF Configuration = None THEN "verifier_signing" ELSE Configuration.kid

Init ==
    /\ fixture \in DOMAIN Corpus
    /\ step = 1 /\ issue = OK /\ observations = {} /\ verdict = None

\* Step k finds `code`, and adds to the observations if it does not fail.
Step(k, code, observed) ==
    /\ step = k /\ issue = OK
    /\ issue' = code
    /\ step' = IF code = OK THEN k + 1 ELSE k
    /\ observations' = observations \cup (IF code = OK THEN observed ELSE {})
    /\ UNCHANGED <<fixture, verdict>>

MeasureBytes == Step(1, Judge(Bundle.flaws, << <<"bytes", "size", "resource/bundle-too-large">> >>), {})
DecodeBytes == Step(2, Decode(Bundle.flaws, "bytes"), {})
ValidateBundleSchema == Step(3, Schema(Bundle), {})
ValidateResourceCounts == Step(4, Counts(Bundle), {})
ValidateTrustInputs == Step(5, TrustInputs(Bundle, Input.now, Configuration), {})
ValidateEnvelopes == Step(6, Envelopes(Bundle), {})
ValidateContent == Step(7, Content(Bundle), {})
ValidateCredentialLifecycle == Step(8, Lifecycle(Bundle, Configuration, VerifierKid), {})
ValidateEmission == Step(9, Emission(Bundle), {})

ValidateReceiptSemantics ==
    Step(10, Semantics(Bundle) ?? Countersigned(Bundle),
         {x \in {"mediator_countersigned"} : Bundle.countersignatures # <<>>})

ValidateReplay == Step(11, Replay(Bundle), {})
ValidateGraph == Step(12, Graph(Bundle), {})

\* The origins are evaluated once the dispatches are known to be dominated.
ValidateDominance ==
    Step(13, Dominance(Bundle),
         {x \in {"degraded_dispatch"} : Degraded(Bundle)}
         \cup {x \in {"refused_pre_dispatch"} : RefusedPreDispatch(Bundle)}
         \cup {x \in {"untrusted_origin_declared_in_action_ancestry"} : InputOrigins(Bundle).untrusted})

ValidateEpochs == Step(14, Epochs(Bundle), {})
ValidateManifestIndexes == Step(15, ManifestIndexes(Bundle), {})
ValidateMerkle == Step(16, Merkle(Bundle), {x \in {"membership_only"} : Bundle.proofs # <<>>})

ValidateAnchors ==
    Step(17, Anchors(Bundle), {x \in {"anchor_existence_order_only"} : Bundle.anchors # <<>>})

ValidateRanges ==
    Step(18, Ranges(Bundle),
         {"ingress_completeness_not_established"}
         \cup {x \in {"producer_declared_complete"} : Bundle.coverage = "complete"})

ValidateEvidence == Step(19, EvidenceFault(Bundle), {})

\* Without a configuration the key of the verifier is one of the bundle.
VerifierIdentity ==
    LET named == SelectSeq(Bundle.credentials, LAMBDA c : c.subject = VerifierKid)
    IN IF Configuration # None THEN OK
       ELSE Require(named # <<>> /\ named[1].usage = "verifier_signing", "key/not-found")

ResolveVerifierKey == Step(20, VerifierIdentity, {})

-----------------------------------------------------------------------------
\* The verdicts

\* What leaves the verifier without an answer.
Undecided ==
    \/ step = 3 /\ Indeterminate(Bundle.flaws, issue)
    \/ <<step, issue>> \in {<<6, "key/not-found">>, <<17, "anchor/head-missing">>, <<20, "key/not-found">>}

\* A failure takes its scope from a bundle that has its form, and the trust values
\* from one whose trust inputs hold; it evaluates nothing.
EmitFailureVerdict ==
    /\ issue # OK /\ verdict = None
    /\ verdict' = [result |-> IF Undecided THEN "indeterminate" ELSE "nonconformant",
                   reason |-> issue, step |-> step, at |-> Input.now,
                   scope |-> step > 3, trust |-> step > 5,
                   integrity |-> IF step <= 5 THEN "not_evaluated" ELSE "not_satisfied",
                   profile |-> "below_AAR-1", time |-> "not_evaluated", provenance |-> "not_evaluated",
                   outcome |-> "not_evaluated", ancestry |-> "not_evaluated",
                   discovery |-> "not_established", observations |-> {}]
    /\ UNCHANGED <<fixture, step, issue, observations>>

EmitVerdict ==
    /\ step = 21 /\ verdict = None
    /\ LET evidence == EvidenceLimits(Bundle)
       IN verdict' = [result |-> "conformant", reason |-> None, step |-> 20, at |-> Bundle.eval,
                      scope |-> TRUE, trust |-> TRUE, integrity |-> "satisfied",
                      profile |-> Bundle.profile, time |-> evidence.time,
                      provenance |-> evidence.provenance, outcome |-> evidence.outcome,
                      ancestry |-> InputOrigins(Bundle).limit,
                      discovery |-> IF Bundle.coverage = "complete" THEN "producer_declared_only"
                                    ELSE "not_established",
                      observations |-> observations]
    /\ UNCHANGED <<fixture, step, issue, observations>>

Next ==
    \/ MeasureBytes \/ DecodeBytes \/ ValidateBundleSchema \/ ValidateResourceCounts
    \/ ValidateTrustInputs \/ ValidateEnvelopes \/ ValidateContent \/ ValidateCredentialLifecycle
    \/ ValidateEmission \/ ValidateReceiptSemantics \/ ValidateReplay \/ ValidateGraph
    \/ ValidateDominance \/ ValidateEpochs \/ ValidateManifestIndexes \/ ValidateMerkle
    \/ ValidateAnchors \/ ValidateRanges \/ ValidateEvidence \/ ResolveVerifierKey
    \/ EmitFailureVerdict \/ EmitVerdict

Spec == Init /\ [][Next]_vars

-----------------------------------------------------------------------------
(***************************************************************************)
(* What a conformant verdict promises, in terms of the bundle and not of   *)
(* the order in which the verifier looks at it.                            *)
(***************************************************************************)
IsConformant == verdict # None /\ verdict.result = "conformant"

AllReceipts == Elements(Bundle.receipts)
OfKind(kind) == {r \in AllReceipts : r.kind = kind}

\* A delegation and those that it descends from.
Lineage(delegation) ==
    LET carried == Elements(Bundle.delegations)
        parents == [id \in {d.id : d \in carried} |-> UNION {Elements(d.parents) : d \in {d \in carried : d.id = id}}]
    IN {delegation} \cup {d \in carried : d.id \in Reach(parents, Elements(delegation.parents))}

Permits(delegation, attempt) ==
    /\ delegation.from <= attempt.at /\ attempt.at < delegation.until
    /\ attempt.body.action.name \in delegation.scope.actions
    /\ attempt.body.action.target \in delegation.scope.targets
    /\ attempt.purpose \in delegation.scope.purposes
    /\ <<delegation.tenant, delegation.site>> = <<attempt.tenant, attempt.site>>

\* Authority: what was dispatched is the command of one attempt, which rests on one
\* authorization, and that attempt is within the window and the scope of every delegation
\* up to the first one, the last of which is for the enforcement point that acted.  The
\* verifier never compares an attempt with a delegation above the embedded one (steps 10
\* and 13 of src/harness/verifier.ts compare neighbours only).
DispatchIsAuthorized ==
    IsConformant => \A d \in OfKind("dispatch") :
        \E a \in OfKind("action_attempt") : \E z \in OfKind("authorization") :
            /\ {e.parent : e \in Elements(d.parents)} = {a.id} /\ d.body.command = a.body.command.id
            /\ a.body.authorization = z.id /\ z.id \in {e.parent : e \in Elements(a.parents)}
            /\ a.body.command.operation = a.body.action.name
            /\ a.body.command.operand = a.body.action.target
            /\ \A delegation \in Lineage(z.body.delegation) : Permits(delegation, a)
            /\ \E c \in Elements(Bundle.credentials) :
                  c.id = z.body.delegation.subject /\ c.subject = a.by

\* The signed objects of a bundle with the time of each signature.
Signatures == {[by |-> e.a.by, at |-> SigningTime(Bundle, e)] : e \in Entries(Bundle)}

\* Key life: no signature that a conformant verdict rests on, of a top-level object, of a
\* delegation inside a decision or of a presentation inside an authorization, was made
\* outside the window of its credential, or at or after the instant from which a carried
\* status says its key is revoked or compromised, however late the status was produced
\* (step 6 sub-step 8 and step 8).
KeysUsedInLife ==
    IsConformant => \A s \in Signatures :
        /\ \E c \in Elements(Bundle.credentials) : c.subject = s.by /\ c.from <= s.at /\ s.at < c.until
        /\ \A status \in Elements(Bundle.statuses) : \A c \in Elements(Bundle.credentials) :
              c.id = status.credential /\ c.subject = s.by /\ status.status \in {"revoked", "compromised"}
              => s.at < status.instant

\* AAR-3: an attempt is in the journal before its command leaves, both by the sequence of
\* the enforcement point and by the clock, or the verdict says that it was not; only an
\* action that the relying party, not the producer, calls life-safety may do without.
JournaledBeforeDispatch ==
    IsConformant /\ verdict.profile = "AAR-3" => \A d \in OfKind("dispatch") : \E a \in OfKind("action_attempt") :
        /\ a.id = d.body.attempt
        /\ \/ <<a.owner, a.epoch>> = <<d.owner, d.epoch>> /\ a.eseq < d.eseq /\ a.at <= d.body.at
           \/ "degraded_dispatch" \in verdict.observations /\ a.body.action.name \in Bundle.lifeSafety

\* Where the receipts and the index entries of a bundle say that they were emitted.
Claims ==
    {[place |-> <<r.owner, r.epoch, r.eseq>>, id |-> r.id] : r \in AllReceipts}
    \cup {[place |-> <<r.by, r.iseq>>, id |-> r.id] : r \in AllReceipts}
    \cup UNION {{[place |-> <<m.owner, m.epoch, e.eseq>>, id |-> e.id] : e \in Elements(m.index.entries)} :
                   m \in Elements(Bundle.manifests)}

\* Equivocation: no place in an epoch or in an issuer's sequence has two receipts, be they
\* carried or only listed in the index of a manifest (steps 9 and 15 together).
PlaceHasOneReceipt ==
    IsConformant => \A c, d \in Claims : c.place = d.place => c.id = d.id

\* D-87: a closed epoch cannot be added to: each carried receipt of a carried epoch is in
\* its index, at its own coordinates, and was committed before the close.
ClosedEpochIsWhole ==
    IsConformant => \A m \in Elements(Bundle.manifests) : \A r \in AllReceipts :
        <<r.owner, r.epoch>> = <<m.owner, m.epoch>> =>
            /\ r.at <= m.closed
            /\ \E e \in Elements(m.index.entries) :
                  <<e.id, e.issuer, e.iseq, e.eseq, e.at>> = <<r.id, r.by, r.iseq, r.eseq, r.at>>

\* Epochs of one owner are one history: of any two the later one names, directly or over
\* others that are carried, the earlier one as its predecessor, and has the greater number.
Predecessors(id) ==
    LET carried == Elements(Bundle.manifests)
    IN Reach([i \in {m.id : m \in carried} |-> {m.predecessor : m \in {m \in carried : m.id = i}}], {id})

EpochsAreOneHistory ==
    IsConformant => \A m, n \in Elements(Bundle.manifests) : m.owner = n.owner /\ m.id # n.id =>
        \/ m.epoch < n.epoch /\ m.id \in Predecessors(n.id)
        \/ n.epoch < m.epoch /\ n.id \in Predecessors(m.id)

\* Some trees with those that they are nodes over, and whether a digest is in a tree at most
\* `depth` levels below its root.
Below(trees) == trees \cup UNION {{t[2], t[3]} : t \in {t \in trees : t[1] = "node"}}

Holds(tree, depth, digest) == digest \in Loop(depth, Below, {tree})

\* Whether one digest is the root over the first n of the `size` leaves that another is over:
\* the subtrees that are all within them are the same, from the left.
Piece(old, new, size, n) == [old |-> old, new |-> new, size |-> size, n |-> n]

Descend(s) ==
    LET split == LargestPowerOfTwoLessThan(s.size)
    IN IF s.n = s.size \/ s.new[1] # "node" THEN s
       ELSE IF s.n <= split THEN Piece(s.old, s.new[2], split, s.n)
       ELSE IF s.old[1] # "node" \/ s.old[2] # s.new[2] THEN s
       ELSE Piece(s.old[3], s.new[3], s.size - split, s.n - split)

Agrees(s) == s.n = s.size /\ s.old = s.new

IsPrefixTree(old, new, size, n) == Agrees(Loop(size, Descend, Piece(old, new, size, n)))

\* The way from the root of a tree of `size` leaves down to one of them, and what is there.
Place(tree, size, index) == [tree |-> tree, size |-> size, index |-> index]

Seek(s) ==
    LET split == LargestPowerOfTwoLessThan(s.size)
    IN IF s.size <= 1 \/ s.tree[1] # "node" THEN s
       ELSE IF s.index < split THEN Place(s.tree[2], split, s.index)
       ELSE Place(s.tree[3], s.size - split, s.index - split)

Arrived(tree, size, index) == Loop(size, Seek, Place(tree, size, index))

HasLeafAt(tree, size, index, leaf) ==
    LET end == Arrived(tree, size, index) IN end.size = 1 /\ end.tree = leaf

\* Whether a digest is the root of a tree of this size, whatever its leaves are.
IsTree(tree, size) ==
    \A index \in 0 .. size - 1 :
        LET end == Arrived(tree, size, index) IN end.size = 1 /\ end.tree[1] = "leaf"

\* The shifts of src/harness/merkle.ts truncate greater numbers.
MaxShifted == 2147483647

\* Existence, by steps 15 to 18.  A manifest whose anchor is carried is in the tree that the
\* log signed, with the digest of its content, and if that is a tree of the size that the
\* log says, at the place that it says: the path of verifyRfc6962Inclusion() may go on after
\* it has reached the root of a tree of this size (src/harness/merkle.ts:101), and no step
\* compares a place with a size.  A receipt digest with a membership proof is in the tree of
\* its batch, at its place.  An entry that a range shows, or a boundary of it, is the one at
\* its place in the index of the manifest; the root of an empty index is not checked.
ProofsShowWhatTheyClaim ==
    IsConformant =>
        /\ \A a \in Elements(Bundle.anchors) : \E m \in Elements(Bundle.manifests) :
              LET leaf == Leaf(<<m.tenant, m.site, m.epoch, m.id, m.id>>)
              IN /\ m.id = a.manifest /\ Holds(a.root, Len(a.inclusion.siblings), leaf)
                 /\ IsTree(a.root, a.size) /\ a.index < a.size /\ a.size <= MaxShifted =>
                       HasLeafAt(a.root, a.size, a.index, leaf)
        /\ \A p \in Elements(Bundle.proofs) : \E batch \in Elements(Bundle.batches) :
              /\ batch.id = p.batch /\ Holds(batch.root, batch.size, Leaf(p.leaf))
              /\ p.index < batch.size => HasLeafAt(batch.root, batch.size, p.index, Leaf(p.leaf))
        /\ \A range \in Elements(Bundle.ranges) : \E m \in Elements(Bundle.manifests) :
              m.id = range.manifest /\ \A item \in Elements(range.entries) \cup ({range.left, range.right} \ {None}) :
                  /\ Holds(m.index.root, m.index.count, Leaf(item.entry))
                  /\ m.index.count > 0 =>
                        item.index < m.index.count /\ item.entry = m.index.entries[item.index + 1]

\* Append-only: the tree that a log is said to have grown from is a prefix of the one that
\* it signed (step 17).
GrownLogIsExtended ==
    IsConformant => \A a \in Elements(Bundle.anchors) :
        a.consistency # None /\ a.size <= MaxShifted =>
            IsPrefixTree(a.consistency.oldRoot, a.root, a.size, a.consistency.oldSize)

\* Evidence over epochs: a receipt that rests on one of an earlier epoch has with it the
\* manifest of that epoch, which lists the earlier receipt, and an anchor of that manifest
\* (steps 12, 15 and 17 together; the edge itself names any manifest and anchor).
CrossEpochParentIsAnchored ==
    IsConformant => \A r, p \in AllReceipts :
        p.id \in {e.parent : e \in Elements(r.parents)} /\ p.epoch # r.epoch =>
            /\ p.epoch < r.epoch
            /\ \E m \in Elements(Bundle.manifests), a \in Elements(Bundle.anchors) :
                  /\ <<m.owner, m.epoch>> = <<p.owner, p.epoch>> /\ Carries(m.index.entries, p.id)
                  /\ a.manifest = m.id

\* What a set of receipts rests on, over carried parents.
RestOf(ids) ==
    Reach([id \in {r.id : r \in AllReceipts} |->
              UNION {{e.parent : e \in Elements(r.parents)} : r \in {r \in AllReceipts : r.id = id}}], ids)

\* What the selector asks for of the entries of some manifests.
Asked(manifests) ==
    {e \in UNION {Elements(m.index.entries) : m \in manifests} :
        /\ Bundle.selector.from <= e.at /\ e.at < Bundle.selector.until
        /\ e.kind \in Bundle.selector.kinds
        /\ Meets(Bundle.selector.subjects, e.subjects)
        /\ Meets(Bundle.selector.correlations, e.correlations)
        /\ Meets(Bundle.selector.issuers, {e.issuer})}

\* Completeness: a bundle that claims to be complete carries every receipt of the manifests
\* it shows ranges of that the selector asks for, and nothing but what the selector asks for
\* of the manifests it carries and what those of the ranges rest on.  It need not show a
\* range of every manifest that it carries (step 18 of src/harness/verifier.ts).
CompleteIsComplete ==
    IsConformant /\ Bundle.coverage = "complete" =>
        LET carried == {r.id : r \in AllReceipts}
            shown == {m \in Elements(Bundle.manifests) : \E range \in Elements(Bundle.ranges) : range.manifest = m.id}
            ids == {e.id : e \in Asked(shown)}
        IN /\ ids \subseteq carried
           /\ carried \subseteq RestOf(ids) \cup {e.id : e \in Asked(Elements(Bundle.manifests))}

\* Evidence limits: "externally anchored" is said only if the time of some receipt is after
\* an anchored epoch of its own enforcement point, and "independently sensed" only if some
\* outcome was seen in a failure domain in which nothing that the outcome rests on was seen.
LimitsAreEarned ==
    IsConformant =>
        /\ verdict.time = "externally_anchored" =>
              \E r \in AllReceipts, a \in Elements(Bundle.anchors) :
                  /\ a.id = r.time.anchor /\ a.accepted <= r.at
                  /\ \E m \in Elements(Bundle.manifests) :
                        m.id = a.manifest /\ m.owner = r.owner /\ m.epoch < r.epoch
        /\ verdict.outcome = "independently_sensed" =>
              \E r \in OfKind("outcome_observation") :
                  \A p \in OfKind("observation") : p.id \in RestOf({r.id}) => p.body.domain # r.body.domain
=============================================================================

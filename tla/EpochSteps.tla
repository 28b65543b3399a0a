------------------------------- MODULE EpochSteps -------------------------------
(***************************************************************************)
(* Steps 14 to 17 of the verifier: the epochs of an owner form a chain of  *)
(* closed manifests, the index of a manifest lists what the epoch emitted, *)
(* Merkle proofs show membership of a batch, and anchors show that a       *)
(* manifest existed.                                                       *)
(***************************************************************************)
EXTENDS CredentialSteps, MerkleTrees

Key(a) == <<a.owner, a.epoch>>

-----------------------------------------------------------------------------
\* Step 14

EventsAt(b, key) == {i \in DOMAIN b.events : Key(b.events[i]) = key}
EventsOf(b, key, event) == {i \in EventsAt(b, key) : b.events[i].event = event}
EventKeys(b) == {Key(b.events[i]) : i \in DOMAIN b.events}

TheEvent(b, key, event) == b.events[CHOOSE i \in EventsOf(b, key, event) : TRUE]

ManifestsAt(b, key) == {i \in DOMAIN b.manifests : Key(b.manifests[i]) = key}

\* The events of an epoch are numbered from 0, and each names the one before it.
EventChain(b, key) ==
    LET at == EventsAt(b, key)
    IN /\ {b.events[i].seq : i \in at} = 0 .. Cardinality(at) - 1
       /\ \A i \in at :
             IF b.events[i].seq = 0 THEN b.events[i].previous = None
             ELSE \E j \in at : /\ b.events[j].seq = b.events[i].seq - 1
                                /\ b.events[i].previous = b.events[j].id

\* The manifest an epoch is judged by: the one its (first) close event names, or
\* else the first that is carried.
Primary(b, key) ==
    LET closes == EventsOf(b, key, "close")
        first == {i \in closes : \A j \in closes : b.events[i].seq <= b.events[j].seq}
        named == {m \in ManifestsAt(b, key) :
                     \E i \in first : b.events[i].body.manifest = b.manifests[m].id}
    IN IF named # {} THEN Min(named) ELSE Min(ManifestsAt(b, key))

PrimaryOf(b, key) == b.manifests[Primary(b, key)]

Primaries(b) == {Primary(b, Key(b.manifests[i])) : i \in DOMAIN b.manifests}

\* j follows i in the chain of one owner, in the order of opened_at.
Precedes(b, i, j) ==
    \/ b.manifests[i].opened < b.manifests[j].opened
    \/ b.manifests[i].opened = b.manifests[j].opened /\ i < j

Follows(b, i, j) ==
    LET own == {k \in Primaries(b) : b.manifests[k].owner = b.manifests[j].owner}
    IN /\ {i, j} \subseteq own /\ Precedes(b, i, j)
       /\ \A k \in own : ~(Precedes(b, i, k) /\ Precedes(b, k, j))

\* Mutant: the predecessor is any carried manifest.
PredecessorsMatchAny(b) ==
    /\ \A i \in Primaries(b) : b.manifests[i].predecessor # Null
    /\ \A i, j \in Primaries(b) : Follows(b, i, j) => Carries(b.manifests, b.manifests[j].predecessor)

PredecessorsMatch(b) ==
    /\ \A i \in Primaries(b) : b.manifests[i].predecessor # Null
    /\ \A i, j \in Primaries(b) : Follows(b, i, j) => b.manifests[j].predecessor = b.manifests[i].id

IdsIncrease(b) ==
    \A i, j \in Primaries(b) : Follows(b, i, j) => b.manifests[i].epoch < b.manifests[j].epoch

OpenedAndClosed(b, key) ==
    /\ Cardinality(EventsOf(b, key, "open")) = 1 /\ Cardinality(EventsOf(b, key, "close")) = 1
    /\ TheEvent(b, key, "open").seq < TheEvent(b, key, "close").seq
    /\ TheEvent(b, key, "open").at < TheEvent(b, key, "close").at
    /\ ManifestsAt(b, key) # {}

WithinDuration(b, key) ==
    /\ PrimaryOf(b, key).closed - PrimaryOf(b, key).opened <= Day
    /\ TheEvent(b, key, "close").at - TheEvent(b, key, "open").at <= Day

SpanCounted(b, key) ==
    LET m == PrimaryOf(b, key)
        close == TheEvent(b, key, "close").body
    IN /\ close.manifest = m.id /\ close.count = m.count /\ close.last = m.span.last
       /\ TheEvent(b, key, "open").body.first = m.span.first
       /\ m.count = Len(m.index.entries) /\ m.index.count = m.count

\* Mutant: a receipt may be committed to an epoch that is closed.
InTimeAlways(b, r) == r.late # None => r.late < r.epoch

\* Nothing enters an epoch after it closed; a late arrival names an earlier epoch.
InTime(b, r) ==
    /\ Key(r) \in EventKeys(b) => r.at <= PrimaryOf(b, Key(r)).closed
    /\ r.late # None => r.late < r.epoch

AnchoredByDeadline(b, key) ==
    LET m == PrimaryOf(b, key)
    IN /\ m.deadline = m.closed + Day
       /\ TheEvent(b, key, "close").body.deadline = m.deadline
       /\ \A i \in EventsOf(b, key, "anchor_submitted") : b.events[i].body.submitted <= m.deadline

Forked(b) ==
    \/ \E i, j \in DOMAIN b.manifests : i # j /\ Key(b.manifests[i]) = Key(b.manifests[j])
    \/ \E i \in DOMAIN b.events : b.events[i].event = "fork_declared"

Epochs(b) ==
    LET keys == EventKeys(b)
    IN Require(\A key \in keys : EventChain(b, key), "epoch/event-chain")
       ?? Require(IdsIncrease(b), "epoch/id-nonmonotonic")
       ?? Require(PredecessorsMatch(b), "epoch/predecessor-mismatch")
       ?? Require(/\ \A key \in keys : OpenedAndClosed(b, key)
                  /\ \A i \in DOMAIN b.manifests : Key(b.manifests[i]) \in keys,
                  "epoch/open-close")
       ?? Require(\A key \in keys : WithinDuration(b, key), "epoch/duration-exceeded")
       ?? Require(\A key \in keys : SpanCounted(b, key), "epoch/span-count-mismatch")
       ?? ForEach(b.receipts, LAMBDA r : Require(InTime(b, r), "epoch/late-insertion"))
       ?? Require(\A key \in keys : AnchoredByDeadline(b, key), "epoch/anchor-deadline")
       ?? Require(~Forked(b), "epoch/fork")

-----------------------------------------------------------------------------
\* Step 15

\* Entries are sorted by time, sequence and content id; of two entries that differ
\* in the last alone the smaller is taken to be listed first.
EntryBefore(e, f) ==
    \/ e.at < f.at
    \/ e.at = f.at /\ e.eseq < f.eseq
    \/ e.at = f.at /\ e.eseq = f.eseq /\ e.id # f.id

EntryMatches(e, r) ==
    e.kind = r.kind /\ e.issuer = r.by /\ e.iseq = r.iseq /\ e.eseq = r.eseq /\ e.at = r.at

IndexRoot(entries) == PromotedRoot(Mapped(entries, Leaf))

SpanOf(entries) ==
    LET sequences == {entries[i].eseq : i \in DOMAIN entries}
    IN [first |-> Min(sequences), last |-> Max(sequences)]

Indexed(b, m) ==
    LET entries == m.index.entries
    IN Require(\A i \in 2 .. Len(entries) : EntryBefore(entries[i - 1], entries[i]),
               "manifest/index-order")
       ?? Require(\A i \in DOMAIN entries : entries[i].leaf = i - 1, "manifest/index-gap")
       ?? Require(\A i, j \in DOMAIN entries :
                     i # j => entries[i].id # entries[j].id /\ entries[i].eseq # entries[j].eseq,
                  "manifest/index-duplicate")
       ?? Require(\A i \in DOMAIN entries : Carries(b.receipts, entries[i].id) =>
                     EntryMatches(entries[i], Find(b.receipts, entries[i].id)),
                  "manifest/index-receipt-mismatch")
       ?? Require(IF entries = <<>>
                  THEN m.span = [first |-> None, last |-> None] /\ m.reason = "padding"
                  ELSE m.span = SpanOf(entries),
                  "epoch/span-count-mismatch")
       ?? Require(entries # <<>> => m.index.root = IndexRoot(entries), "manifest/index-root-mismatch")

\* D-87 rule 0: a receipt of a carried epoch is in the index of its manifest.
Listed(b, r) ==
    \A i \in DOMAIN b.manifests : Key(b.manifests[i]) = Key(r) =>
        Carries(b.manifests[i].index.entries, r.id)

ManifestIndexes(b) ==
    ForEach(b.manifests, LAMBDA m : Indexed(b, m))
    ?? ForEach(b.receipts, LAMBDA r : Require(Listed(b, r), "manifest/receipt-unindexed"))

-----------------------------------------------------------------------------
\* Step 16

BatchBound(b, p) ==
    /\ Carries(b.batches, p.batch)
    /\ LET batch == Find(b.batches, p.batch)
       IN /\ p.size = batch.size /\ p.leaf.size = batch.size /\ p.index = p.leaf.index
          /\ <<p.leaf.tenant, p.leaf.site, p.leaf.epoch>> = <<batch.tenant, batch.site, batch.epoch>>

Item(p) == <<p.batch, p.leaf.tenant, p.leaf.site, p.leaf.epoch, p.leaf.digest>>

\* Each proof in turn; an item of a batch has one place in it.
Merkle(b) ==
    ForEach([i \in DOMAIN b.proofs |-> i], LAMBDA i :
        LET p == b.proofs[i]
        IN Require(BatchBound(b, p), "merkle/batch-binding")
           ?? Require(Len(p.siblings) = ExpectedPromotedSiblings(p.index, p.size), "merkle/path-length")
           ?? Require(VerifyPromotedProof(Leaf(p.leaf), p.index, p.size, p.siblings,
                                          Find(b.batches, p.batch).root),
                      "merkle/root-mismatch")
           ?? Require(\A j \in 1 .. i - 1 :
                         Item(b.proofs[j]) = Item(p) => b.proofs[j].index = p.index,
                      "merkle/duplicate-leaf"))

-----------------------------------------------------------------------------
\* Step 17

Planned(b, a) ==
    /\ Carries(b.manifests, a.manifest) /\ a.target.id # Null
    /\ \E i \in DOMAIN Find(b.manifests, a.manifest).targets :
          Find(b.manifests, a.manifest).targets[i] = a.target

AnchorLeaf(a) == Leaf(<<a.tenant, a.site, a.epoch, a.manifest, a.digest>>)

Included(a) ==
    /\ a.inclusion.leaf = AnchorLeaf(a) /\ a.inclusion.size = a.size /\ a.inclusion.index = a.index
    /\ VerifyRfcInclusion(AnchorLeaf(a), a.inclusion.index, a.inclusion.size, a.inclusion.siblings, a.root)

Consistent(a) ==
    a.consistency # None =>
        /\ a.consistency.newSize = a.size /\ a.consistency.newRoot = a.root
        /\ VerifyRfcConsistency(a.consistency.oldSize, a.consistency.newSize,
                                a.consistency.oldRoot, a.consistency.newRoot, a.consistency.path)

\* The digest of a manifest's payload has the name of the manifest.
BindsManifest(b, a) ==
    LET m == Find(b.manifests, a.manifest)
    IN <<a.tenant, a.site, a.epoch, a.digest>> = <<m.tenant, m.site, m.epoch, m.id>>

HeadsOf(b, a) == SelectSeq(b.heads, LAMBDA head : head.target = a.target.id)

\* The group of the target is declared, and a distinct basis repeats no operator and
\* no failure domain.
Independent(b, a) ==
    LET m == Find(b.manifests, a.manifest)
        named == SelectSeq(m.groups, LAMBDA group : group.id = a.target.group)
    IN /\ named # <<>> /\ named[1].operator = a.target.operator
       /\ m.basis = "distinct" => \A i, j \in DOMAIN m.groups : i # j =>
             m.groups[i].operator # m.groups[j].operator /\ m.groups[i].domain # m.groups[j].domain

Anchors(b) ==
    ForEach(b.anchors, LAMBDA a :
        Require(Planned(b, a), "anchor/target-unplanned")
        ?? Require(Included(a), "anchor/inclusion-invalid")
        ?? Require(Consistent(a), "anchor/consistency-invalid")
        ?? Require(BindsManifest(b, a), "anchor/manifest-binding")
        ?? Require(a.submitted - Find(b.manifests, a.manifest).closed <= Day, "anchor/submission-late")
        ?? Require(HeadsOf(b, a) # <<>>, "anchor/head-missing")
        ?? Require((HeadsOf(b, a)[1].size = a.head.size) <=> (HeadsOf(b, a)[1].root = a.head.root),
                   "anchor/head-mismatch")
        ?? Require(b.eval - HeadsOf(b, a)[1].observed <= Day, "anchor/head-stale")
        ?? Require(Independent(b, a), "anchor/independence-invalid"))
=============================================================================

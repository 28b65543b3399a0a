---------------------------------- MODULE Edits ----------------------------------
(***************************************************************************)
(* How the harness turns the conformant bundle into another one: the       *)
(* primitives of its mutation kit.  An artifact that is changed is signed  *)
(* again and identified again unless a definition says otherwise; here it  *)
(* keeps its name, and so does every reference to it, which is the cascade *)
(* that the kit carries out receipt by receipt.  Where the kit leaves some *)
(* references to the old name, the step that finds them comes after the    *)
(* step that finds the defect the fixture is about.                        *)
(***************************************************************************)
EXTENDS Fixtures

\* mutateArtifact(), mutateReceipt(), mutateReceiptWhere()
On(b, field, id, F(_)) ==
    [b EXCEPT ![field] = Mapped(@, LAMBDA a : IF a.id = id THEN F(a) ELSE a)]

Add(b, field, a) == [b EXCEPT ![field] = Append(@, a)]

Put(b, field, id, member, value) == On(b, field, id, LAMBDA a : [a EXCEPT ![member] = value])

Body(b, id, member, value) == On(b, "receipts", id, LAMBDA r : [r EXCEPT !.body[member] = value])

\* A document is malformed: `flaws` of the bundle itself or of one artifact.
Wrong(a, place, defect) == [a EXCEPT !.flaws = @ \cup {<<place, defect>>}]

Malformed(b, field, id, place, defect) == On(b, field, id, LAMBDA a : Wrong(a, place, defect))

\* A digest of an artifact does not recompute.
Broken(b, field, id, digest) == On(b, field, id, LAMBDA a : [a EXCEPT !.broken = @ \cup {digest}])

\* flipSignature()
FlipSignature(b, field, id) == On(b, field, id, LAMBDA a : [a EXCEPT !.sig = FALSE])

KeepReceipts(b, Test(_)) == [b EXCEPT !.receipts = SelectSeq(@, Test)]

Without(b, field, id) == [b EXCEPT ![field] = SelectSeq(@, LAMBDA a : a.id # id)]

ClearJournal(b) ==
    [b EXCEPT !.events = <<>>, !.manifests = <<>>, !.anchors = <<>>, !.batches = <<>>,
              !.proofs = <<>>, !.ranges = <<>>]

AddOpaquePayload(b, id) == Add(b, "payloads", Payload(id))

-----------------------------------------------------------------------------
\* The journal

Linked(events) ==
    LET s == SortSeq(events, LAMBDA e, f : e.seq < f.seq)
    IN [i \in DOMAIN s |-> [s[i] EXCEPT !.previous = IF i = 1 THEN None ELSE s[i - 1].id]] \o <<>>

RelinkEventChain(b) == [b EXCEPT !.events = Linked(@)]

Closing(e, m) ==
    IF e.event # "close" THEN e
    ELSE [e EXCEPT !.body.manifest = m.id, !.body.count = m.count, !.body.last = m.span.last,
                   !.body.deadline = m.deadline]

RebuildEventChain(b, m) ==
    [b EXCEPT !.events = Linked(Mapped(@, LAMBDA e : Closing(e, m)))]

\* The anchor record is bound to manifest m, and its root follows.
RebindAnchor(a, m, epoch) ==
    LET next == [a EXCEPT !.manifest = m.id, !.digest = m.id, !.epoch = epoch, !.consistency = None]
        leaf == AnchorLeaf(next)
        root == RfcClimb(leaf, a.inclusion.index, a.inclusion.size, a.inclusion.siblings).digest
    IN [next EXCEPT !.inclusion.leaf = leaf, !.root = root, !.head.root = root]

\* The first anchor follows the manifest, and the relying party's head follows the anchor.
RebuildAnchor(b, m) ==
    IF b.anchors = <<>> THEN b
    ELSE LET a == RebindAnchor(b.anchors[1], m, b.anchors[1].epoch)
         IN [b EXCEPT !.anchors[1] = a,
                      !.heads = Mapped(@, LAMBDA head : IF head.target = a.target.id
                                                         THEN [head EXCEPT !.root = a.root] ELSE head)]

RebuildManifest(b, F(_), keepAnchor) ==
    LET m == F(b.manifests[1])
        next == RebuildEventChain([b EXCEPT !.manifests[1] = m], m)
    IN IF keepAnchor THEN RebuildAnchor(next, m) ELSE [next EXCEPT !.anchors = <<>>]

Later == 100000

AddSecondEpoch(b, epoch, predecessor) ==
    LET m == [b.manifests[1] EXCEPT !.id = "manifest-second", !.epoch = epoch,
                                    !.predecessor = predecessor, !.opened = @ + Later,
                                    !.closed = @ + Later, !.deadline = b.manifests[1].closed + Later + Day]
        events == Linked(SubSeq(b.events, 1, 2))
        Second(e) == [Closing(e, m) EXCEPT !.id = [open |-> "open-second", close |-> "close-second"][@],
                                           !.epoch = epoch, !.at = @ + Later]
        open == Second(events[1])
    IN [b EXCEPT !.manifests = Append(@, m), !.anchors = <<>>,
                 !.events = @ \o <<open, [Second(events[2]) EXCEPT !.previous = open.id]>>]

MutateLastEvent(b, F(_)) == On(b, "events", "submitted", F)

MutateMerkleBatch(b, F(_)) == On(b, "batches", "batch", F)

AddManifestWithAnchor(b, epoch, owner) ==
    LET m == [b.manifests[1] EXCEPT !.id = "manifest-other", !.epoch = epoch, !.owner = owner, !.by = owner]
    IN [b EXCEPT !.manifests = Append(@, m),
                 !.anchors = Append(@, [RebindAnchor(@[1], m, epoch) EXCEPT !.id = "anchor-other"])]

\* The derived observation is of a later epoch than its parent, and says where that is anchored.
CrossEpochChild(b, manifest, anchor) ==
    On(KeepReceipts(b, LAMBDA r : r.kind = "observation"), "receipts", "r3", LAMBDA r :
       [r EXCEPT !.epoch = 43,
                 !.parents[1].cross = [manifest |-> manifest, anchor |-> anchor,
                                       reason |-> "historical_evidence"]])

-----------------------------------------------------------------------------
\* Authority

AddTopLevelDelegation(b, F(_)) == Add(b, "delegations", F(b.delegations[1]))

\* The delegation embedded in a decision gets an id of its own, which the decision follows.
EmbedIn(b, receipt, F(_)) ==
    On(b, "receipts", receipt, LAMBDA r :
       LET delegation == [F(r.body.delegation) EXCEPT !.id = "delegation-embedded"]
       IN [r EXCEPT !.body.delegation = delegation, !.body.decision.delegation = delegation.id])

MutateEmbeddedDelegation(b, F(_)) == EmbedIn(b, "r5", F)

MutatePresentation(b, F(_)) ==
    On(b, "receipts", "r2", LAMBDA r : [r EXCEPT !.body.presentation = F(@)])

CredentialWithUsage(b, usage) == SelectSeq(b.credentials, LAMBDA c : c.usage = usage)[1]

\* d77Credential(): the credential `id` of a key, like the first one with that usage.
D77Credential(b, id, key, usage, issuer, path, signer) ==
    Add(b, "credentials",
        [CredentialWithUsage(b, usage) EXCEPT !.id = id, !.subject = key, !.key = key,
                                              !.issuer = issuer, !.path = path, !.by = signer])

\* d77Authorization(): a root authorization, alone and without a journal.
D77Authorization(b, F(_)) ==
    On(KeepReceipts(ClearJournal(b), LAMBDA r : r.id = "r2"), "receipts", "r2",
       LAMBDA r : [r EXCEPT !.body = F(@)])

D77OmitUsage(b, usage) == [b EXCEPT !.roots[1].usages = @ \ {usage}]

UseTimes(b, kid) == {SigningTime(b, e) : e \in {e \in Entries(b) : e.a.by = kid}}

RevokedBeforeUse(b, s) ==
    [s EXCEPT !.status = "revoked", !.instant = Min(UseTimes(b, "ep_signing"))]

CompromisedBeforeUse(b, s) ==
    [s EXCEPT !.status = "compromised", !.instant = Min(UseTimes(b, "ep_signing"))]

AddStatusSnapshot(b, F(_)) ==
    Add(b, "statuses", [F(b.statuses[1]) EXCEPT !.id = "status-refreshed"])

AddRotation(b, F(_)) ==
    Add(b, "rotations", [F(b.rotations[1]) EXCEPT !.id = "rotation-further"])

Outsider == "d77_outsider"

\* The root rotates to a self-signed successor, in the trust store or not.
D80RootRotation(b, successorInStore) ==
    LET next == D77Credential(b, CredentialId(Outsider), Outsider, "credential_issuing", Outsider, <<>>, Outsider)
        stored == IF successorInStore
                  THEN [next EXCEPT !.roots = Append(@, [@[1] EXCEPT !.kid = Outsider])] ELSE next
    IN AddRotation(stored, LAMBDA r :
           [r EXCEPT !.predecessor = CredentialId("credential_issuing"), !.successor = CredentialId(Outsider),
                     !.predecessorKid = "credential_issuing", !.successorKid = Outsider,
                     !.effective = @ + 100, !.sequence = 2])

-----------------------------------------------------------------------------
\* Receipts

\* divergeRequest(): the roots that name the request follow its commitment.
DivergeRequest(b, F(_)) == On(b, "requests", "request-view", F)

IntendParents(r) == [r EXCEPT !.intended = Mapped(r.parents, LAMBDA e : e.parent)]

\* updateAttemptFlow(): the attempt that was dispatched; what was observed of it is dropped.
UpdateAttemptFlow(b, F(_)) ==
    KeepReceipts(On(b, "receipts", "r7", LAMBDA r : IntendParents(F(r))),
                 LAMBDA r : r.kind # "outcome_observation")

\* addLaterDominatorDefect(): the refused attempt is for an action that the delegation
\* does not cover, and a second dispatch, listed after the first, is of that attempt.
AddLaterDominatorDefect(b) ==
    LET preset == "camera.ptz.preset"
        attempt(r) == [r EXCEPT !.body.action.name = preset, !.body.command.name = preset,
                                !.body.command.operation = preset, !.body.command.id = "command-preset",
                                !.body.disposition = "eligible_for_dispatch", !.body.refusal = None]
        second == [Find(b.receipts, "r8") EXCEPT
                      !.id = "r10", !.eseq = 10, !.iseq = 110, !.parents[1].parent = "r6",
                      !.body.attempt = "r6", !.body.command = "command-preset", !.digest = <<"envelope", "r10">>]
    IN Add(On(b, "receipts", "r6", attempt), "receipts", IntendParents(second))

IndexProofs(m) ==
    LET leaves == Mapped(m.index.entries, Leaf)
    IN [i \in DOMAIN leaves |-> [entry |-> m.index.entries[i], size |-> Len(leaves), index |-> i - 1,
                                 siblings |-> PromotedProof(leaves, i - 1)]] \o <<>>

MakeCompleteRange(b) ==
    LET m == b.manifests[1]
        proofs == SelectSeq(IndexProofs(m), LAMBDA item :
                      b.selector.from <= item.entry.at /\ item.entry.at < b.selector.until)
    IN [b EXCEPT !.coverage = "complete",
                 !.ranges = <<[manifest |-> m.id, commitment |-> b.commitment,
                               first |-> IF proofs = <<>> THEN None ELSE proofs[1].entry.leaf,
                               entries |-> proofs, left |-> None, right |-> None]>>]

\* reindexCarried(): the index of the first manifest is made again over these entries.
Reindexed(b, entries) ==
    RebuildManifest(b, LAMBDA m : [m EXCEPT !.index = IndexOver(entries)], TRUE)

-----------------------------------------------------------------------------
\* What a fixture is expected to lead to

\* The evaluation time of the call is that of the bundle, and it has no configuration.
Fixture(name, code, at, bundle) ==
    [name |-> name, code |-> code, step |-> at, bundle |-> bundle, now |-> bundle.eval,
     configuration |-> None,
     limits |-> [x \in {} |-> None], present |-> {}, absent |-> {}]

Conformant(name, bundle) == Fixture(name, OK, 20, bundle)

Reporting(given, limits, present, absent) ==
    [given EXCEPT !.limits = limits, !.present = present, !.absent = absent]

\* A table of edits <<name, code, step, bundle>>
Table(table) == Mapped(table, LAMBDA row : Fixture(row[1], row[2], row[3], row[4]))
=============================================================================

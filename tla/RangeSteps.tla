------------------------------- MODULE RangeSteps -------------------------------
(***************************************************************************)
(* Steps 18 and 19 of the verifier: what a bundle claims to be complete    *)
(* about, and the evidence behind the classes that its receipts declare.   *)
(***************************************************************************)
EXTENDS EpochSteps

Meets(wanted, values) == wanted # None => wanted \cap values # {}

InInterval(e, selector) == selector.from <= e.at /\ e.at < selector.until

EntryMatchesSelector(e, selector) ==
    /\ InInterval(e, selector)
    /\ e.kind \in selector.kinds
    /\ Meets(selector.subjects, e.subjects) /\ Meets(selector.correlations, e.correlations)
    /\ Meets(selector.issuers, {e.issuer})

\* The last leaf that an earlier range lists for the same manifest, or -1.
LastBefore(b, n) ==
    LET earlier == {k \in 1 .. n - 1 : /\ b.ranges[k].manifest = b.ranges[n].manifest
                                       /\ b.ranges[k].entries # <<>>}
    IN IF earlier = {} THEN -1 ELSE Last(b.ranges[Max(earlier)].entries).entry.leaf

Contiguous(b, n) ==
    LET range == b.ranges[n]
    IN IF range.entries = <<>> THEN range.first = None
       ELSE /\ range.first = range.entries[1].entry.leaf
            /\ range.entries[1].entry.leaf > LastBefore(b, n)
            /\ \A i \in DOMAIN range.entries : range.entries[i].entry.leaf = range.first + i - 1

InIndex(m, item) ==
    /\ item.size = m.index.count /\ item.index = item.entry.leaf
    /\ VerifyPromotedProof(Leaf(item.entry), item.index, item.size, item.siblings, m.index.root)

\* The entries of a manifest in the interval of the selector.
TemporalSlice(b, m) ==
    LET slice[i \in 0 .. Len(m.index.entries)] ==
            IF i = 0 THEN <<>>
            ELSE IF InInterval(m.index.entries[i], b.selector) THEN Append(slice[i - 1], m.index.entries[i])
            ELSE slice[i - 1]
    IN slice[Len(m.index.entries)]

RangeFault(b, n) ==
    LET range == b.ranges[n]
    IN Require(Carries(b.manifests, range.manifest), "bundle/range-manifest-missing")
       ?? Require(range.commitment = b.commitment, "bundle/range-selector-mismatch")
       ?? Require(Contiguous(b, n), "bundle/range-noncontiguous")
       ?? LET m == Find(b.manifests, range.manifest)
          IN Require(/\ \A i \in DOMAIN range.entries : InIndex(m, range.entries[i])
                     /\ \A side \in {range.left, range.right} : side # None => InIndex(m, side),
                     "bundle/range-proof-invalid")
             ?? Require(/\ Len(range.entries) = Len(TemporalSlice(b, m))
                        /\ \A i \in DOMAIN range.entries : range.entries[i].entry = TemporalSlice(b, m)[i],
                        "bundle/range-boundary")

\* What the ranges prove to be selected.
Selected(b) ==
    UNION {{item.entry.id : item \in {item \in Elements(b.ranges[n].entries) :
               EntryMatchesSelector(item.entry, b.selector)}} : n \in DOMAIN b.ranges}

\* The ids and what the carried receipts among them rest on.
Behind(b, ids) ==
    Reach([id \in {r.id : r \in Elements(b.receipts)} |->
              {e.parent : e \in Elements(Find(b.receipts, id).parents)}], ids)

\* The first index entry for a receipt in the order of the manifests.
Listing(b, id) == {i \in DOMAIN b.manifests : Carries(b.manifests[i].index.entries, id)}

EntryOf(b, id) == Find(b.manifests[Min(Listing(b, id))].index.entries, id)

\* Mutant: receipts that nothing selected rests on may be carried along.
InScopeAlways(b, r, reachable) == TRUE

InScope(b, r, reachable) ==
    \/ r.id \in reachable
    \/ Listing(b, r.id) # {} /\ EntryMatchesSelector(EntryOf(b, r.id), b.selector)

Complete(b) ==
    Require(b.ranges # <<>>, "bundle/coverage-overclaim")
    ?? Require(\A id \in Selected(b) : Carries(b.receipts, id), "bundle/selected-receipt-missing")
    ?? LET reachable == Behind(b, Selected(b))
       IN Require(\A r \in Elements(b.receipts) : InScope(b, r, reachable), "bundle/artifact-out-of-scope")

Ranges(b) ==
    Require(b.selector.from < b.selector.until, "bundle/selector-interval")
    ?? ForEach([n \in DOMAIN b.ranges |-> n], LAMBDA n : RangeFault(b, n))
    ?? IF b.coverage = "complete" THEN Complete(b) ELSE OK

-----------------------------------------------------------------------------
\* Step 19

TimeClasses == <<"asserted", "boot_bound", "externally_anchored">>
ProvenanceClasses == <<"self_asserted", "proxy_captured", "provider_attested">>
OutcomeLevels == <<"accepted", "dispatched", "device_acknowledged", "independently_sensed">>

Rank(classes, class) == CHOOSE i \in DOMAIN classes : classes[i] = class

\* A class that needs an attestation has its payload carried.
Attested(b, id, code) ==
    Require(id # None, code) ?? Require(Carries(b.payloads, id), "manifest/payload-missing")

\* The time of a receipt is bounded by an anchor of an earlier epoch of its owner.
AnchoredBefore(b, r) ==
    /\ Carries(b.anchors, r.time.anchor)
    /\ LET a == Find(b.anchors, r.time.anchor)
       IN /\ Carries(b.manifests, a.manifest)
          /\ a.epoch < r.epoch /\ a.tenant = r.tenant /\ a.site = r.site
          /\ Find(b.manifests, a.manifest).owner = r.owner
          /\ a.accepted <= r.at

TimeFault(b, r) ==
    (IF Rank(TimeClasses, r.time.class) >= 2
     THEN Attested(b, r.time.boot, "evidence/time-class-unsatisfied") ELSE OK)
    ?? Require(r.time.class = "externally_anchored" => AnchoredBefore(b, r),
               "evidence/time-class-unsatisfied")

ProvenanceFault(b, r) ==
    IF r.provenance = None THEN OK
    ELSE LET rank == Rank(ProvenanceClasses, r.provenance.class)
         IN (IF rank >= 2 THEN Attested(b, r.provenance.capture, "evidence/provenance-class-unsatisfied") ELSE OK)
            ?? (IF rank = 3 THEN Attested(b, r.provenance.provider, "evidence/provenance-class-unsatisfied") ELSE OK)

AncestorsOf(b, r) ==
    {p \in Elements(b.receipts) : p.id \in Behind(b, {e.parent : e \in Elements(r.parents)})}

\* Mutant: only the direct parents of the observation are looked at.
SensedApartFromParents(b, r) ==
    \A e \in Elements(r.parents) :
        LET p == Find(b.receipts, e.parent)
        IN p.kind = "observation" => p.body.domain # r.body.domain

\* The observer shares no failure domain with a device whose observation it rests on.
SensedApart(b, r) ==
    \A p \in AncestorsOf(b, r) : p.kind = "observation" => p.body.domain # r.body.domain

OutcomeFault(b, r) ==
    IF r.outcome = None \/ r.outcome.level # "independently_sensed" THEN OK
    ELSE Attested(b, r.outcome.predicate, "evidence/outcome-class-unsatisfied")
         ?? Require(SensedApart(b, r), "evidence/observer-not-independent")

EvidenceFault(b) ==
    ForEach(b.receipts, LAMBDA r : TimeFault(b, r) ?? ProvenanceFault(b, r) ?? OutcomeFault(b, r))

\* The highest class that is declared.
Highest(classes, declared) ==
    IF declared = {} THEN "not_evaluated" ELSE classes[Max({Rank(classes, c) : c \in declared})]

\* The limits of the verdict: a contradicted or an unknown outcome is not outranked.
EvidenceLimits(b) ==
    LET receipts == Elements(b.receipts)
        levels == {r.outcome.level : r \in {r \in receipts : r.outcome # None}}
    IN [time |-> Highest(TimeClasses, {r.time.class : r \in receipts}),
        provenance |-> Highest(ProvenanceClasses,
                               {r.provenance.class : r \in {r \in receipts : r.provenance # None}}),
        outcome |-> IF "contradicted" \in levels THEN "contradicted"
                    ELSE IF "unknown" \in levels THEN "unknown"
                    ELSE Highest(OutcomeLevels, levels)]
=============================================================================

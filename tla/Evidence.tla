------------------------------- MODULE Evidence -------------------------------
(***************************************************************************)
(* What a bundle carries and how the verifier judges it: emission identity *)
(* (step 9), one-time use (step 11), epochs (step 14), manifest index      *)
(* (step 15), and the history phase (step 20) in which the same receipts   *)
(* are compared with what the relying party supplied.  The other steps are *)
(* the constant field `defect` of a bundle.                                *)
(*                                                                         *)
(* A receipt is [id, digest, kid, seq, key, eseq, once]: its receipt_id,   *)
(* the hash of its envelope, its issuer coordinate (kid, seq), its epoch   *)
(* coordinate (key = owner and epoch_id, eseq), and its one-time           *)
(* coordinate (replay domain and invocation) or None.  An index entry is   *)
(* [id, kid, seq, eseq].  A closed epoch is [key, mid, index, chain]: a    *)
(* manifest and the events of its epoch in event_seq order, each event     *)
(* [event, mid] (a close event names a manifest).  A bundle is             *)
(* [receipts, epochs, at, defect].                                         *)
(***************************************************************************)
EXTENDS Naturals, Sequences, FiniteSets

CONSTANTS
    Bundles,        \* bundles that may be put before a verifier
    None,           \* no one-time coordinate
    MaxRetained     \* bound of the code on supplied retained bundles (16)

Receipts == UNION {b.receipts : b \in Bundles}
Epochs == UNION {b.epochs : b \in Bundles}

\* A hash commits to what it is computed of.
ASSUME DigestsCommit ==
    /\ \A r, s \in Receipts : r.digest = s.digest => r = s
    /\ \A e, f \in Epochs : e.mid = f.mid => e.key = f.key /\ e.index = f.index

ASSUME BundlesAssumption ==
    /\ \A b \in Bundles : b.defect \in 0 .. 19 /\ b.at \in Nat
    /\ \A e \in Epochs : e.chain \in Seq([event : {"open", "close", "anchor_submitted"},
                                          mid : {f.mid : f \in Epochs} \cup {None}])
    /\ MaxRetained \in Nat
    /\ None \notin Bundles

-----------------------------------------------------------------------------
\* Emissions

EmissionOf(r) == [id |-> r.id, digest |-> r.digest, kid |-> r.kid, seq |-> r.seq,
                  key |-> r.key, eseq |-> r.eseq]
EmissionsOf(R) == {EmissionOf(r) : r \in R}

Issuer(r) == <<r.kid, r.seq>>
Epoch(r) == <<r.key, r.eseq>>
SameCoordinates(r, s) == Issuer(r) = Issuer(s) /\ Epoch(r) = Epoch(s)
SameEnvelope(r, s) == r.id = s.id /\ r.digest = s.digest

\* One coordinate names two receipts.
Equivocate(r, s) == r.id # s.id /\ (Issuer(r) = Issuer(s) \/ Epoch(r) = Epoch(s))

\* One one-time coordinate was used for two contents.
UsedTwice(r, s) == r.once # None /\ r.once = s.once /\ r.digest # s.digest

-----------------------------------------------------------------------------
\* Steps 1 to 19: the bundle alone

Agree(c, d) == \A i \in DOMAIN c \cap DOMAIN d : c[i] = d[i]

At(e, kind) == {i \in DOMAIN e.chain : e.chain[i].event = kind}

\* Mutant: the close event is not compared with the manifest.
ClosedUnnamed(e) ==
    \E open, close \in DOMAIN e.chain :
        At(e, "open") = {open} /\ At(e, "close") = {close} /\ open < close

Closed(e) ==
    \E open, close \in DOMAIN e.chain :
        /\ At(e, "open") = {open} /\ At(e, "close") = {close} /\ open < close
        /\ e.chain[close].mid = e.mid

EntryMatches(n, r) == n.kid = r.kid /\ n.seq = r.seq /\ n.eseq = r.eseq

Lists(e, r) == \E n \in e.index : n.id = r.id

IndexSound(b) ==
    /\ \A e \in b.epochs : \A m, n \in e.index : m.id = n.id \/ m.eseq = n.eseq => m = n
    /\ \A e \in b.epochs, r \in b.receipts :
          /\ \A n \in e.index : n.id = r.id => EntryMatches(n, r)
          /\ r.key = e.key => Lists(e, r)

\* Mutant: no pass over the bundle's own receipts.
FailsUnpaired(b, step) ==
    \/ step = b.defect
    \/ step = 3 /\ \E r, s \in b.receipts : r.id = s.id /\ r # s
    \/ step = 11 /\ \E r, s \in b.receipts : UsedTwice(r, s)
    \/ step = 14 /\ \E e, f \in b.epochs : ~Closed(e) \/ (e.key = f.key /\ e # f)
    \/ step = 15 /\ ~IndexSound(b)

\* Mutant: one-time use is left to the supplied replay state.
FailsUnreplayed(b, step) ==
    \/ step = b.defect
    \/ step = 3 /\ \E r, s \in b.receipts : r.id = s.id /\ r # s
    \/ step = 9 /\ \E r, s \in b.receipts : Equivocate(r, s)
    \/ step = 14 /\ \E e, f \in b.epochs : ~Closed(e) \/ (e.key = f.key /\ e # f)
    \/ step = 15 /\ ~IndexSound(b)

Fails(b, step) ==
    \/ step = b.defect
    \/ step = 3 /\ \E r, s \in b.receipts : r.id = s.id /\ r # s
    \/ step = 9 /\ \E r, s \in b.receipts : Equivocate(r, s)
    \/ step = 11 /\ \E r, s \in b.receipts : UsedTwice(r, s)
    \/ step = 14 /\ \E e, f \in b.epochs : ~Closed(e) \/ (e.key = f.key /\ e # f)
    \/ step = 15 /\ ~IndexSound(b)

Reaches(b, step) == \A earlier \in 1 .. step - 1 : ~Fails(b, earlier)

-----------------------------------------------------------------------------
\* The supplied state, before the evaluation begins

RetainedEpochs(R) == UNION {r.epochs : r \in R}
RetainedReceipts(R) == UNION {r.receipts : r \in R}

\* D-86 rule 0(a)
PriorContradictsItself(P) == \E p, q \in P : SameEnvelope(p, q) /\ ~SameCoordinates(p, q)

\* Mutant: a bundle may vouch for itself.
RetainedRefusedUnlessOther(R, b) ==
    \/ Cardinality(R) > MaxRetained
    \/ \E r \in R : ~Reaches(r, 20) \/ r.at > b.at
    \/ \E e, f \in RetainedEpochs(R) : e.key = f.key /\ (e.mid # f.mid \/ ~Agree(e.chain, f.chain))

\* loadRetained(): each bundle is valid at its own time, is not the current
\* one, and no two disagree about an epoch.
RetainedRefused(R, b) ==
    \/ Cardinality(R) > MaxRetained
    \/ b \in R
    \/ \E r \in R : ~Reaches(r, 20) \/ r.at > b.at
    \/ \E e, f \in RetainedEpochs(R) : e.key = f.key /\ (e.mid # f.mid \/ ~Agree(e.chain, f.chain))

\* Mutant: the entries are not compared with the retained indexes.
PriorContradictsReceiptsOnly(P, R) ==
    \E p \in P, r \in RetainedReceipts(R) : SameEnvelope(p, r) /\ ~SameCoordinates(p, r)

PriorContradictsRetained(P, R) ==
    \/ \E p \in P, r \in RetainedReceipts(R) : SameEnvelope(p, r) /\ ~SameCoordinates(p, r)
    \/ \E p \in P, e \in RetainedEpochs(R) :
          p.key = e.key /\ ~\E n \in e.index : n.id = p.id /\ EntryMatches(n, p)

\* D-86 rule 0(b), judged at step 9 of the evaluation
PriorContradictsBundle(P, b) ==
    \E p \in P, r \in b.receipts : SameEnvelope(p, r) /\ ~SameCoordinates(p, r)

\* A usage error: no verdict.
Refused(P, R, b) ==
    \/ PriorContradictsItself(P)
    \/ RetainedRefused(R, b)
    \/ PriorContradictsRetained(P, R)
    \/ Reaches(b, 9) /\ PriorContradictsBundle(P, b)

-----------------------------------------------------------------------------
\* Step 20, the history phase

Classes == <<"identity/reuse", "identity/coordinate-equivocation", "replay/one-time-reused",
             "epoch/fork", "manifest/receipt-unindexed", "manifest/index-receipt-mismatch">>

\* Mutant: another envelope at the same coordinates is taken for a duplicate.
ReusesElsewhere(P, b) ==
    \E p \in P, r \in b.receipts : r.id = p.id /\ r.digest # p.digest /\ ~SameCoordinates(r, p)

Reuses(P, b) == \E p \in P, r \in b.receipts : r.id = p.id /\ r.digest # p.digest

\* Mutant: the retired rollback rule of D-86 (a lower sequence than history's fails).
EquivocatesOrRollsBack(P, b) ==
    \E p \in P, r \in b.receipts :
        Equivocate(r, p) \/ (r.id # p.id /\ r.key = p.key /\ r.eseq < p.eseq)

Equivocates(P, b) == \E p \in P, r \in b.receipts : Equivocate(r, p)

Replays(U, b) == \E u \in U, r \in b.receipts : UsedTwice(r, u)

ManifestForks(R, b) == \E e \in RetainedEpochs(R), f \in b.epochs : e.key = f.key /\ e.mid # f.mid
EventForks(R, b) == \E e \in RetainedEpochs(R), f \in b.epochs : e.key = f.key /\ ~Agree(e.chain, f.chain)

Forks(R, b) == ManifestForks(R, b) \/ EventForks(R, b)

Unindexed(R, b) == \E e \in RetainedEpochs(R), r \in b.receipts : r.key = e.key /\ ~Lists(e, r)

Mismatched(R, b) ==
    \E e \in RetainedEpochs(R), r \in b.receipts :
        r.key = e.key /\ \E n \in e.index : n.id = r.id /\ ~EntryMatches(n, r)

\* Class c of the phase fails.
Conflict(P, U, R, b, c) ==
    \/ c = 1 /\ Reuses(P, b)
    \/ c = 2 /\ Equivocates(P, b)
    \/ c = 3 /\ Replays(U, b)
    \/ c = 4 /\ Forks(R, b)
    \/ c = 5 /\ Unindexed(R, b)
    \/ c = 6 /\ Mismatched(R, b)

\* retained_manifest_membership of a conformant verdict
AllListed(R, b) ==
    b.receipts # {} /\ \A r \in b.receipts : \E e \in RetainedEpochs(R) : r.key = e.key /\ Lists(e, r)
=============================================================================

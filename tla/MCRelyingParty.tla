---------------------------- MODULE MCRelyingParty ----------------------------
(***************************************************************************)
(* Worlds for RelyingParty: receipts and manifests of honest producers,    *)
(* and forged, re-signed and backdated ones around them.                   *)
(***************************************************************************)
EXTENDS RelyingParty, TLC

R(id, digest, kid, seq, key, eseq, once) ==
    [id |-> id, digest |-> digest, kid |-> kid, seq |-> seq, key |-> key, eseq |-> eseq, once |-> once]

Listing(S) == {[id |-> r.id, kid |-> r.kid, seq |-> r.seq, eseq |-> r.eseq] : r \in S}

Open == [event |-> "open", mid |-> None]
Close(mid) == [event |-> "close", mid |-> mid]
Anchored == [event |-> "anchor_submitted", mid |-> None]

E(key, mid, S, chain) == [key |-> key, mid |-> mid, index |-> Listing(S), chain |-> chain]

B(receipts, epochs, at) == [receipts |-> receipts, epochs |-> epochs, at |-> at, defect |-> 0]

-----------------------------------------------------------------------------
a0 == R("a", "da", "agent", 1, "k", 0, "once")
a1 == R("b", "db", "ep", 2, "k", 1, None)
a1Resigned == R("b", "db2", "ep", 2, "k", 1, None)    \* the same receipt, another envelope
a2 == R("c", "dc", "ep", 2, "j", 0, None)               \* ep's sequence 2 again
a4 == R("e", "de", "agent", 3, "j", 1, "once")          \* the one-time coordinate again
a5 == R("f", "df", "agent", 4, "k", 2, None)            \* inserted into the closed epoch k

m == E("k", "m", {a0, a1}, <<Open, Close("m")>>)
mLong == E("k", "m", {a0, a1}, <<Open, Close("m"), Anchored>>)
mFork == E("k", "mf", {a0, a1, a5}, <<Open, Close("mf")>>)
mWrong == E("k", "mf", {a0, a1, a5}, <<Open, Close("m")>>)
mLies == E("k", "ml", {[a0 EXCEPT !.seq = 7], a1}, <<Open, Close("ml")>>)

Unparsed(b) == [b EXCEPT !.defect = 4]
Dangling(b) == [b EXCEPT !.defect = 12]

\* Receipts that contradict each other, within a bundle and across bundles, and
\* manifests that fork, lie, or omit a receipt of their epoch.
ForgedBundles ==
    {B({a0}, {}, 2), B({a0, a1}, {m}, 2), B({a1}, {mLong}, 3), B({a1Resigned}, {}, 2),
     B({a2}, {}, 2), B({a4, a5}, {}, 3), B({a1, a2}, {}, 2), B({a0, a4}, {}, 2),
     B({a1, a1Resigned}, {}, 2), B({a5}, {mFork}, 3), B({a5}, {mWrong}, 3),
     B({}, {mLies}, 2), B({a0}, {mLies}, 2)}

\* Among them, the bundles whose producers are honest: partial, overlapping, and
\* the second of them superseded by the third.
HonestBundles == {B({a0}, {}, 2), B({a0, a1}, {m}, 2), B({a1}, {mLong}, 3)}

\* What two examiners may disagree about.
DisputedBundles ==
    {B({a0, a1}, {m}, 2), B({a1}, {mLong}, 3), B({a1Resigned}, {}, 2), B({a1, a2}, {}, 2),
     Dangling(B({a1Resigned}, {}, 2)), Unparsed(B({a1}, {}, 2))}

\* An entry that puts the envelope of a1 elsewhere, and one for the closed epoch k.
ForeignEntries == {EmissionOf([a1 EXCEPT !.seq = 9]), EmissionOf(a5)}

NoEntries == {}
NoBundles == {}
ExaminerSymmetry == Permutations(Examiners)
=============================================================================

-------------------------- MODULE RelyingPartyProofs --------------------------
(***************************************************************************)
(* The promises of RelyingParty, for every set of bundles, of examiners    *)
(* and of entries they may have from elsewhere.                            *)
(***************************************************************************)
EXTENDS RelyingParty, TLAPS

-----------------------------------------------------------------------------
\* Types: every verdict is one of those the verifier can sign, and what an
\* examiner holds is made of receipts and bundles it was shown.

LEMMA BundleParts ==
    ASSUME NEW b \in Bundles
    PROVE  b.receipts \subseteq Receipts /\ b.epochs \subseteq Epochs
BY DEF Receipts, Epochs

LEMMA EmissionsUnion ==
    ASSUME NEW S, NEW T
    PROVE  /\ EmissionsOf(S \cup T) = EmissionsOf(S) \cup EmissionsOf(T)
           /\ S \subseteq T => EmissionsOf(S) \subseteq EmissionsOf(T)
BY DEF EmissionsOf

\* The verdict of an examiner is of the types TypeOK names.
Verdicts == {NoVerdict} \cup
    [bundle : Bundles, supplied : SUBSET Bundles, step : 0 .. 20, reason : Reasons,
     listed : BOOLEAN]

LEMMA ReasonNames ==
    /\ "usage" \in Reasons /\ "failed" \in Reasons /\ "conformant" \in Reasons
    /\ \A c \in DOMAIN Classes : Classes[c] \in Reasons
    /\ 0 \in 0 .. 20 /\ 20 \in 0 .. 20 /\ \A step \in 1 .. 19 : step \in 0 .. 20
    /\ TRUE \in BOOLEAN /\ FALSE \in BOOLEAN
BY DEF Reasons

LEMMA TellTypeOK ==
    ASSUME TypeOK, NEW x \in Examiners, NEW b \in Bundles, NEW R \in SUBSET retained[x],
           NEW step \in 0 .. 20, NEW listed \in BOOLEAN,
           NEW reason \in Reasons,
           Tell(x, b, R, step, reason, listed)
    PROVE  verdict' \in [Examiners -> Verdicts]
<1>1. R \in SUBSET Bundles
  BY DEF TypeOK
<1>2. [bundle |-> b, supplied |-> R, step |-> step, reason |-> reason, listed |-> listed] \in Verdicts
  BY <1>1 DEF Verdicts
<1> QED BY <1>2 DEF TypeOK, Tell, Verdicts

\* What one Evaluate step of x does to the variables, by its four outcomes.
LEMMA EvaluateTypeOK ==
    ASSUME TypeOK, NEW x \in Examiners, Evaluate(x)
    PROVE  TypeOK'
<1>1. PICK b \in Bundles, R \in SUBSET retained[x] :
          Refuse(x, b, R) \/ Reject(x, b, R) \/ RejectHistory(x, b, R) \/ Accept(x, b, R)
  BY DEF Evaluate
<1>2. CASE Refuse(x, b, R)
  <2>1. Tell(x, b, R, 0, "usage", FALSE)
    BY <1>2 DEF Refuse
  <2>2. verdict' \in [Examiners -> Verdicts]
    BY <2>1, ReasonNames, TellTypeOK
  <2> QED BY <1>2, <2>2 DEF Refuse, TypeOK, Verdicts
<1>3. CASE Reject(x, b, R)
  <2>1. PICK step \in 1 .. 19 : Tell(x, b, R, step, "failed", FALSE)
    BY <1>3 DEF Reject
  <2>2. verdict' \in [Examiners -> Verdicts]
    BY <2>1, ReasonNames, TellTypeOK
  <2> QED BY <1>3, <2>2 DEF Reject, TypeOK, Verdicts
<1>4. CASE RejectHistory(x, b, R)
  <2>1. PICK c \in DOMAIN Classes : Tell(x, b, R, 20, Classes[c], FALSE)
    BY <1>4 DEF RejectHistory
  <2>2. verdict' \in [Examiners -> Verdicts]
    BY <2>1, ReasonNames, TellTypeOK
  <2> QED BY <1>4, <2>2 DEF RejectHistory, TypeOK, Verdicts
<1>5. CASE Accept(x, b, R)
  <2>1. PICK listed \in BOOLEAN : Tell(x, b, R, 20, "conformant", listed)
    <3>1. AllListed(R, b) \in BOOLEAN
      BY DEF AllListed
    <3>2. Tell(x, b, R, 20, "conformant", AllListed(R, b))
      BY <1>5 DEF Accept
    <3> QED BY <3>1, <3>2 DEF Tell
  <2>2. verdict' \in [Examiners -> Verdicts]
    BY <2>1, ReasonNames, TellTypeOK
  <2>3. b.receipts \subseteq Receipts /\ EmissionsOf(b.receipts) \subseteq EmissionsOf(Receipts)
    BY BundleParts, EmissionsUnion
  <2>4. accepted' \in [Examiners -> SUBSET Receipts] /\ uses' \in [Examiners -> SUBSET Receipts]
    BY <1>5, <2>3 DEF Accept, TypeOK
  <2>5. prior' \in [Examiners -> SUBSET (EmissionsOf(Receipts) \cup Foreign)]
    BY <1>5, <2>3 DEF Accept, TypeOK
  <2> QED BY <1>5, <2>2, <2>4, <2>5 DEF Accept, TypeOK, Verdicts
<1> QED BY <1>1, <1>2, <1>3, <1>4, <1>5

LEMMA RetainTypeOK ==
    ASSUME TypeOK, NEW x \in Examiners, Retain(x)
    PROVE  TypeOK'
<1>1. verdict[x].bundle \in Bundles
  BY DEF TypeOK, Retain, NoVerdict
<1> QED BY <1>1 DEF TypeOK, Retain

LEMMA ImportTypeOK ==
    ASSUME TypeOK, NEW x \in Examiners, Import(x)
    PROVE  TypeOK'
BY DEF TypeOK, Import

THEOREM TypeCorrect == Spec => []TypeOK
<1>1. Init => TypeOK
  BY DEF Init, TypeOK
<1>2. TypeOK /\ [Next]_vars => TypeOK'
  <2> SUFFICES ASSUME TypeOK, [Next]_vars PROVE TypeOK'
    OBVIOUS
  <2>1. ASSUME NEW x \in Examiners, Evaluate(x) PROVE TypeOK'
    BY <2>1, EvaluateTypeOK
  <2>2. ASSUME NEW x \in Examiners, Retain(x) PROVE TypeOK'
    BY <2>2, RetainTypeOK
  <2>3. ASSUME NEW x \in Examiners, Import(x) PROVE TypeOK'
    BY <2>3, ImportTypeOK
  <2>4. CASE UNCHANGED vars
    BY <2>4 DEF vars, TypeOK
  <2> QED BY <2>1, <2>2, <2>3, <2>4 DEF Next
<1> QED BY <1>1, <1>2, PTL DEF Spec

-----------------------------------------------------------------------------
\* Emission identity

\* A bundle that reaches step 20 passed every step before.
LEMMA Passed ==
    ASSUME NEW b, Reaches(b, 20)
    PROVE  /\ \A r, s \in b.receipts : ~Contradict(r, s) /\ ~UsedTwice(r, s)
           /\ \A e \in b.epochs : Closed(e)
           /\ \A e, f \in b.epochs : e.key = f.key => e = f
           /\ IndexSound(b)
<1>1. \A step \in 1 .. 19 : ~Fails(b, step)
  BY DEF Reaches
<1>2. ~Fails(b, 3) /\ ~Fails(b, 9) /\ ~Fails(b, 11) /\ ~Fails(b, 14) /\ ~Fails(b, 15)
  BY <1>1
<1> QED BY <1>2 DEF Fails, Contradict

\* A bundle without conflict passed every class of the history phase.
LEMMA NoConflict ==
    ASSUME NEW P, NEW U, NEW R, NEW b, \A c \in DOMAIN Classes : ~Conflict(P, U, R, b, c)
    PROVE  /\ ~Reuses(P, b) /\ ~Equivocates(P, b) /\ ~Replays(U, b)
           /\ ~Forks(R, b) /\ ~Unindexed(R, b) /\ ~Mismatched(R, b)
<1>1. DOMAIN Classes = 1 .. 6
  BY DEF Classes
<1>2. /\ ~Conflict(P, U, R, b, 1) /\ ~Conflict(P, U, R, b, 2) /\ ~Conflict(P, U, R, b, 3)
      /\ ~Conflict(P, U, R, b, 4) /\ ~Conflict(P, U, R, b, 5) /\ ~Conflict(P, U, R, b, 6)
  BY <1>1
<1> QED BY <1>2 DEF Conflict

LEMMA Symmetric ==
    ASSUME NEW r, NEW s
    PROVE  /\ Contradict(r, s) <=> Contradict(s, r)
           /\ UsedTwice(r, s) <=> UsedTwice(s, r)
BY DEF Contradict, Equivocate, UsedTwice

\* What an entry contradicts, its receipt contradicts.
LEMMA EntryStandsFor ==
    ASSUME NEW P, NEW b \in Bundles, NEW r \in b.receipts, NEW s \in Receipts,
           EmissionOf(s) \in P, ~Reuses(P, b), ~Equivocates(P, b)
    PROVE  ~Contradict(r, s)
<1>1. /\ EmissionOf(s).id = s.id /\ EmissionOf(s).digest = s.digest
      /\ Issuer(EmissionOf(s)) = Issuer(s) /\ Epoch(EmissionOf(s)) = Epoch(s)
  BY DEF EmissionOf, Issuer, Epoch
<1>2. ~Equivocate(r, s)
  BY <1>1 DEF Equivocates, Equivocate
<1>3. ASSUME r.id = s.id PROVE r = s
  <2>1. r.digest = s.digest
    BY <1>1, <1>3 DEF Reuses
  <2>2. r \in Receipts
    BY BundleParts
  <2> QED BY <2>1, <2>2, DigestsCommit
<1> QED BY <1>2, <1>3 DEF Contradict

\* The history an examiner supplies covers what it accepted.
Recorded ==
    \A x \in Examiners :
        /\ EmissionsOf(accepted[x]) \subseteq prior[x]
        /\ {r \in accepted[x] : r.once # None} \subseteq uses[x]

\* The inductive invariant of emission identity.
IdentityInv ==
    /\ TypeOK
    /\ Recorded
    /\ \A x \in Examiners : \A r, s \in accepted[x] : ~Contradict(r, s) /\ ~UsedTwice(r, s)

\* Accepting a bundle keeps the accepted receipts consistent.
LEMMA AcceptIdentity ==
    ASSUME IdentityInv, NEW x \in Examiners, NEW b \in Bundles, NEW R, Accept(x, b, R),
           NEW r \in accepted[x] \cup b.receipts, NEW s \in accepted[x] \cup b.receipts
    PROVE  ~Contradict(r, s) /\ ~UsedTwice(r, s)
<1>1. /\ ~Reuses(prior[x], b) /\ ~Equivocates(prior[x], b) /\ ~Replays(uses[x], b)
  BY NoConflict DEF Accept
<1>2. \A p, q \in b.receipts : ~Contradict(p, q) /\ ~UsedTwice(p, q)
  BY Passed DEF Accept
<1>3. ASSUME NEW p \in b.receipts, NEW q \in accepted[x]
      PROVE  ~Contradict(p, q) /\ ~UsedTwice(p, q)
  <2>1. q \in Receipts /\ EmissionOf(q) \in prior[x]
    BY DEF IdentityInv, TypeOK, Recorded, EmissionsOf
  <2>2. ~Contradict(p, q)
    BY <1>1, <2>1, EntryStandsFor
  <2>3. q.once # None => q \in uses[x]
    BY DEF IdentityInv, Recorded
  <2>4. ~UsedTwice(p, q)
    BY <1>1, <2>3 DEF Replays, UsedTwice
  <2> QED BY <2>2, <2>4
<1>4. CASE r \in b.receipts /\ s \in b.receipts
  BY <1>2, <1>4
<1>5. CASE r \in b.receipts /\ s \in accepted[x]
  BY <1>3, <1>5
<1>6. CASE r \in accepted[x] /\ s \in b.receipts
  BY <1>3, <1>6, Symmetric
<1>7. CASE r \in accepted[x] /\ s \in accepted[x]
  BY <1>7 DEF IdentityInv
<1> QED BY <1>4, <1>5, <1>6, <1>7

\* A step that accepts nothing and forgets nothing.
LEMMA IdentityUnchanged ==
    ASSUME IdentityInv, TypeOK', UNCHANGED <<accepted, uses>>,
           \A x \in Examiners : prior[x] \subseteq prior'[x]
    PROVE  IdentityInv'
BY DEF IdentityInv, Recorded

LEMMA AcceptInv ==
    ASSUME IdentityInv, TypeOK', NEW x \in Examiners, NEW b \in Bundles, NEW R, Accept(x, b, R)
    PROVE  IdentityInv'
<1>1. \A y \in Examiners : y # x =>
          accepted'[y] = accepted[y] /\ prior'[y] = prior[y] /\ uses'[y] = uses[y]
  BY DEF Accept, IdentityInv, TypeOK
<1>2. /\ accepted'[x] = accepted[x] \cup b.receipts
      /\ prior'[x] = prior[x] \cup EmissionsOf(b.receipts)
      /\ uses'[x] = uses[x] \cup {r \in b.receipts : r.once # None}
  BY DEF Accept, IdentityInv, TypeOK
<1>3. Recorded'
  <2> SUFFICES ASSUME NEW y \in Examiners
               PROVE  /\ EmissionsOf(accepted'[y]) \subseteq prior'[y]
                      /\ {r \in accepted'[y] : r.once # None} \subseteq uses'[y]
    BY DEF Recorded
  <2>1. CASE y = x
    BY <1>2, <2>1, EmissionsUnion DEF IdentityInv, Recorded
  <2>2. CASE y # x
    BY <1>1, <2>2 DEF IdentityInv, Recorded
  <2> QED BY <2>1, <2>2
<1>4. ASSUME NEW y \in Examiners, NEW r \in accepted'[y], NEW s \in accepted'[y]
      PROVE  ~Contradict(r, s) /\ ~UsedTwice(r, s)
  <2>1. CASE y = x
    BY <1>2, <1>4, <2>1, AcceptIdentity
  <2>2. CASE y # x
    BY <1>1, <1>4, <2>2 DEF IdentityInv
  <2> QED BY <2>1, <2>2
<1> QED BY <1>3, <1>4 DEF IdentityInv

LEMMA IdentityStep ==
    ASSUME IdentityInv, [Next]_vars
    PROVE  IdentityInv'
<1>1. TypeOK'
  <2>1. TypeOK
    BY DEF IdentityInv
  <2>2. CASE UNCHANGED vars
    BY <2>1, <2>2 DEF vars, TypeOK
  <2>3. CASE Next
    BY <2>1, <2>3, EvaluateTypeOK, RetainTypeOK, ImportTypeOK DEF Next
  <2> QED BY <2>2, <2>3
<1>2. ASSUME NEW x \in Examiners, Evaluate(x) PROVE IdentityInv'
  <2>1. PICK b \in Bundles, R \in SUBSET retained[x] :
            Refuse(x, b, R) \/ Reject(x, b, R) \/ RejectHistory(x, b, R) \/ Accept(x, b, R)
    BY <1>2 DEF Evaluate
  <2>2. CASE Accept(x, b, R)
    BY <1>1, <2>2, AcceptInv
  <2>3. CASE Refuse(x, b, R) \/ Reject(x, b, R) \/ RejectHistory(x, b, R)
    BY <1>1, <2>3, IdentityUnchanged DEF Refuse, Reject, RejectHistory
  <2> QED BY <2>1, <2>2, <2>3
<1>3. ASSUME NEW x \in Examiners, Retain(x) PROVE IdentityInv'
  BY <1>1, <1>3, IdentityUnchanged DEF Retain
<1>4. ASSUME NEW x \in Examiners, Import(x) PROVE IdentityInv'
  <2>1. \A y \in Examiners : prior[y] \subseteq prior'[y]
    BY <1>4 DEF Import, IdentityInv, TypeOK
  <2> QED BY <1>1, <1>4, <2>1, IdentityUnchanged DEF Import
<1>5. CASE UNCHANGED vars
  BY <1>1, <1>5, IdentityUnchanged DEF vars
<1> QED BY <1>2, <1>3, <1>4, <1>5 DEF Next

LEMMA IdentityInvariant == Spec => []IdentityInv
<1>1. Init => IdentityInv
  <2> SUFFICES ASSUME Init PROVE IdentityInv
    OBVIOUS
  <2>1. TypeOK
    BY DEF Init, TypeOK
  <2>2. \A x \in Examiners : accepted[x] = {}
    BY DEF Init
  <2> QED BY <2>1, <2>2 DEF IdentityInv, Recorded, EmissionsOf
<1>2. IdentityInv /\ [Next]_vars => IdentityInv'
  BY IdentityStep
<1> QED BY <1>1, <1>2, PTL DEF Spec

\* Whatever is put before an examiner that supplies its history, in whatever
\* order, it never accepts two receipts that contradict each other.
THEOREM EmissionIdentity == Spec => []AcceptedIsConsistent
<1>1. IdentityInv => AcceptedIsConsistent
  BY DEF IdentityInv, AcceptedIsConsistent, Consistent
<1> QED BY <1>1, IdentityInvariant, PTL

\* Nor one one-time coordinate for two contents.
THEOREM OneTimeUse == Spec => []OneTimeOnce
<1>1. IdentityInv => OneTimeOnce
  BY DEF IdentityInv, OneTimeOnce
<1> QED BY <1>1, IdentityInvariant, PTL

-----------------------------------------------------------------------------
\* What a verdict is based on

LEMMA ClassNames ==
    ASSUME NEW c \in DOMAIN Classes
    PROVE  /\ Classes[c] \notin {"none", "usage", "failed", "conformant"}
           /\ Classes[c] = "epoch/fork" => c = 4
<1>1. c \in 1 .. 6
  BY DEF Classes
<1>2. CASE c = 1 BY <1>2 DEF Classes
<1>3. CASE c = 2 BY <1>3 DEF Classes
<1>4. CASE c = 3 BY <1>4 DEF Classes
<1>5. CASE c = 4 BY <1>5 DEF Classes
<1>6. CASE c = 5 BY <1>6 DEF Classes
<1>7. CASE c = 6 BY <1>7 DEF Classes
<1> QED BY <1>1, <1>2, <1>3, <1>4, <1>5, <1>6, <1>7

\* A verdict follows from its bundle and from what was supplied with it.
Founded(v) ==
    /\ v.reason = "failed" => v.step \in 1 .. 19 /\ Fails(v.bundle, v.step) /\ Reaches(v.bundle, v.step)
    /\ v.reason \notin {"none", "usage", "failed"} =>
          Reaches(v.bundle, 20) /\ ~RetainedRefused(v.supplied, v.bundle)
    /\ v.reason = "epoch/fork" => Forks(v.supplied, v.bundle)
    /\ v.listed => v.reason = "conformant" /\ AllListed(v.supplied, v.bundle)

\* The emissions of S that claim an epoch of R are in its index as they are.
IndexHolds(S, R) ==
    \A p \in EmissionsOf(S), e \in RetainedEpochs(R) :
        p.key = e.key => \E n \in e.index : n.id = p.id /\ EntryMatches(n, p)

\* The inductive invariant of verdicts.
VerdictInv ==
    \A x \in Examiners :
        /\ Founded(verdict[x])
        /\ verdict[x].supplied \subseteq retained[x]
        /\ \A b \in retained[x] : b.receipts \subseteq accepted[x]
        /\ verdict[x].reason = "conformant" =>
              /\ verdict[x].bundle.receipts \subseteq accepted[x]
              /\ IndexHolds(accepted[x], verdict[x].supplied)

LEMMA Told ==
    ASSUME TypeOK, NEW x \in Examiners, NEW b, NEW R, NEW step, NEW reason, NEW listed,
           Tell(x, b, R, step, reason, listed)
    PROVE  /\ verdict'[x] = [bundle |-> b, supplied |-> R, step |-> step,
                             reason |-> reason, listed |-> listed]
           /\ \A y \in Examiners : y # x => verdict'[y] = verdict[y]
BY DEF TypeOK, Tell

\* The history and the bundle agree with the supplied indexes when neither the
\* load nor the classes (e) object.
LEMMA AcceptedAgrees ==
    ASSUME IdentityInv, NEW x \in Examiners, NEW b \in Bundles, NEW R, Accept(x, b, R)
    PROVE  IndexHolds(accepted[x] \cup b.receipts, R)
<1> SUFFICES ASSUME NEW p \in EmissionsOf(accepted[x] \cup b.receipts),
                    NEW e \in RetainedEpochs(R), p.key = e.key
             PROVE  \E n \in e.index : n.id = p.id /\ EntryMatches(n, p)
  BY DEF IndexHolds
<1>1. CASE p \in EmissionsOf(accepted[x])
  <2>1. p \in prior[x]
    BY <1>1 DEF IdentityInv, Recorded
  <2>2. ~PriorContradictsRetained(prior[x], R)
    BY DEF Accept, Refused
  <2> QED BY <2>1, <2>2 DEF PriorContradictsRetained
<1>2. CASE p \in EmissionsOf(b.receipts)
  <2>1. PICK r \in b.receipts : p = EmissionOf(r)
    BY <1>2 DEF EmissionsOf
  <2>2. /\ p.id = r.id /\ p.key = r.key
        /\ \A n : EntryMatches(n, p) <=> EntryMatches(n, r)
    BY <2>1 DEF EmissionOf, EntryMatches
  <2>3. ~Unindexed(R, b) /\ ~Mismatched(R, b)
    BY NoConflict DEF Accept
  <2>4. PICK n \in e.index : n.id = r.id
    BY <2>2, <2>3 DEF Unindexed, Lists
  <2>5. EntryMatches(n, r)
    BY <2>2, <2>3, <2>4 DEF Mismatched
  <2> QED BY <2>2, <2>4, <2>5
<1> QED BY <1>1, <1>2, EmissionsUnion

\* A step that only tells x something other than that its bundle is conformant.
LEMMA ToldInv ==
    ASSUME TypeOK, VerdictInv, NEW x \in Examiners, NEW b, NEW R \in SUBSET retained[x],
           NEW step, NEW reason, Tell(x, b, R, step, reason, FALSE), reason # "conformant",
           Founded([bundle |-> b, supplied |-> R, step |-> step, reason |-> reason, listed |-> FALSE]),
           UNCHANGED <<retained, accepted>>
    PROVE  VerdictInv'
<1>1. /\ verdict'[x] = [bundle |-> b, supplied |-> R, step |-> step,
                        reason |-> reason, listed |-> FALSE]
      /\ \A y \in Examiners : y # x => verdict'[y] = verdict[y]
  BY Told
<1> SUFFICES ASSUME NEW y \in Examiners
             PROVE  /\ Founded(verdict'[y])
                    /\ verdict'[y].supplied \subseteq retained'[y]
                    /\ \A c \in retained'[y] : c.receipts \subseteq accepted'[y]
                    /\ verdict'[y].reason = "conformant" =>
                          /\ verdict'[y].bundle.receipts \subseteq accepted'[y]
                          /\ IndexHolds(accepted'[y], verdict'[y].supplied)
  BY DEF VerdictInv
<1>2. CASE y = x
  BY <1>1, <1>2 DEF VerdictInv
<1>3. CASE y # x
  BY <1>1, <1>3 DEF VerdictInv
<1> QED BY <1>2, <1>3

LEMMA AcceptVerdict ==
    ASSUME IdentityInv, VerdictInv, NEW x \in Examiners, NEW b \in Bundles,
           NEW R \in SUBSET retained[x], Accept(x, b, R)
    PROVE  VerdictInv'
<1>1. TypeOK
  BY DEF IdentityInv
<1>2. PICK listed \in BOOLEAN :
          Tell(x, b, R, 20, "conformant", listed) /\ (listed => AllListed(R, b))
  <2>1. AllListed(R, b) \in BOOLEAN
    BY DEF AllListed
  <2> QED BY <2>1 DEF Accept
<1>3. /\ verdict'[x] = [bundle |-> b, supplied |-> R, step |-> 20,
                        reason |-> "conformant", listed |-> listed]
      /\ \A y \in Examiners : y # x => verdict'[y] = verdict[y]
  BY <1>1, <1>2, Told
<1>4. /\ accepted'[x] = accepted[x] \cup b.receipts
      /\ \A y \in Examiners : y # x => accepted'[y] = accepted[y]
      /\ retained' = retained
  BY <1>1 DEF Accept, TypeOK
<1> SUFFICES ASSUME NEW y \in Examiners
             PROVE  /\ Founded(verdict'[y])
                    /\ verdict'[y].supplied \subseteq retained'[y]
                    /\ \A c \in retained'[y] : c.receipts \subseteq accepted'[y]
                    /\ verdict'[y].reason = "conformant" =>
                          /\ verdict'[y].bundle.receipts \subseteq accepted'[y]
                          /\ IndexHolds(accepted'[y], verdict'[y].supplied)
  BY DEF VerdictInv
<1>5. CASE y = x
  <2>1. Reaches(b, 20) /\ ~RetainedRefused(R, b)
    BY DEF Accept, Refused
  <2>2. Founded(verdict'[x])
    BY <1>2, <1>3, <2>1 DEF Founded
  <2>3. IndexHolds(accepted'[x], R)
    BY <1>4, AcceptedAgrees
  <2>4. b.receipts \subseteq accepted'[x] /\ accepted[x] \subseteq accepted'[x]
    BY <1>4
  <2>5. \A c \in retained'[x] : c.receipts \subseteq accepted'[x]
    BY <1>4, <2>4 DEF VerdictInv
  <2>6. R \subseteq retained'[x]
    BY <1>4
  <2> QED BY <1>3, <1>5, <2>2, <2>3, <2>4, <2>5, <2>6
<1>6. CASE y # x
  BY <1>3, <1>4, <1>6 DEF VerdictInv
<1> QED BY <1>5, <1>6

LEMMA EvaluateVerdict ==
    ASSUME IdentityInv, VerdictInv, NEW x \in Examiners, Evaluate(x)
    PROVE  VerdictInv'
<1>1. PICK b \in Bundles, R \in SUBSET retained[x] :
          Refuse(x, b, R) \/ Reject(x, b, R) \/ RejectHistory(x, b, R) \/ Accept(x, b, R)
  BY DEF Evaluate
<1>2. TypeOK
  BY DEF IdentityInv
<1>3. CASE Refuse(x, b, R)
  <2>1. Founded([bundle |-> b, supplied |-> R, step |-> 0, reason |-> "usage", listed |-> FALSE])
    BY DEF Founded
  <2> QED BY <1>2, <1>3, <2>1, ToldInv DEF Refuse
<1>4. CASE Reject(x, b, R)
  <2>1. PICK step \in 1 .. 19 :
            Fails(b, step) /\ Reaches(b, step) /\ Tell(x, b, R, step, "failed", FALSE)
    BY <1>4 DEF Reject
  <2>2. Founded([bundle |-> b, supplied |-> R, step |-> step, reason |-> "failed", listed |-> FALSE])
    BY <2>1 DEF Founded
  <2> QED BY <1>2, <1>4, <2>1, <2>2, ToldInv DEF Reject
<1>5. CASE RejectHistory(x, b, R)
  <2>1. PICK c \in DOMAIN Classes :
            Conflict(prior[x], uses[x], R, b, c) /\ Tell(x, b, R, 20, Classes[c], FALSE)
    BY <1>5 DEF RejectHistory
  <2>2. Classes[c] \notin {"none", "usage", "failed", "conformant"}
    BY ClassNames
  <2>3. Classes[c] = "epoch/fork" => Forks(R, b)
    BY <2>1, ClassNames DEF Conflict
  <2>4. Reaches(b, 20) /\ ~RetainedRefused(R, b)
    BY <1>5 DEF RejectHistory, Refused
  <2>5. Founded([bundle |-> b, supplied |-> R, step |-> 20, reason |-> Classes[c], listed |-> FALSE])
    BY <2>2, <2>3, <2>4 DEF Founded
  <2> QED BY <1>2, <1>5, <2>1, <2>2, <2>5, ToldInv DEF RejectHistory
<1>6. CASE Accept(x, b, R)
  BY <1>6, AcceptVerdict
<1> QED BY <1>1, <1>3, <1>4, <1>5, <1>6

LEMMA RetainVerdict ==
    ASSUME TypeOK, VerdictInv, NEW x \in Examiners, Retain(x)
    PROVE  VerdictInv'
<1>1. /\ retained'[x] = retained[x] \cup {verdict[x].bundle}
      /\ \A y \in Examiners : y # x => retained'[y] = retained[y]
  BY DEF Retain, TypeOK
<1>2. verdict[x].bundle.receipts \subseteq accepted[x]
  BY DEF Retain, VerdictInv
<1>3. UNCHANGED <<accepted, verdict>>
  BY DEF Retain
<1> SUFFICES ASSUME NEW y \in Examiners
             PROVE  /\ verdict[y].supplied \subseteq retained'[y]
                    /\ \A c \in retained'[y] : c.receipts \subseteq accepted[y]
  BY <1>3 DEF VerdictInv
<1>4. CASE y = x
  BY <1>1, <1>2, <1>4 DEF VerdictInv
<1>5. CASE y # x
  BY <1>1, <1>5 DEF VerdictInv
<1> QED BY <1>4, <1>5

LEMMA VerdictInvariant == Spec => [](IdentityInv /\ VerdictInv)
<1>1. Init => VerdictInv
  <2> SUFFICES ASSUME Init, NEW x \in Examiners
               PROVE  /\ Founded(NoVerdict) /\ NoVerdict.supplied = {}
                      /\ NoVerdict.reason # "conformant" /\ retained[x] = {}
    BY DEF Init, VerdictInv
  <2> QED BY DEF Init, NoVerdict, Founded
<1>2. IdentityInv /\ VerdictInv /\ [Next]_vars => VerdictInv'
  <2> SUFFICES ASSUME IdentityInv, VerdictInv, [Next]_vars PROVE VerdictInv'
    OBVIOUS
  <2>1. ASSUME NEW x \in Examiners, Evaluate(x) PROVE VerdictInv'
    BY <2>1, EvaluateVerdict
  <2>2. ASSUME NEW x \in Examiners, Retain(x) PROVE VerdictInv'
    BY <2>2, RetainVerdict DEF IdentityInv
  <2>3. CASE UNCHANGED <<retained, accepted, verdict>>
    BY <2>3 DEF VerdictInv
  <2>4. ASSUME NEW x \in Examiners, Import(x) PROVE VerdictInv'
    BY <2>3, <2>4 DEF Import
  <2>5. CASE UNCHANGED vars
    BY <2>3, <2>5 DEF vars
  <2> QED BY <2>1, <2>2, <2>4, <2>5 DEF Next
<1> QED BY <1>1, <1>2, IdentityInvariant, PTL DEF Spec

\* Examiners with different histories agree on what is wrong with a bundle.
THEOREM Agreement == Spec => []ExaminersAgree
<1>1. VerdictInv /\ IdentityInv => ExaminersAgree
  <2> SUFFICES ASSUME VerdictInv, IdentityInv, NEW x \in Examiners, NEW y \in Examiners,
                      verdict[x].bundle = verdict[y].bundle,
                      verdict[x].reason = "failed", verdict[y].reason # "usage"
               PROVE  verdict[y].reason = "failed" /\ verdict[y].step = verdict[x].step
    BY DEF ExaminersAgree
  <2> DEFINE b == verdict[x].bundle
  <2>1. /\ verdict[x].step \in 1 .. 19
        /\ Fails(b, verdict[x].step) /\ Reaches(b, verdict[x].step)
    BY DEF VerdictInv, Founded
  <2>2. ~Reaches(b, 20)
    BY <2>1 DEF Reaches
  <2>3. verdict[y].reason \in {"none", "failed"}
    BY <2>2 DEF VerdictInv, Founded
  <2>4. verdict[y].reason # "none"
    <3>1. verdict[x] # NoVerdict
      BY DEF NoVerdict
    <3>2. verdict[x].bundle \in Bundles
      BY <3>1 DEF IdentityInv, TypeOK
    <3>3. verdict[y] # NoVerdict
      BY <3>2, BundlesAssumption DEF NoVerdict
    <3>4. verdict[y].reason \in Reasons
      BY <3>3 DEF IdentityInv, TypeOK
    <3> QED BY <3>4, ClassNames DEF Reasons
  <2>5. /\ verdict[y].step \in 1 .. 19
        /\ Fails(b, verdict[y].step) /\ Reaches(b, verdict[y].step)
    BY <2>3, <2>4 DEF VerdictInv, Founded
  <2>6. ~(verdict[x].step < verdict[y].step) /\ ~(verdict[y].step < verdict[x].step)
    BY <2>1, <2>5 DEF Reaches
  <2> QED BY <2>1, <2>3, <2>4, <2>5, <2>6
<1> QED BY <1>1, VerdictInvariant, PTL

\* A conformant verdict leaves nothing in the history that a supplied index disowns.
THEOREM IndexAgreement == Spec => []HistoryAgreesWithIndex
<1>1. VerdictInv => HistoryAgreesWithIndex
  BY DEF VerdictInv, IndexHolds, HistoryAgreesWithIndex
<1> QED BY <1>1, VerdictInvariant, PTL

\* Membership comes from another bundle that was found conformant before.
THEOREM EarnedMembership == Spec => []MembershipIsEarned
<1>1. VerdictInv => MembershipIsEarned
  <2> SUFFICES ASSUME VerdictInv, NEW x \in Examiners, verdict[x].listed,
                      NEW r \in verdict[x].bundle.receipts
               PROVE  \E b \in retained[x] \ {verdict[x].bundle} :
                          /\ b.receipts \subseteq accepted[x]
                          /\ \E e \in b.epochs : e.key = r.key /\ Lists(e, r)
    BY DEF MembershipIsEarned
  <2>1. AllListed(verdict[x].supplied, verdict[x].bundle)
    BY DEF VerdictInv, Founded
  <2>2. PICK b \in verdict[x].supplied : \E e \in b.epochs : r.key = e.key /\ Lists(e, r)
    BY <2>1 DEF AllListed, RetainedEpochs
  <2>3. verdict[x].bundle \notin verdict[x].supplied
    BY DEF VerdictInv, Founded, RetainedRefused
  <2>4. b \in retained[x] /\ b.receipts \subseteq accepted[x]
    BY <2>2 DEF VerdictInv
  <2> QED BY <2>2, <2>3, <2>4
<1> QED BY <1>1, VerdictInvariant, PTL

-----------------------------------------------------------------------------
\* Forks

\* Two closed epochs with the same events up to the shorter one's end name the
\* same manifest.
LEMMA CloseNames ==
    ASSUME NEW e \in Epochs, NEW f \in Epochs, Closed(e), Closed(f), Agree(e.chain, f.chain)
    PROVE  e.mid = f.mid
<1>1. PICK i \in DOMAIN e.chain : At(e, "close") = {i} /\ e.chain[i].mid = e.mid
  BY DEF Closed
<1>2. PICK j \in DOMAIN f.chain : At(f, "close") = {j} /\ f.chain[j].mid = f.mid
  BY DEF Closed
<1>3. /\ DOMAIN e.chain = 1 .. Len(e.chain) /\ Len(e.chain) \in Nat
      /\ DOMAIN f.chain = 1 .. Len(f.chain) /\ Len(f.chain) \in Nat
  BY BundlesAssumption
<1>4. CASE i \in DOMAIN f.chain
  <2>1. f.chain[i] = e.chain[i]
    BY <1>4 DEF Agree
  <2>2. i \in At(f, "close")
    BY <1>1, <1>4, <2>1 DEF At
  <2> QED BY <1>1, <1>2, <2>1, <2>2
<1>5. CASE j \in DOMAIN e.chain
  <2>1. f.chain[j] = e.chain[j]
    BY <1>5 DEF Agree
  <2>2. j \in At(e, "close")
    BY <1>2, <1>5, <2>1 DEF At
  <2> QED BY <1>1, <1>2, <2>1, <2>2
<1>6. i \in DOMAIN f.chain \/ j \in DOMAIN e.chain
  BY <1>1, <1>2, <1>3
<1> QED BY <1>4, <1>5, <1>6

\* Of the two passes of class (d), the one over the manifests adds nothing.
THEOREM ForksShow == Spec => []ForkShowsInEvents
<1>1. IdentityInv /\ VerdictInv => ForkShowsInEvents
  <2> SUFFICES ASSUME IdentityInv, VerdictInv, NEW x \in Examiners,
                      verdict[x].reason = "epoch/fork"
               PROVE  EventForks(verdict[x].supplied, verdict[x].bundle)
    BY DEF ForkShowsInEvents
  <2> DEFINE R == verdict[x].supplied
             b == verdict[x].bundle
  <2>1. b \in Bundles /\ R \subseteq Bundles
    <3>1. verdict[x] # NoVerdict
      BY DEF NoVerdict
    <3> QED BY <3>1 DEF IdentityInv, TypeOK
  <2>2. Forks(R, b) /\ Reaches(b, 20) /\ \A r \in R : Reaches(r, 20)
    BY DEF VerdictInv, Founded, RetainedRefused
  <2>3. \A e \in RetainedEpochs(R) \cup b.epochs : e \in Epochs /\ Closed(e)
    BY <2>1, <2>2, BundleParts, Passed DEF RetainedEpochs
  <2>4. CASE ManifestForks(R, b)
    <3>1. PICK e \in RetainedEpochs(R), f \in b.epochs : e.key = f.key /\ e.mid # f.mid
      BY <2>4 DEF ManifestForks
    <3>2. ~Agree(e.chain, f.chain)
      BY <2>3, <3>1, CloseNames
    <3> QED BY <3>1, <3>2 DEF EventForks
  <2> QED BY <2>2, <2>4 DEF Forks
<1> QED BY <1>1, VerdictInvariant, PTL

-----------------------------------------------------------------------------
\* Honest producers

\* Nothing an examiner may have collected refuses a bundle.
LEMMA HonestNotRefused ==
    ASSUME HonestWorld, NEW b \in Honest, NEW R \in SUBSET Honest, Admissible(R, b),
           NEW P \in SUBSET EmissionsOf(HonestReceipts)
    PROVE  ~Refused(P, R, b)
<1>1. ASSUME NEW p \in P, NEW r \in HonestReceipts, SameEnvelope(p, r)
      PROVE  SameCoordinates(p, r)
  <2>1. PICK s \in HonestReceipts : p = EmissionOf(s)
    BY DEF EmissionsOf
  <2>2. s = r
    BY <1>1, <2>1 DEF HonestWorld, Consistent, Contradict, SameEnvelope, EmissionOf
  <2> QED BY <2>1, <2>2 DEF SameCoordinates, EmissionOf, Issuer, Epoch
<1>2. ~PriorContradictsItself(P)
  <2> SUFFICES ASSUME NEW p \in P, NEW q \in P, SameEnvelope(p, q)
               PROVE  SameCoordinates(p, q)
    BY DEF PriorContradictsItself
  <2>1. PICK r \in HonestReceipts : q = EmissionOf(r)
    BY DEF EmissionsOf
  <2>2. SameEnvelope(p, r)
    BY <2>1 DEF SameEnvelope, EmissionOf
  <2>3. SameCoordinates(p, r)
    BY <1>1, <2>2
  <2> QED BY <2>1, <2>3 DEF SameCoordinates, EmissionOf, Issuer, Epoch
<1>3. RetainedEpochs(R) \subseteq HonestEpochs /\ RetainedReceipts(R) \subseteq HonestReceipts
  BY DEF RetainedEpochs, RetainedReceipts, HonestEpochs, HonestReceipts
<1>4. ~RetainedRefused(R, b)
  <2>1. ~(Cardinality(R) > MaxRetained)
    BY DEF Admissible
  <2>2. b \notin R /\ \A r \in R : Reaches(r, 20) /\ ~(r.at > b.at)
    BY HonestAssumption, BundlesAssumption DEF Admissible, HonestWorld
  <2> QED BY <1>3, <2>1, <2>2 DEF RetainedRefused, HonestWorld
<1>5. ~PriorContradictsRetained(P, R)
  <2>1. \A p \in P, r \in RetainedReceipts(R) : SameEnvelope(p, r) => SameCoordinates(p, r)
    BY <1>1, <1>3
  <2>2. ASSUME NEW p \in P, NEW e \in RetainedEpochs(R), p.key = e.key
        PROVE  \E n \in e.index : n.id = p.id /\ EntryMatches(n, p)
    <3>1. PICK s \in HonestReceipts : p = EmissionOf(s)
      BY DEF EmissionsOf
    <3>2. s.key = e.key /\ e \in HonestEpochs
      BY <1>3, <2>2, <3>1 DEF EmissionOf
    <3>3. PICK n \in e.index : n.id = s.id /\ EntryMatches(n, s)
      BY <3>2 DEF HonestWorld, Lists
    <3> QED BY <3>1, <3>3 DEF EntryMatches, EmissionOf
  <2> QED BY <2>1, <2>2 DEF PriorContradictsRetained
<1>6. ~PriorContradictsBundle(P, b)
  BY <1>1 DEF PriorContradictsBundle, HonestReceipts
<1> QED BY <1>2, <1>4, <1>5, <1>6 DEF Refused

\* Nor does a class of the history phase fail.
LEMMA HonestNoConflict ==
    ASSUME HonestWorld, NEW b \in Honest, NEW R \in SUBSET Honest,
           NEW P \in SUBSET EmissionsOf(HonestReceipts), NEW U \in SUBSET HonestReceipts,
           NEW c \in DOMAIN Classes
    PROVE  ~Conflict(P, U, R, b, c)
<1>1. /\ RetainedEpochs(R) \subseteq HonestEpochs
        /\ b.receipts \subseteq HonestReceipts /\ b.epochs \subseteq HonestEpochs
  BY DEF RetainedEpochs, HonestEpochs, HonestReceipts
<1>2. ~Reuses(P, b)
  <2> SUFFICES ASSUME NEW s \in HonestReceipts, NEW r \in b.receipts, r.id = s.id
               PROVE  r.digest = s.digest
    BY DEF Reuses, EmissionsOf, EmissionOf
  <2> QED BY <1>1 DEF HonestWorld, Consistent, Contradict
<1>3. ~Equivocates(P, b)
  <2> SUFFICES ASSUME NEW s \in HonestReceipts, EmissionOf(s) \in P, NEW r \in b.receipts
               PROVE  ~Equivocate(r, EmissionOf(s))
    BY DEF Equivocates, EmissionsOf
  <2>1. ~Equivocate(r, s)
    BY <1>1 DEF HonestWorld, Consistent, Contradict
  <2> QED BY <2>1 DEF Equivocate, EmissionOf, Issuer, Epoch
<1>4. ~Replays(U, b)
  BY <1>1 DEF HonestWorld, Replays
<1>5. ~Forks(R, b)
  BY <1>1 DEF HonestWorld, Forks, ManifestForks, EventForks
<1>6. ~Unindexed(R, b) /\ ~Mismatched(R, b)
  BY <1>1 DEF HonestWorld, Unindexed, Mismatched
<1> QED BY <1>2, <1>3, <1>4, <1>5, <1>6 DEF Conflict

\* Honest producers are never turned away, whatever the order of their bundles.
THEOREM HonestAccepted == Spec => []HonestIsAccepted
<1>1. Init => HonestIsAccepted
  BY BundlesAssumption, HonestAssumption DEF Init, HonestIsAccepted, NoVerdict
<1>2. TypeOK /\ HonestIsAccepted /\ [Next]_vars => HonestIsAccepted'
  <2> SUFFICES ASSUME TypeOK, HonestIsAccepted, [Next]_vars, HonestWorld, NEW y \in Examiners,
                      verdict'[y].bundle \in Honest, Untainted(y)',
                      Admissible(verdict'[y].supplied, verdict'[y].bundle)
               PROVE  verdict'[y].reason = "conformant"
    BY DEF HonestIsAccepted
  <2>1. CASE verdict'[y] = verdict[y] /\ prior[y] \subseteq prior'[y] /\ uses[y] \subseteq uses'[y]
    <3>1. Untainted(y)
      BY <2>1 DEF Untainted
    <3> QED BY <2>1, <3>1 DEF HonestIsAccepted
  <2>2. ASSUME NEW x \in Examiners, Evaluate(x)
        PROVE  verdict'[y].reason = "conformant"
    <3>1. PICK b \in Bundles, R \in SUBSET retained[x] :
              Refuse(x, b, R) \/ Reject(x, b, R) \/ RejectHistory(x, b, R) \/ Accept(x, b, R)
      BY <2>2 DEF Evaluate
    <3>2. prior[y] \subseteq prior'[y] /\ uses[y] \subseteq uses'[y]
      BY <3>1 DEF Refuse, Reject, RejectHistory, Accept, TypeOK
    <3>3. CASE x # y
      <4>1. verdict'[y] = verdict[y]
        BY <3>1, <3>3, Told DEF Refuse, Reject, RejectHistory, Accept, TypeOK, Tell
      <4> QED BY <4>1, <3>2, <2>1
    <3>4. CASE x = y
      <4>1. verdict'[x].bundle = b /\ verdict'[x].supplied = R
        BY <3>1 DEF Refuse, Reject, RejectHistory, Accept, TypeOK, Tell
      <4>2. /\ b \in Honest /\ R \in SUBSET Honest /\ Admissible(R, b)
            /\ uses[x] \in SUBSET HonestReceipts
            /\ prior[x] \in SUBSET EmissionsOf(HonestReceipts)
        BY <3>2, <3>4, <4>1 DEF Untainted
      <4>3. ~Refuse(x, b, R)
        BY <4>2, HonestNotRefused DEF Refuse
      <4>4. ~Reject(x, b, R)
        <5>1. \A step \in 1 .. 19 : ~Fails(b, step)
          BY <4>2 DEF HonestWorld, Reaches
        <5> QED BY <5>1 DEF Reject
      <4>5. ~RejectHistory(x, b, R)
        BY <4>2, HonestNoConflict DEF RejectHistory
      <4>6. verdict'[x].reason = "conformant"
        BY <3>1, <4>3, <4>4, <4>5 DEF Accept, TypeOK, Tell
      <4> QED BY <3>4, <4>6
    <3> QED BY <3>3, <3>4
  <2>3. ASSUME NEW x \in Examiners, Retain(x) \/ Import(x)
        PROVE  /\ verdict'[y] = verdict[y]
               /\ prior[y] \subseteq prior'[y] /\ uses[y] \subseteq uses'[y]
    BY <2>3 DEF Retain, Import, TypeOK
  <2>4. CASE UNCHANGED vars
    BY <2>1, <2>4 DEF vars
  <2> QED BY <2>1, <2>2, <2>3, <2>4 DEF Next
<1> QED BY <1>1, <1>2, TypeCorrect, PTL DEF Spec

-----------------------------------------------------------------------------
\* The ledger

\* Every step of an examiner writes one page of its ledger, or none.
THEOREM LedgerRefinement == Spec => ImplementsLedger
<1>1. Init => Book!Init
  BY DEF Init, Book!Init
<1>2. IdentityInv /\ [Next]_vars => [Book!Next]_accepted
  <2> SUFFICES ASSUME IdentityInv, Next PROVE Book!Next \/ UNCHANGED accepted
    BY DEF vars
  <2>1. ASSUME NEW x \in Examiners, Evaluate(x) PROVE Book!Next \/ UNCHANGED accepted
    <3>1. PICK b \in Bundles, R \in SUBSET retained[x] :
              Refuse(x, b, R) \/ Reject(x, b, R) \/ RejectHistory(x, b, R) \/ Accept(x, b, R)
      BY <2>1 DEF Evaluate
    <3>2. CASE Accept(x, b, R)
      <4>1. \A r, s \in accepted[x] \cup b.receipts : ~Clash(r, s)
        BY <3>2, AcceptIdentity DEF Clash
      <4>2. accepted' = [accepted EXCEPT ![x] = @ \cup b.receipts] /\ b.receipts \in SUBSET Receipts
        BY <3>2, BundleParts DEF Accept
      <4> QED BY <4>1, <4>2 DEF Book!Next, Book!Write
    <3>3. CASE Refuse(x, b, R) \/ Reject(x, b, R) \/ RejectHistory(x, b, R)
      BY <3>3 DEF Refuse, Reject, RejectHistory
    <3> QED BY <3>1, <3>2, <3>3
  <2>2. ASSUME NEW x \in Examiners, Retain(x) \/ Import(x) PROVE UNCHANGED accepted
    BY <2>2 DEF Retain, Import
  <2> QED BY <2>1, <2>2 DEF Next
<1> QED BY <1>1, <1>2, IdentityInvariant, PTL DEF Spec, ImplementsLedger, Book!Spec
=============================================================================

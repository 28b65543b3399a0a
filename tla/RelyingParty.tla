----------------------------- MODULE RelyingParty -----------------------------
(***************************************************************************)
(* Examiners that put bundles before the verifier in any order, each with  *)
(* the history it has collected: the emissions and one-time uses of the    *)
(* bundles it found conformant, entries it got elsewhere, and the bundles  *)
(* it retained.  Which of the retained bundles it supplies is its choice.  *)
(***************************************************************************)
EXTENDS Evidence

CONSTANTS
    Examiners,
    Foreign,        \* prior-state entries an examiner may have from elsewhere
    Honest          \* bundles of honest producers

ASSUME HonestAssumption == Honest \subseteq Bundles

VARIABLES
    prior,          \* prior[x]: the prior_emissions of x
    uses,           \* uses[x]: receipts of one-time use behind x's replay state
    retained,       \* retained[x]: bundles x keeps
    accepted,       \* accepted[x]: receipts of the bundles x found conformant (history)
    verdict         \* verdict[x]: what x was last told, and of what

vars == <<prior, uses, retained, accepted, verdict>>

Reasons == {"usage", "failed", "conformant"} \cup {Classes[c] : c \in DOMAIN Classes}
NoVerdict == [bundle |-> None, supplied |-> {}, step |-> 0, reason |-> "none", listed |-> FALSE]

TypeOK ==
    /\ prior \in [Examiners -> SUBSET (EmissionsOf(Receipts) \cup Foreign)]
    /\ uses \in [Examiners -> SUBSET Receipts]
    /\ retained \in [Examiners -> SUBSET Bundles]
    /\ accepted \in [Examiners -> SUBSET Receipts]
    /\ verdict \in [Examiners -> {NoVerdict} \cup
            [bundle : Bundles, supplied : SUBSET Bundles, step : 0 .. 20, reason : Reasons,
             listed : BOOLEAN]]

Init ==
    /\ prior = [x \in Examiners |-> {}]
    /\ uses = [x \in Examiners |-> {}]
    /\ retained = [x \in Examiners |-> {}]
    /\ accepted = [x \in Examiners |-> {}]
    /\ verdict = [x \in Examiners |-> NoVerdict]

-----------------------------------------------------------------------------

Tell(x, b, R, step, reason, listed) ==
    verdict' = [verdict EXCEPT ![x] = [bundle |-> b, supplied |-> R, step |-> step,
                                       reason |-> reason, listed |-> listed]]

\* The verifier throws: a usage error, no verdict.
Refuse(x, b, R) ==
    /\ Refused(prior[x], R, b)
    /\ Tell(x, b, R, 0, "usage", FALSE)
    /\ UNCHANGED <<prior, uses, retained, accepted>>

\* Mutant: history is compared at step 9, before the later steps (as before D-87).
RejectWithHistory(x, b, R) ==
    /\ ~Refused(prior[x], R, b)
    /\ \E step \in 1 .. 19 :
          /\ Fails(b, step) \/ (step = 9 /\ Reuses(prior[x], b))
          /\ \A t \in 1 .. step - 1 : ~Fails(b, t) /\ ~(t = 9 /\ Reuses(prior[x], b))
          /\ Tell(x, b, R, step, "failed", FALSE)
    /\ UNCHANGED <<prior, uses, retained, accepted>>

\* The bundle fails by itself, at its first failing step.
Reject(x, b, R) ==
    /\ ~Refused(prior[x], R, b)
    /\ \E step \in 1 .. 19 :
          /\ Fails(b, step) /\ Reaches(b, step)
          /\ Tell(x, b, R, step, "failed", FALSE)
    /\ UNCHANGED <<prior, uses, retained, accepted>>

\* The bundle conflicts with the supplied history; the first class is named.
RejectHistory(x, b, R) ==
    /\ ~Refused(prior[x], R, b)
    /\ Reaches(b, 20)
    /\ \E c \in DOMAIN Classes :
          /\ Conflict(prior[x], uses[x], R, b, c)
          /\ \A d \in 1 .. c - 1 : ~Conflict(prior[x], uses[x], R, b, d)
          /\ Tell(x, b, R, 20, Classes[c], FALSE)
    /\ UNCHANGED <<prior, uses, retained, accepted>>

\* The bundle is conformant; the examiner adds its emissions and one-time
\* uses to the history it will supply from now on.
Accept(x, b, R) ==
    /\ ~Refused(prior[x], R, b)
    /\ Reaches(b, 20)
    /\ \A c \in DOMAIN Classes : ~Conflict(prior[x], uses[x], R, b, c)
    /\ Tell(x, b, R, 20, "conformant", AllListed(R, b))
    /\ prior' = [prior EXCEPT ![x] = @ \cup EmissionsOf(b.receipts)]
    /\ uses' = [uses EXCEPT ![x] = @ \cup {r \in b.receipts : r.once # None}]
    /\ accepted' = [accepted EXCEPT ![x] = @ \cup b.receipts]
    /\ UNCHANGED retained

Evaluate(x) ==
    \E b \in Bundles, R \in SUBSET retained[x] :
        Refuse(x, b, R) \/ Reject(x, b, R) \/ RejectHistory(x, b, R) \/ Accept(x, b, R)

\* An examiner keeps the bundle it has just found conformant.
Retain(x) ==
    /\ verdict[x].reason = "conformant"
    /\ Cardinality(retained[x]) < MaxRetained
    /\ retained' = [retained EXCEPT ![x] = @ \cup {verdict[x].bundle}]
    /\ UNCHANGED <<prior, uses, accepted, verdict>>

\* An examiner takes an entry into its prior state that it did not verify.
Import(x) ==
    /\ \E p \in Foreign : prior' = [prior EXCEPT ![x] = @ \cup {p}]
    /\ UNCHANGED <<uses, retained, accepted, verdict>>

Next == \E x \in Examiners : Evaluate(x) \/ Retain(x) \/ Import(x)

Spec == Init /\ [][Next]_vars

-----------------------------------------------------------------------------
(***************************************************************************)
(* What the verifier promises its examiners                                *)
(***************************************************************************)

\* Two receipts cannot both be what was emitted: one receipt_id has two
\* envelopes, or one coordinate two receipts.
Contradict(r, s) == (r.id = s.id /\ r # s) \/ Equivocate(r, s)

Consistent(S) == \A r, s \in S : ~Contradict(r, s)

\* Emission identity (step 9 and classes (a), (b) of step 20 together): over
\* any sequence of bundles, an examiner that supplies its history never
\* accepts two receipts that contradict each other.
AcceptedIsConsistent == \A x \in Examiners : Consistent(accepted[x])

\* Replay (step 11 and class (c)): a one-time coordinate is never accepted
\* for two contents, in one bundle or across bundles.
OneTimeOnce ==
    \A x \in Examiners : \A r, s \in accepted[x] : ~UsedTwice(r, s)

Clash(r, s) == Contradict(r, s) \/ UsedTwice(r, s)

\* An examiner's accepted receipts are a ledger: it grows by whole bundles, and
\* neither identity nor one-time use is ever contradicted by what it took before.
Book == INSTANCE Ledger WITH
            Emissions <- Receipts,
            Contradict <- Clash,
            book <- accepted
ImplementsLedger == Book!Spec

\* D-87 (spec/DECISIONS.md): two examiners that hold different histories agree
\* on what is wrong with a bundle itself: a verdict of a step before 20 is
\* every other examiner's verdict of the same bundle, unless that is a usage error.
ExaminersAgree ==
    \A x, y \in Examiners :
        /\ verdict[x].bundle = verdict[y].bundle
        /\ verdict[x].reason = "failed"
        /\ verdict[y].reason # "usage"
        => verdict[y].reason = "failed" /\ verdict[y].step = verdict[x].step

\* Retained evidence (rules 3 and 4 of D-87): when a bundle is conformant, no
\* emission in the examiner's history, the bundle's included, claims a retained
\* epoch whose index does not list it with its coordinates.
HistoryAgreesWithIndex ==
    \A x \in Examiners : verdict[x].reason = "conformant" =>
        \A p \in EmissionsOf(accepted[x]), e \in RetainedEpochs(verdict[x].supplied) :
            p.key = e.key => \E n \in e.index : n.id = p.id /\ EntryMatches(n, p)

\* Membership (rule 5 of D-87) is never earned from the bundle itself: each
\* carried receipt is listed by another bundle, which the examiner found
\* conformant before.
MembershipIsEarned ==
    \A x \in Examiners : verdict[x].listed =>
        \A r \in verdict[x].bundle.receipts :
            \E b \in retained[x] \ {verdict[x].bundle} :
                /\ b.receipts \subseteq accepted[x]
                /\ \E e \in b.epochs : e.key = r.key /\ Lists(e, r)

\* Class (d): a manifest that forks a retained one always comes with an event
\* that does, so that the order of the two passes is not observable
\* (spec/CONFORMANCE.md, step 20).
ForkShowsInEvents ==
    \A x \in Examiners : verdict[x].reason = "epoch/fork" =>
        EventForks(verdict[x].supplied, verdict[x].bundle)

-----------------------------------------------------------------------------
(***************************************************************************)
(* Honest producers                                                        *)
(***************************************************************************)
HonestReceipts == UNION {b.receipts : b \in Honest}
HonestEpochs == UNION {b.epochs : b \in Honest}

\* Each honest bundle passes by itself, no two honest receipts contradict each
\* other or share a one-time coordinate, and the closed epochs are one manifest per
\* key that lists exactly what the key's receipts say, with event chains that
\* extend each other.
HonestWorld ==
    /\ \A b \in Honest : Reaches(b, 20)
    /\ Consistent(HonestReceipts)
    /\ \A r, s \in HonestReceipts : ~UsedTwice(r, s)
    /\ \A e, f \in HonestEpochs : e.key = f.key => e.mid = f.mid /\ Agree(e.chain, f.chain)
    /\ \A e \in HonestEpochs, r \in HonestReceipts : r.key = e.key =>
            /\ Lists(e, r)
            /\ \A n \in e.index : n.id = r.id => EntryMatches(n, r)

\* The retained bundles are supplied as they must be: others, not from the future.
Admissible(R, b) ==
    /\ ~(Cardinality(R) > MaxRetained)
    /\ \A r \in R : r # b /\ r.at <= b.at

\* The examiner has collected nothing but what honest producers emitted.
Untainted(x) ==
    /\ prior[x] \subseteq EmissionsOf(HonestReceipts)
    /\ uses[x] \subseteq HonestReceipts
    /\ verdict[x].supplied \subseteq Honest

\* D-87: history never stands in the way of honest producers.  Their bundles may
\* come in any order, partial, overlapping, old after new, and between forged ones
\* that were turned away: each is conformant, and no history is refused.
HonestIsAccepted ==
    HonestWorld =>
        \A x \in Examiners :
            /\ verdict[x].bundle \in Honest /\ Untainted(x)
            /\ Admissible(verdict[x].supplied, verdict[x].bundle)
            => verdict[x].reason = "conformant"
=============================================================================

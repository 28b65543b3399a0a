----------------------------- MODULE VerifierProofs -----------------------------
(***************************************************************************)
(* Proofs about the verifier: what a conformant verdict promises, for      *)
(* every corpus of bundles of the form that CorpusAssumption states, every *)
(* configuration and every value of the limits.                            *)
(***************************************************************************)
EXTENDS Verifier, FiniteSetTheorems, WellFoundedInduction, TLAPS

-----------------------------------------------------------------------------
(* Codes. *)

\* Of two checks in a row neither finds anything if the two do not.
LEMMA Then == \A x, y : (x ?? y) = OK <=> x = OK /\ y = OK
BY DEF ??, OK

\* A set of naturals that is not empty has a least element.
LEMMA BelowIsWellFounded ==
  \E R : (\A x, y \in Nat : x < y => <<x, y>> \in R) /\ IsWellFoundedOn(R, Nat)
<1> DEFINE R == OpToRel(<, Nat)
<1>1. \A x, y \in Nat : x < y => <<x, y>> \in R
  BY DEF OpToRel
<1>2. IsWellFoundedOn(R, Nat)
  BY NatLessThanWellFounded, Zenon
<1> HIDE DEF R
<1> QED BY <1>1, <1>2, Zenon

LEMMA Least ==
  ASSUME NEW T, T \subseteq Nat, T # {}
  PROVE  \E x \in T : \A y \in T : x <= y
<1>1. PICK Q : (\A x, y \in Nat : x < y => <<x, y>> \in Q) /\ IsWellFoundedOn(Q, Nat)
  BY BelowIsWellFounded, Zenon
<1>2. IsWellFoundedOn(Q, Nat)
  BY <1>1, Zenon
<1>3. PICK x \in T : \A y \in T : ~ (<<y, x>> \in Q)
  BY <1>2, WFMin, Zenon
<1>4. \A y \in T : ~ (y < x)
  BY <1>1, <1>3, Zenon
<1>5. \A y \in T : x <= y
  BY <1>4
<1> QED BY <1>5, Zenon

LEMMA Induction ==
  ASSUME NEW T, T \subseteq Nat, 0 \in T, \A n \in T : n + 1 \in T
  PROVE  T = Nat
<1>1. SUFFICES ASSUME Nat \ T # {} PROVE FALSE
  OBVIOUS
<1>2. PICK x \in Nat \ T : \A y \in Nat \ T : x <= y
  <2> DEFINE U == Nat \ T
  <2>1. U \subseteq Nat /\ U # {}
    BY <1>1
  <2> HIDE DEF U
  <2>2. \E x \in U : \A y \in U : x <= y
    BY <2>1, Least, Zenon
  <2> QED BY <2>2 DEF U
<1>3. x # 0 /\ x - 1 \in Nat
  BY <1>2
<1>4. x - 1 \in T
  BY <1>2, <1>3
<1> QED BY <1>2, <1>3, <1>4

\* What Min and FirstCode say of the places of an array.
LEMMA MinIsLeast ==
  ASSUME NEW T, T \subseteq Nat, T # {}
  PROVE  Min(T) \in T
<1>1. \E x \in T : \A y \in T : x <= y
  BY Least
<1> QED BY <1>1 DEF Min

LEMMA AllOK ==
  ASSUME NEW codes, DOMAIN codes \subseteq Nat, FirstCode(codes) = OK, NEW i \in DOMAIN codes
  PROVE  codes[i] = OK
<1> DEFINE bad == {j \in DOMAIN codes : codes[j] # OK}
<1>1. SUFFICES ASSUME bad # {} PROVE FALSE
  OBVIOUS
<1>2. Min(bad) \in bad
  <2>1. bad \subseteq Nat
    OBVIOUS
  <2> HIDE DEF bad
  <2> QED BY <1>1, <2>1, MinIsLeast
<1>3. codes[Min(bad)] = OK
  BY <1>1 DEF FirstCode
<1> QED BY <1>2, <1>3

-----------------------------------------------------------------------------
(* What holds while the steps go by. *)

Passed ==
    /\ step > 3 => Schema(Bundle) = OK
    /\ step > 6 => Envelopes(Bundle) = OK
    /\ step > 7 => Content(Bundle) = OK
    /\ step > 8 => Lifecycle(Bundle, Configuration, VerifierKid) = OK
    /\ step > 9 => Emission(Bundle) = OK
    /\ step > 10 => Semantics(Bundle) = OK
    /\ step > 12 => Graph(Bundle) = OK
    /\ step > 13 => Dominance(Bundle) = OK
    /\ step > 14 => Epochs(Bundle) = OK
    /\ step > 15 => ManifestIndexes(Bundle) = OK
    /\ step > 16 => Merkle(Bundle) = OK
    /\ step > 17 => Anchors(Bundle) = OK
    /\ step > 18 => Ranges(Bundle) = OK
    /\ step > 19 => EvidenceFault(Bundle) = OK

\* The verdict is about the bundle all of whose steps have passed.
Answered ==
    IsConformant =>
        /\ step = 21 /\ verdict.profile = Bundle.profile
        /\ verdict.time = EvidenceLimits(Bundle).time
        /\ verdict.outcome = EvidenceLimits(Bundle).outcome
        /\ verdict.observations = observations

Progress ==
    /\ fixture \in DOMAIN Corpus /\ step \in 1 .. 21 /\ (issue # OK => step # 21)
    /\ Passed
    /\ step > 13 /\ Degraded(Bundle) => "degraded_dispatch" \in observations
    /\ Answered

LEMMA SameBundle ==
  ASSUME fixture' = fixture
  PROVE  /\ Bundle' = Bundle /\ Configuration' = Configuration /\ VerifierKid' = VerifierKid
         /\ Input' = Input
BY DEF Bundle, Configuration, VerifierKid, Input

LEMMA ProgressInit == Init => Progress
BY DEF Init, Progress, Passed, Answered, IsConformant

\* A step that finds nothing has passed; at one that does the verifier stays.
LEMMA StepKeeps ==
  ASSUME Progress, NEW k \in 1 .. 20, NEW code, NEW observed, Step(k, code, observed),
         code = OK => Passed',
         code = OK /\ k = 13 /\ Degraded(Bundle) => "degraded_dispatch" \in observed
  PROVE  Progress'
<1>1. /\ fixture' = fixture /\ verdict' = verdict /\ step = k
      /\ issue' = code /\ step' = IF code = OK THEN k + 1 ELSE k
      /\ observations \subseteq observations' /\ (code = OK => observed \subseteq observations')
  BY DEF Step
<1>2. Bundle' = Bundle /\ step \in 1 .. 20
  BY <1>1, SameBundle
<1>3. Passed'
  <2>1. CASE code = OK
    BY <2>1
  <2>2. CASE code # OK
    BY <1>1, <2>2, SameBundle DEF Passed, Progress
  <2> QED BY <2>1, <2>2
<1>4. (step > 13 /\ Degraded(Bundle) => "degraded_dispatch" \in observations)'
  BY <1>1, <1>2 DEF Progress
<1>5. ~ IsConformant
  BY <1>2 DEF Progress, Answered
<1>6. Answered'
  BY <1>1, <1>5 DEF Answered, IsConformant
<1>7. (fixture \in DOMAIN Corpus /\ step \in 1 .. 21 /\ (issue # OK => step # 21))'
  BY <1>1 DEF Progress
<1> QED BY <1>3, <1>4, <1>6, <1>7 DEF Progress

LEMMA ProgressStep == Progress /\ [Next]_vars => Progress'
<1> SUFFICES ASSUME Progress, [Next]_vars PROVE Progress'
  OBVIOUS
<1>1. CASE MeasureBytes
  <2>1. PICK code, observed : Step(1, code, observed) /\ (code = OK => Passed')
    BY <1>1, SameBundle DEF MeasureBytes, Progress, Passed, Step
  <2> QED BY <2>1, StepKeeps
<1>2. CASE DecodeBytes
  <2>1. PICK code, observed : Step(2, code, observed) /\ (code = OK => Passed')
    BY <1>2, SameBundle DEF DecodeBytes, Progress, Passed, Step
  <2> QED BY <2>1, StepKeeps
<1>3. CASE ValidateBundleSchema
  <2>1. PICK code, observed : Step(3, code, observed) /\ (code = OK => Passed')
    BY <1>3, SameBundle DEF ValidateBundleSchema, Progress, Passed, Step
  <2> QED BY <2>1, StepKeeps
<1>4. CASE ValidateResourceCounts
  <2>1. PICK code, observed : Step(4, code, observed) /\ (code = OK => Passed')
    BY <1>4, SameBundle DEF ValidateResourceCounts, Progress, Passed, Step
  <2> QED BY <2>1, StepKeeps
<1>5. CASE ValidateTrustInputs
  <2>1. PICK code, observed : Step(5, code, observed) /\ (code = OK => Passed')
    BY <1>5, SameBundle DEF ValidateTrustInputs, Progress, Passed, Step
  <2> QED BY <2>1, StepKeeps
<1>6. CASE ValidateEnvelopes
  <2>1. PICK code, observed : Step(6, code, observed) /\ (code = OK => Passed')
    BY <1>6, SameBundle DEF ValidateEnvelopes, Progress, Passed, Step
  <2> QED BY <2>1, StepKeeps
<1>7. CASE ValidateContent
  <2>1. PICK code, observed : Step(7, code, observed) /\ (code = OK => Passed')
    BY <1>7, SameBundle DEF ValidateContent, Progress, Passed, Step
  <2> QED BY <2>1, StepKeeps
<1>8. CASE ValidateCredentialLifecycle
  <2>1. PICK code, observed : Step(8, code, observed) /\ (code = OK => Passed')
    BY <1>8, SameBundle DEF ValidateCredentialLifecycle, Progress, Passed, Step
  <2> QED BY <2>1, StepKeeps
<1>9. CASE ValidateEmission
  <2>1. PICK code, observed : Step(9, code, observed) /\ (code = OK => Passed')
    BY <1>9, SameBundle DEF ValidateEmission, Progress, Passed, Step
  <2> QED BY <2>1, StepKeeps
<1>10. CASE ValidateReceiptSemantics
  <2> DEFINE code == Semantics(Bundle) ?? Countersigned(Bundle)
             observed == {x \in {"mediator_countersigned"} : Bundle.countersignatures # <<>>}
  <2>1. Step(10, code, observed)
    BY <1>10 DEF ValidateReceiptSemantics
  <2>2. code = OK => Semantics(Bundle) = OK
    BY Then
  <2> HIDE DEF code, observed
  <2>3. code = OK => Passed'
    BY <2>1, <2>2, SameBundle DEF Progress, Passed, Step
  <2> QED BY <2>1, <2>3, StepKeeps
<1>11. CASE ValidateReplay
  <2>1. PICK code, observed : Step(11, code, observed) /\ (code = OK => Passed')
    BY <1>11, SameBundle DEF ValidateReplay, Progress, Passed, Step
  <2> QED BY <2>1, StepKeeps
<1>12. CASE ValidateGraph
  <2>1. PICK code, observed : Step(12, code, observed) /\ (code = OK => Passed')
    BY <1>12, SameBundle DEF ValidateGraph, Progress, Passed, Step
  <2> QED BY <2>1, StepKeeps
<1>13. CASE ValidateDominance
  <2> DEFINE observed == {x \in {"degraded_dispatch"} : Degraded(Bundle)}
                 \cup {x \in {"refused_pre_dispatch"} : RefusedPreDispatch(Bundle)}
                 \cup {x \in {"untrusted_origin_declared_in_action_ancestry"} : InputOrigins(Bundle).untrusted}
  <2>1. Step(13, Dominance(Bundle), observed)
    BY <1>13 DEF ValidateDominance
  <2>2. Degraded(Bundle) => "degraded_dispatch" \in observed
    OBVIOUS
  <2> HIDE DEF observed
  <2>3. Dominance(Bundle) = OK => Passed'
    BY <2>1, SameBundle DEF Progress, Passed, Step
  <2> QED BY <2>1, <2>2, <2>3, StepKeeps
<1>14. CASE ValidateEpochs
  <2>1. PICK code, observed : Step(14, code, observed) /\ (code = OK => Passed')
    BY <1>14, SameBundle DEF ValidateEpochs, Progress, Passed, Step
  <2> QED BY <2>1, StepKeeps
<1>15. CASE ValidateManifestIndexes
  <2>1. PICK code, observed : Step(15, code, observed) /\ (code = OK => Passed')
    BY <1>15, SameBundle DEF ValidateManifestIndexes, Progress, Passed, Step
  <2> QED BY <2>1, StepKeeps
<1>16. CASE ValidateMerkle
  <2>1. PICK code, observed : Step(16, code, observed) /\ (code = OK => Passed')
    BY <1>16, SameBundle DEF ValidateMerkle, Progress, Passed, Step
  <2> QED BY <2>1, StepKeeps
<1>17. CASE ValidateAnchors
  <2>1. PICK code, observed : Step(17, code, observed) /\ (code = OK => Passed')
    BY <1>17, SameBundle DEF ValidateAnchors, Progress, Passed, Step
  <2> QED BY <2>1, StepKeeps
<1>18. CASE ValidateRanges
  <2>1. PICK code, observed : Step(18, code, observed) /\ (code = OK => Passed')
    BY <1>18, SameBundle DEF ValidateRanges, Progress, Passed, Step
  <2> QED BY <2>1, StepKeeps
<1>19. CASE ValidateEvidence
  <2>1. PICK code, observed : Step(19, code, observed) /\ (code = OK => Passed')
    BY <1>19, SameBundle DEF ValidateEvidence, Progress, Passed, Step
  <2> QED BY <2>1, StepKeeps
<1>20. CASE ResolveVerifierKey
  <2>1. PICK code, observed : Step(20, code, observed) /\ (code = OK => Passed')
    BY <1>20, SameBundle DEF ResolveVerifierKey, Progress, Passed, Step
  <2> QED BY <2>1, StepKeeps
<1>21. CASE EmitFailureVerdict
  BY <1>21, SameBundle DEF EmitFailureVerdict, Progress, Passed, Answered, IsConformant
<1>22. CASE EmitVerdict
  BY <1>22, SameBundle DEF EmitVerdict, Progress, Passed, Answered, IsConformant
<1>23. CASE UNCHANGED vars
  BY <1>23, SameBundle DEF vars, Progress, Passed, Answered, IsConformant
<1> QED
  BY <1>1, <1>2, <1>3, <1>4, <1>5, <1>6, <1>7, <1>8, <1>9, <1>10, <1>11, <1>12, <1>13, <1>14, <1>15, <1>16, <1>17, <1>18, <1>19, <1>20, <1>21, <1>22, <1>23 DEF Next

LEMMA ProgressInvariant == Spec => []Progress
BY ProgressInit, ProgressStep, PTL DEF Spec

-----------------------------------------------------------------------------
(* The signed objects of a bundle and the checks of each. *)

\* A bundle of the form that is taken for granted which has passed the steps.
Accepted(b) ==
    /\ HasArrays(b) /\ HasIntegers(b) /\ HasClasses(b) /\ HasNames(b)
    /\ Schema(b) = OK /\ Envelopes(b) = OK /\ Content(b) = OK
    /\ \E c, v : Lifecycle(b, c, v) = OK
    /\ Emission(b) = OK /\ Semantics(b) = OK /\ Graph(b) = OK /\ Dominance(b) = OK
    /\ Epochs(b) = OK /\ ManifestIndexes(b) = OK /\ Merkle(b) = OK /\ Anchors(b) = OK
    /\ Ranges(b) = OK /\ EvidenceFault(b) = OK

LEMMA ConformantIsAccepted ==
  ASSUME Progress, IsConformant
  PROVE  Accepted(Bundle)
<1>1. step = 21 /\ fixture \in DOMAIN Corpus
  BY DEF Progress, Answered
<1>2. HasArrays(Bundle) /\ HasIntegers(Bundle) /\ HasClasses(Bundle) /\ HasNames(Bundle)
  BY <1>1, CorpusAssumption DEF Bundle, Input
<1> QED BY <1>1, <1>2 DEF Progress, Passed, Accepted

\* The arrays with an id and an envelope, and those of artifacts.
EntryFields ==
    {"credentials", "rotations", "statuses", "requests", "delegations", "events", "manifests",
     "anchors", "batches", "countersignatures"}

LEMMA Fields ==
  /\ DOMAIN TopLevel = 1 .. 10
  /\ \A i \in 1 .. 10 : TopLevel[i][2] \in EntryFields
  /\ \A field \in EntryFields : \E i \in 1 .. 10 : TopLevel[i][2] = field
BY DEF TopLevel, EntryFields

LEMMA Artifacts ==
  /\ DOMAIN ArtifactFields = 1 .. 13
  /\ \A field \in EntryFields \cup {"receipts", "proofs", "payloads"} :
        \E i \in 1 .. 13 : ArtifactFields[i] = field
BY DEF ArtifactFields, EntryFields

LEMMA Arrays ==
  ASSUME NEW b, HasArrays(b)
  PROVE  /\ \A field \in EntryFields \cup {"receipts", "proofs", "payloads"} : IsArray(b[field])
         /\ IsArray(b.ranges)
<1>1. ASSUME NEW field \in EntryFields \cup {"receipts", "proofs", "payloads"}
      PROVE  IsArray(b[field])
  BY Artifacts DEF HasArrays, Elements
<1>2. IsArray(b["ranges"])
  BY DEF HasArrays
<1> QED BY <1>1, <1>2

LEMMA ReceiptArrays ==
  ASSUME NEW b, HasArrays(b)
  PROVE  DOMAIN b.receipts \subseteq Nat /\ \A r \in Elements(b.receipts) : DOMAIN r.parents \subseteq Nat
<1>1. IsArray(b.receipts) /\ \A r \in Elements(b.receipts) : IsArray(r.parents)
  BY Arrays DEF HasArrays
<1>2. \A s : IsArray(s) => DOMAIN s \subseteq Nat
  BY DEF IsArray
<1> QED BY <1>1, <1>2

LEMMA ReceiptEntriesRange ==
  ASSUME NEW r
  PROVE  /\ DOMAIN ReceiptEntries(r) \subseteq Nat
         /\ ReceiptEntries(r)[1] = Entry("receipt", r, None) /\ 1 \in DOMAIN ReceiptEntries(r)
         /\ r.kind = "authorization" =>
               /\ 2 \in DOMAIN ReceiptEntries(r)
               /\ ReceiptEntries(r)[2] = Entry("delegation", r.body.delegation, None)
BY DEF ReceiptEntries

LEMMA EntryVerified ==
  ASSUME NEW b, HasArrays(b), Envelopes(b) = OK, NEW e \in Entries(b)
  PROVE  Parse(e.kind, e.a) = OK /\ VerifyEnvelope(b, e) = OK
<1> DEFINE F(entry) == Classified(b, entry, Parse(entry.kind, entry.a) ?? VerifyEnvelope(b, entry))
           G(t) == ForEach(b[t[2]], LAMBDA a : F(Entry(t[1], a, None)))
           H(r) == ForEach(ReceiptEntries(r), F)
<1>1. ForEach(TopLevel, G) = OK /\ ForEach(b.receipts, H) = OK
  <2>1. ForEachEntry(b, F) = OK
    BY DEF Envelopes
  <2> QED BY <2>1, Then DEF ForEachEntry
<1> HIDE DEF F
<1>2. F(e) = OK
  <2>1. CASE \E t \in Elements(TopLevel) : \E a \in Elements(b[t[2]]) : e = Entry(t[1], a, None)
    <3>1. PICK i \in 1 .. 10 : \E a \in Elements(b[TopLevel[i][2]]) : e = Entry(TopLevel[i][1], a, None)
      BY <2>1, Fields DEF Elements
    <3> DEFINE t == TopLevel[i]
    <3>2. PICK j \in DOMAIN b[t[2]] : e = Entry(t[1], b[t[2]][j], None)
      BY <3>1 DEF Elements
    <3>3. DOMAIN b[t[2]] \subseteq Nat
      BY Fields, Arrays DEF IsArray
    <3>4. G(t) = OK
      <4> HIDE DEF G
      <4> DEFINE codes == [k \in DOMAIN TopLevel |-> G(TopLevel[k])]
      <4>1. FirstCode(codes) = OK
        BY <1>1 DEF ForEach
      <4>2. DOMAIN codes \subseteq Nat /\ i \in DOMAIN codes /\ codes[i] = G(t)
        BY Fields
      <4> HIDE DEF codes
      <4> QED BY <4>1, <4>2, AllOK
    <3>5. F(Entry(t[1], b[t[2]][j], None)) = OK
      <4> DEFINE codes == [k \in DOMAIN b[t[2]] |-> F(Entry(t[1], b[t[2]][k], None))]
      <4>1. FirstCode(codes) = OK /\ DOMAIN codes \subseteq Nat /\ j \in DOMAIN codes
            /\ codes[j] = F(Entry(t[1], b[t[2]][j], None))
        BY <3>2, <3>3, <3>4 DEF ForEach
      <4> HIDE DEF codes
      <4> QED BY <4>1, AllOK
    <3> QED BY <3>2, <3>5
  <2>2. CASE \E r \in Elements(b.receipts) : e \in Elements(ReceiptEntries(r))
    <3>1. PICK i \in DOMAIN b.receipts : e \in Elements(ReceiptEntries(b.receipts[i]))
      BY <2>2 DEF Elements
    <3> DEFINE r == b.receipts[i]
    <3>2. PICK j \in DOMAIN ReceiptEntries(r) : e = ReceiptEntries(r)[j]
      BY <3>1 DEF Elements
    <3>3. DOMAIN b.receipts \subseteq Nat /\ DOMAIN ReceiptEntries(r) \subseteq Nat
      BY Arrays, ReceiptEntriesRange DEF IsArray
    <3>4. H(r) = OK
      <4> DEFINE codes == [k \in DOMAIN b.receipts |-> H(b.receipts[k])]
      <4>1. FirstCode(codes) = OK /\ DOMAIN codes \subseteq Nat /\ i \in DOMAIN codes /\ codes[i] = H(r)
        BY <1>1, <3>3 DEF ForEach
      <4> HIDE DEF codes
      <4> QED BY <4>1, AllOK
    <3>5. F(ReceiptEntries(r)[j]) = OK
      <4> DEFINE codes == [k \in DOMAIN ReceiptEntries(r) |-> F(ReceiptEntries(r)[k])]
      <4>1. FirstCode(codes) = OK /\ DOMAIN codes \subseteq Nat /\ j \in DOMAIN codes
            /\ codes[j] = F(ReceiptEntries(r)[j])
        BY <3>2, <3>3, <3>4 DEF ForEach
      <4> HIDE DEF codes
      <4> QED BY <4>1, AllOK
    <3> QED BY <3>2, <3>5
  <2>3. \/ \E t \in Elements(TopLevel) : e \in {Entry(t[1], a, None) : a \in Elements(b[t[2]])}
        \/ \E r \in Elements(b.receipts) : e \in Elements(ReceiptEntries(r))
    BY DEF Entries
  <2> QED BY <2>1, <2>2, <2>3
<1>3. (Parse(e.kind, e.a) ?? VerifyEnvelope(b, e)) = OK
  BY <1>2 DEF Classified, F, OK
<1> QED BY <1>3, Then

\* What cannot be read does not parse.
LEMMA ParsedIsReadable ==
  ASSUME NEW kind, NEW a, Parse(kind, a) = OK
  PROVE  ~ Unreadable(a)
<1>1. /\ ParseCose(a.flaws) = OK /\ Decode(a.flaws, "payload") = OK
      /\ ApplyRules(a.flaws, << "payload", "v" >>) = OK
  BY Then DEF Parse
<1>2. <<"entry", "type">> \notin a.flaws
  <2>1. Judge(a.flaws, EnvelopeRows) = OK
    BY <1>1, Then DEF ParseCose
  <2> DEFINE codes == [i \in DOMAIN EnvelopeRows |->
                          Require(<<EnvelopeRows[i][1], EnvelopeRows[i][2]>> \notin a.flaws, EnvelopeRows[i][3])]
  <2>2. DOMAIN EnvelopeRows = 1 .. 2 /\ EnvelopeRows[1] = <<"entry", "type", "schema/bad-type">>
    BY DEF EnvelopeRows
  <2>3. a.flaws = {} \/ FirstCode(codes) = OK
    BY <2>1 DEF Judge, ForEach
  <2>4. DOMAIN codes \subseteq Nat /\ 1 \in DOMAIN codes
        /\ codes[1] = Require(<<"entry", "type">> \notin a.flaws, "schema/bad-type")
    BY <2>2
  <2> HIDE DEF codes
  <2>5. a.flaws = {} \/ codes[1] = OK
    BY <2>3, <2>4, AllOK
  <2> QED BY <2>4, <2>5 DEF Require, OK
<1>3. ~ Undecodable(a.flaws, "payload")
  <2> SUFFICES ASSUME NEW i \in DOMAIN DecodeDefects, <<"payload", DecodeDefects[i][1]>> \in a.flaws
               PROVE  FALSE
    BY DEF Undecodable, Elements
  <2> DEFINE codes == [j \in DOMAIN DecodeDefects |->
                          Require(<<"payload", DecodeDefects[j][1]>> \notin a.flaws, DecodeDefects[j][2])]
  <2>1. FirstCode(codes) = OK
    BY <1>1 DEF Decode, ForEach
  <2>2. DOMAIN DecodeDefects = 1 .. 9 /\ DecodeDefects[i][2] # OK
    <3>1. /\ DOMAIN DecodeDefects = 1 .. 9
          /\ DecodeDefects[1][2] # OK /\ DecodeDefects[2][2] # OK /\ DecodeDefects[3][2] # OK
          /\ DecodeDefects[4][2] # OK /\ DecodeDefects[5][2] # OK /\ DecodeDefects[6][2] # OK
          /\ DecodeDefects[7][2] # OK /\ DecodeDefects[8][2] # OK /\ DecodeDefects[9][2] # OK
      BY DEF DecodeDefects, OK
    <3> QED BY <3>1
  <2>3. DOMAIN codes \subseteq Nat /\ i \in DOMAIN codes
        /\ codes[i] = Require(<<"payload", DecodeDefects[i][1]>> \notin a.flaws, DecodeDefects[i][2])
    BY <2>2
  <2> HIDE DEF codes
  <2>4. codes[i] = OK
    BY <2>1, <2>3, AllOK
  <2> QED BY <2>2, <2>3, <2>4 DEF Require
<1>4. <<"payload", "type">> \notin a.flaws
  <2> DEFINE places == << "payload", "v" >>
             codes == [i \in DOMAIN places |-> CheckField(a.flaws, places[i])]
             defects == [i \in DOMAIN FieldDefects |->
                            Require(<<"payload", FieldDefects[i][1]>> \notin a.flaws, FieldDefects[i][2])]
  <2>1. a.flaws = {} \/ FirstCode(codes) = OK
    BY <1>1 DEF ApplyRules, ForEach
  <2>2. DOMAIN codes \subseteq Nat /\ 1 \in DOMAIN codes /\ codes[1] = FirstCode(defects)
    <3>1. DOMAIN places = 1 .. 2 /\ places[1] = "payload"
      OBVIOUS
    <3>2. CheckField(a.flaws, "payload") = FirstCode(defects)
      BY DEF CheckField, ForEach
    <3> HIDE DEF places, defects
    <3> QED BY <3>1, <3>2
  <2>3. DOMAIN FieldDefects = 1 .. 12 /\ FieldDefects[2] = <<"type", "schema/bad-type">>
    BY DEF FieldDefects
  <2>4. DOMAIN defects \subseteq Nat /\ 2 \in DOMAIN defects
        /\ defects[2] = Require(<<"payload", "type">> \notin a.flaws, "schema/bad-type")
    BY <2>3
  <2> HIDE DEF codes, defects
  <2>5. a.flaws = {} \/ defects[2] = OK
    BY <2>1, <2>2, <2>4, AllOK
  <2> QED BY <2>4, <2>5 DEF Require, OK
<1> QED BY <1>2, <1>3, <1>4 DEF Unreadable

\* No two artifacts of an array have the same id.
LEMMA UniqueIds ==
  ASSUME NEW b, Accepted(b), NEW field \in EntryFields \cup {"receipts"},
         NEW i \in DOMAIN b[field], NEW j \in DOMAIN b[field], b[field][i].id = b[field][j].id
  PROVE  i = j
<1>1. PICK k \in 1 .. 13 : ArtifactFields[k] = field
  BY Artifacts
<1> DEFINE codes == [n \in DOMAIN ArtifactFields |-> Sorted(b, ArtifactFields[n])]
<1>2. FirstCode(codes) = OK
  BY Then DEF Accepted, Schema, ForEach
<1>3. DOMAIN codes \subseteq Nat /\ k \in DOMAIN codes /\ codes[k] = Sorted(b, field)
  BY <1>1, Artifacts
<1> HIDE DEF codes
<1>4. Sorted(b, field) = OK
  BY <1>2, <1>3, AllOK
<1>5. ASSUME NEW n \in DOMAIN b[field] PROVE ~ Unreadable(b[field][n])
  <2> DEFINE a == b[field][n]
  <2>1. PICK kind : Entry(kind, a, None) \in Entries(b)
    <3>1. CASE field \in EntryFields
      <4>1. PICK m \in 1 .. 10 : TopLevel[m][2] = field
        BY <3>1, Fields
      <4>2. Entry(TopLevel[m][1], a, None) \in Entries(b)
        BY <4>1, Fields DEF Entries, Elements
      <4> QED BY <4>2
    <3>2. CASE field = "receipts"
      <4>1. Entry("receipt", a, None) \in Elements(ReceiptEntries(a)) /\ a \in Elements(b.receipts)
        BY <3>2, ReceiptEntriesRange DEF Elements
      <4>2. Entry("receipt", a, None) \in Entries(b)
        BY <4>1 DEF Entries
      <4> QED BY <4>2
    <3> QED BY <3>1, <3>2
  <2>2. Parse(kind, a) = OK
    BY <2>1, EntryVerified DEF Accepted, Entry
  <2> QED BY <2>2, ParsedIsReadable
<1>6. field \notin {"payloads", "proofs"}
  BY DEF EntryFields
<1>7. \A m, n \in DOMAIN b[field] : PrimaryId(field, b[field][m]) = PrimaryId(field, b[field][n]) => m = n
  <2> DEFINE distinct == \A m, n \in DOMAIN b[field] :
                             PrimaryId(field, b[field][m]) = PrimaryId(field, b[field][n]) => m = n
  <2>1. (Require(distinct, "schema/duplicate-entry")
         ?? Require(<<field, "id_order">> \notin b.flaws, "schema/unsorted-set")) = OK
    BY <1>4, <1>5, <1>6 DEF Sorted
  <2> HIDE DEF distinct
  <2>2. distinct
    BY <2>1, Then DEF Require, OK
  <2> QED BY <2>2 DEF distinct
<1> QED BY <1>6, <1>7 DEF PrimaryId

LEMMA Found ==
  ASSUME NEW s, NEW id, Carries(s, id)
  PROVE  \E i \in DOMAIN s : Find(s, id) = s[i] /\ s[i].id = id
BY DEF Carries, Find

LEMMA FoundAgain ==
  ASSUME NEW b, Accepted(b), NEW field \in EntryFields \cup {"receipts"}, NEW i \in DOMAIN b[field]
  PROVE  Carries(b[field], b[field][i].id) /\ Find(b[field], b[field][i].id) = b[field][i]
<1>1. Carries(b[field], b[field][i].id)
  BY DEF Carries
<1>2. PICK j \in DOMAIN b[field] : Find(b[field], b[field][i].id) = b[field][j] /\ b[field][j].id = b[field][i].id
  BY <1>1, Found
<1>3. i = j
  BY <1>2, UniqueIds
<1> QED BY <1>1, <1>2, <1>3

\* The same of the arrays by their names.
LEMMA FoundThere ==
  ASSUME NEW b, Accepted(b)
  PROVE  /\ \A r \in Elements(b.receipts) : Carries(b.receipts, r.id) /\ Find(b.receipts, r.id) = r
         /\ \A m \in Elements(b.manifests) : Carries(b.manifests, m.id) /\ Find(b.manifests, m.id) = m
         /\ \A a \in Elements(b.anchors) : Carries(b.anchors, a.id) /\ Find(b.anchors, a.id) = a
         /\ \A c \in Elements(b.credentials) : Carries(b.credentials, c.id) /\ Find(b.credentials, c.id) = c
         /\ \A d \in Elements(b.delegations) : Carries(b.delegations, d.id) /\ Find(b.delegations, d.id) = d
<1>1. ASSUME NEW field \in EntryFields \cup {"receipts"}, NEW a \in Elements(b[field])
      PROVE  Carries(b[field], a.id) /\ Find(b[field], a.id) = a
  BY FoundAgain DEF Elements
<1>2. {"receipts", "manifests", "anchors", "credentials", "delegations"} \subseteq EntryFields \cup {"receipts"}
  BY DEF EntryFields
<1> QED BY <1>1, <1>2

-----------------------------------------------------------------------------
(* Key life. *)

LEMMA SignedInLife ==
  ASSUME NEW b, Accepted(b), NEW e \in Entries(b)
  PROVE  \E c \in Elements(b.credentials) :
            c.subject = e.a.by /\ c.from <= SigningTime(b, e) /\ SigningTime(b, e) < c.until
<1> DEFINE c == CredentialOf(b, e.a.by)
<1>1. VerifyEnvelope(b, e) = OK
  BY EntryVerified DEF Accepted
<1>2. /\ Require(\E x \in Elements(b.credentials) : x.subject = e.a.by, "key/not-found") = OK
      /\ ValidAt(c, SigningTime(b, e)) = OK
  <2> DEFINE found == Require(\E x \in Elements(b.credentials) : x.subject = e.a.by, "key/not-found")
             u == Require(c.key = c.subject, "credential/kid-key-mismatch")
             v == Require(c.curve = "p256", "key/not-p256")
             w == Require(/\ c.usage = UsageFor(e)
                          /\ e.kind = "mediator_countersignature" => c.role = "outcome_observer",
                          IF e.kind = "receipt" THEN "receipt/signer-role-mismatch"
                          ELSE "credential/usage-mismatch")
             x == Require(/\ \A kid \in DeclaredSigners(b, e) : e.a.by = kid
                          /\ e.kind = "credential" /\ e.a.path = <<>> => e.a.by = e.a.subject
                          /\ e.kind = "merkle_batch" => e.a.signer = e.a.owner,
                          "credential/usage-mismatch")
             y == Require(c.tenant = b.selector.tenant /\ c.site = b.selector.site,
                          "credential/usage-mismatch")
             valid == ValidAt(c, SigningTime(b, e))
             z == Require(e.kind = "receipt" => e.a.coordinates, "cose/receipt-coordinate-mismatch")
             signed == Require(e.a.sig, "sig/verify-failed")
  <2>1. (found ?? (u ?? v ?? w ?? x ?? y ?? valid ?? z ?? signed)) = OK
    BY <1>1, Zenon DEF VerifyEnvelope
  <2>2. found = OK /\ valid = OK
    <3> HIDE DEF found, u, v, w, x, y, valid, z, signed
    <3> QED BY <2>1, Then
  <2> QED BY <2>2
<1>3. c \in Elements(b.credentials) /\ c.subject = e.a.by
  <2> DEFINE places == {i \in DOMAIN b.credentials : b.credentials[i].subject = e.a.by}
  <2>1. places # {}
    <3>1. \E x \in Elements(b.credentials) : x.subject = e.a.by
      <4> HIDE DEF c
      <4> QED BY <1>2 DEF Require, OK
    <3> QED BY <3>1 DEF Elements
  <2>2. places \subseteq Nat
    BY Arrays DEF Accepted, IsArray, EntryFields
  <2>3. c = b.credentials[Min(places)]
    BY DEF CredentialOf
  <2>4. Min(places) \in places
    <3> HIDE DEF places
    <3> QED BY <2>1, <2>2, MinIsLeast
  <2> HIDE DEF c
  <2> QED BY <2>3, <2>4 DEF Elements
<1> HIDE DEF c
<1>4. /\ Require(SigningTime(b, e) >= c.from, "credential/not-yet-valid") = OK
      /\ Require(SigningTime(b, e) < c.until, "credential/expired") = OK
  BY <1>2, Then DEF ValidAt
<1>5. c.from <= SigningTime(b, e) /\ SigningTime(b, e) < c.until
  <2>1. SigningTime(b, e) \in Int /\ c.from \in Int /\ c.until \in Int
    BY <1>3 DEF Accepted, HasIntegers
  <2> QED BY <1>4, <2>1 DEF Require, OK
<1> QED BY <1>3, <1>5

LEMMA StatusInstant ==
  ASSUME NEW b, Accepted(b), NEW s \in Elements(b.statuses), s.status \in Instants
  PROVE  s.instant \in Int
<1>1. Entry("status", s, None) \in Entries(b)
  <2>1. DOMAIN TopLevel = 1 .. 10 /\ TopLevel[3] = <<"status", "statuses">>
    BY DEF TopLevel
  <2>2. <<"status", "statuses">> \in Elements(TopLevel)
    BY <2>1 DEF Elements
  <2>3. Entry("status", s, None) \in {Entry(<<"status", "statuses">>[1], a, None) : a \in Elements(b[<<"status", "statuses">>[2]])}
    OBVIOUS
  <2> QED BY <2>2, <2>3 DEF Entries
<1>2. Parse("status", s) = OK
  BY <1>1, EntryVerified DEF Accepted, Entry
<1>3. ApplyRules(s.flaws, StatusRules) = OK
  <2>1. ApplyRules(s.flaws, PayloadRules("status", s)) = OK
    BY <1>2, Then DEF Parse
  <2>2. PayloadRules("status", s) = StatusRules
    BY DEF PayloadRules
  <2> QED BY <2>1, <2>2
<1>4. CheckField(s.flaws, "instant") = OK
  <2>1. CASE s.flaws = {}
    <3> DEFINE codes == [i \in DOMAIN FieldDefects |->
                            Require(<<"instant", FieldDefects[i][1]>> \notin s.flaws, FieldDefects[i][2])]
    <3>1. CheckField(s.flaws, "instant") = FirstCode(codes)
      BY DEF CheckField, ForEach
    <3>2. \A i \in DOMAIN codes : codes[i] = OK
      BY <2>1 DEF Require
    <3> HIDE DEF codes
    <3> QED BY <3>1, <3>2 DEF FirstCode
  <2>2. CASE s.flaws # {}
    <3> DEFINE codes == [i \in DOMAIN StatusRules |-> CheckField(s.flaws, StatusRules[i])]
    <3>1. FirstCode(codes) = OK
      BY <1>3, <2>2 DEF ApplyRules, ForEach
    <3>2. DOMAIN StatusRules = 1 .. 8 /\ StatusRules[6] = "instant"
      BY DEF StatusRules
    <3>3. DOMAIN codes \subseteq Nat /\ 6 \in DOMAIN codes /\ codes[6] = CheckField(s.flaws, "instant")
      BY <3>2
    <3> HIDE DEF codes
    <3> QED BY <3>1, <3>3, AllOK
  <2> QED BY <2>1, <2>2
<1> QED BY <1>4 DEF Accepted, HasIntegers

LEMMA SignedBeforeInstant ==
  ASSUME NEW b, Accepted(b), NEW e \in Entries(b), NEW s \in Elements(b.statuses), s.status \in Instants,
         NEW c \in Elements(b.credentials), c.id = s.credential, c.subject = e.a.by
  PROVE  SigningTime(b, e) < s.instant
<1>1. PICK verifier, configuration : Lifecycle(b, configuration, verifier) = OK
  BY DEF Accepted
<1>2. ForEach(b.statuses, LAMBDA x : Status(b, verifier, x)) = OK
  BY <1>1, Then DEF Lifecycle
<1>3. PICK i \in DOMAIN b.statuses : s = b.statuses[i]
  BY DEF Elements
<1>4. Status(b, verifier, s) = OK
  <2> DEFINE codes == [j \in DOMAIN b.statuses |-> Status(b, verifier, b.statuses[j])]
  <2>1. FirstCode(codes) = OK
    BY <1>2 DEF ForEach
  <2>2. DOMAIN codes \subseteq Nat /\ i \in DOMAIN codes /\ codes[i] = Status(b, verifier, s)
    BY <1>3, Arrays DEF Accepted, IsArray, EntryFields
  <2> HIDE DEF codes
  <2> QED BY <2>1, <2>2, AllOK
<1>5. ~ InstantPassed(b, verifier, s)
  <2> DEFINE code == IF s.status = "revoked" THEN "credential/revoked" ELSE "credential/compromised"
             low == s.profile \in {"AAR-1", "AAR-2"}
             u == Require(s.leaseUntil - s.leaseFrom <= IF low THEN Day ELSE Hour, "credential/lease-too-long")
             v == Require(/\ b.eval - s.at <= IF low THEN Day ELSE Minutes
                          /\ b.eval < s.next,
                          "credential/status-stale")
             passed == Require(~ InstantPassed(b, verifier, s), code)
             w == Require(s.status # "unknown", "credential/status-unknown")
             x == Require(b.eval >= s.leaseFrom, "credential/not-yet-valid")
             y == Require(b.eval < s.leaseUntil, "credential/lease-expired")
  <2>1. (u ?? v ?? passed ?? w ?? x ?? y) = OK
    BY <1>4, Zenon DEF Status
  <2>2. passed = OK
    <3> HIDE DEF u, v, passed, w, x, y
    <3> QED BY <2>1, Then
  <2> QED BY <2>2 DEF Require, OK
<1>6. Carries(b.credentials, s.credential) /\ Find(b.credentials, s.credential) = c
  BY FoundThere
<1>7. SigningTime(b, e) \in Uses(b, verifier, KidOf(b, s.credential))
  BY <1>6 DEF KidOf, Uses
<1>8. ~ (SigningTime(b, e) >= s.instant)
  BY <1>5, <1>6, <1>7 DEF InstantPassed
<1>9. SigningTime(b, e) \in Int /\ s.instant \in Int
  BY StatusInstant DEF Accepted, HasIntegers
<1> QED BY <1>8, <1>9

\* No signature that a conformant verdict rests on is from outside the life of its key:
\* steps 6 and 8 together, with step 3 for the identity of the credentials.
THEOREM VerifierKeysUsedInLife == Spec => []KeysUsedInLife
<1>1. ASSUME Progress PROVE KeysUsedInLife
  <2> SUFFICES ASSUME IsConformant, NEW s \in Signatures
               PROVE  /\ \E c \in Elements(Bundle.credentials) : c.subject = s.by /\ c.from <= s.at /\ s.at < c.until
                      /\ \A status \in Elements(Bundle.statuses) : \A c \in Elements(Bundle.credentials) :
                            c.id = status.credential /\ c.subject = s.by /\ status.status \in {"revoked", "compromised"}
                            => s.at < status.instant
    BY DEF KeysUsedInLife
  <2>1. Accepted(Bundle)
    BY <1>1, ConformantIsAccepted
  <2>2. PICK e \in Entries(Bundle) : s.by = e.a.by /\ s.at = SigningTime(Bundle, e)
    BY DEF Signatures
  <2> QED BY <2>1, <2>2, SignedInLife, SignedBeforeInstant DEF Instants
<1> QED BY <1>1, ProgressInvariant, PTL

-----------------------------------------------------------------------------
(* Epochs and their indexes. *)

LEMMA EpochsHold ==
  ASSUME NEW b, Accepted(b)
  PROVE  /\ IdsIncrease(b) /\ PredecessorsMatch(b) /\ ~ Forked(b)
         /\ \A i \in DOMAIN b.manifests : Key(b.manifests[i]) \in EventKeys(b)
         /\ \A key \in EventKeys(b) : SpanCounted(b, key)
         /\ \A r \in Elements(b.receipts) : InTime(b, r)
<1> DEFINE keys == EventKeys(b)
           chain == Require(\A key \in keys : EventChain(b, key), "epoch/event-chain")
           increase == Require(IdsIncrease(b), "epoch/id-nonmonotonic")
           match == Require(PredecessorsMatch(b), "epoch/predecessor-mismatch")
           closed == Require(/\ \A key \in keys : OpenedAndClosed(b, key)
                             /\ \A i \in DOMAIN b.manifests : Key(b.manifests[i]) \in keys,
                             "epoch/open-close")
           duration == Require(\A key \in keys : WithinDuration(b, key), "epoch/duration-exceeded")
           counted == Require(\A key \in keys : SpanCounted(b, key), "epoch/span-count-mismatch")
           inTime == ForEach(b.receipts, LAMBDA r : Require(InTime(b, r), "epoch/late-insertion"))
           anchored == Require(\A key \in keys : AnchoredByDeadline(b, key), "epoch/anchor-deadline")
           whole == Require(~ Forked(b), "epoch/fork")
<1>1. (chain ?? increase ?? match ?? closed ?? duration ?? counted ?? inTime ?? anchored ?? whole) = OK
  BY Zenon DEF Accepted, Epochs
<1>2. increase = OK /\ match = OK /\ closed = OK /\ counted = OK /\ inTime = OK /\ whole = OK
  <2> HIDE DEF chain, increase, match, closed, duration, counted, inTime, anchored, whole
  <2> QED BY <1>1, Then
<1>3. ASSUME NEW r \in Elements(b.receipts) PROVE InTime(b, r)
  <2>1. PICK i \in DOMAIN b.receipts : r = b.receipts[i]
    BY DEF Elements
  <2> DEFINE codes == [j \in DOMAIN b.receipts |-> Require(InTime(b, b.receipts[j]), "epoch/late-insertion")]
  <2>2. FirstCode(codes) = OK
    BY <1>2 DEF ForEach
  <2>3. DOMAIN codes \subseteq Nat /\ i \in DOMAIN codes
        /\ codes[i] = Require(InTime(b, r), "epoch/late-insertion")
    BY <2>1, Arrays DEF Accepted, IsArray
  <2> HIDE DEF codes
  <2>4. codes[i] = OK
    BY <2>2, <2>3, AllOK
  <2> QED BY <2>3, <2>4 DEF Require, OK
<1>4. IdsIncrease(b) /\ PredecessorsMatch(b) /\ ~ Forked(b) /\ \A key \in keys : SpanCounted(b, key)
  BY <1>2 DEF Require, OK
<1>5. \A i \in DOMAIN b.manifests : Key(b.manifests[i]) \in keys
  <2> DEFINE all == /\ \A key \in keys : OpenedAndClosed(b, key)
                    /\ \A i \in DOMAIN b.manifests : Key(b.manifests[i]) \in keys
  <2>1. Require(all, "epoch/open-close") = OK
    BY <1>2
  <2>2. all
    <3> HIDE DEF all
    <3> QED BY <2>1 DEF Require, OK
  <2> QED BY <2>2
<1> QED BY <1>3, <1>4, <1>5

\* The manifests of an epoch are one, so it is the primary.
LEMMA OneManifest ==
  ASSUME NEW b, Accepted(b), NEW i \in DOMAIN b.manifests
  PROVE  /\ \A j \in DOMAIN b.manifests : Key(b.manifests[j]) = Key(b.manifests[i]) => j = i
         /\ Primary(b, Key(b.manifests[i])) = i
<1> DEFINE key == Key(b.manifests[i])
<1>1. \A j \in DOMAIN b.manifests : Key(b.manifests[j]) = key => j = i
  BY EpochsHold DEF Forked
<1>2. ManifestsAt(b, key) = {i}
  BY <1>1 DEF ManifestsAt
<1>3. i \in Nat
  BY Arrays DEF Accepted, IsArray, EntryFields
<1>4. \A T : T \subseteq {i} /\ T # {} => Min(T) = i
  BY <1>3, MinIsLeast
<1> DEFINE named == {m \in ManifestsAt(b, key) :
                        \E j \in {j \in EventsOf(b, key, "close") :
                                    \A k \in EventsOf(b, key, "close") : b.events[j].seq <= b.events[k].seq} :
                           b.events[j].body.manifest = b.manifests[m].id}
<1>5. Primary(b, key) = IF named # {} THEN Min(named) ELSE Min(ManifestsAt(b, key))
  BY DEF Primary
<1>6. named \subseteq {i}
  BY <1>2
<1> HIDE DEF named, key
<1>7. Primary(b, key) = i
  BY <1>2, <1>4, <1>5, <1>6
<1> QED BY <1>1, <1>7 DEF key

LEMMA ReceiptIndexed ==
  ASSUME NEW b, Accepted(b), NEW r \in Elements(b.receipts), NEW m \in Elements(b.manifests), Key(m) = Key(r)
  PROVE  \E i \in DOMAIN m.index.entries : m.index.entries[i].id = r.id
<1>1. PICK i \in DOMAIN b.receipts : r = b.receipts[i]
  BY DEF Elements
<1>2. ForEach(b.receipts, LAMBDA x : Require(Listed(b, x), "manifest/receipt-unindexed")) = OK
  BY Then DEF Accepted, ManifestIndexes
<1> DEFINE codes == [j \in DOMAIN b.receipts |-> Require(Listed(b, b.receipts[j]), "manifest/receipt-unindexed")]
<1>3. FirstCode(codes) = OK
  BY <1>2 DEF ForEach
<1>4. DOMAIN codes \subseteq Nat /\ i \in DOMAIN codes
      /\ codes[i] = Require(Listed(b, r), "manifest/receipt-unindexed")
  BY <1>1, Arrays DEF Accepted, IsArray
<1> HIDE DEF codes
<1>5. codes[i] = OK
  BY <1>3, <1>4, AllOK
<1>6. Listed(b, r)
  BY <1>4, <1>5 DEF Require, OK
<1> QED BY <1>6 DEF Listed, Carries, Elements

LEMMA IndexHolds ==
  ASSUME NEW b, Accepted(b), NEW m \in Elements(b.manifests)
  PROVE  /\ \A i, j \in DOMAIN m.index.entries :
               i # j => /\ m.index.entries[i].id # m.index.entries[j].id
                        /\ m.index.entries[i].eseq # m.index.entries[j].eseq
         /\ \A i \in DOMAIN m.index.entries : \A r \in Elements(b.receipts) :
               r.id = m.index.entries[i].id => EntryMatches(m.index.entries[i], r)
         /\ \A i \in DOMAIN m.index.entries : m.index.entries[i].leaf = i - 1
         /\ m.index.entries # <<>> => m.index.root = IndexRoot(m.index.entries)
<1>1. PICK n \in DOMAIN b.manifests : m = b.manifests[n]
  BY DEF Elements
<1>2. Indexed(b, m) = OK
  <2> DEFINE codes == [j \in DOMAIN b.manifests |-> Indexed(b, b.manifests[j])]
  <2>1. FirstCode(codes) = OK
    BY Then DEF Accepted, ManifestIndexes, ForEach
  <2>2. DOMAIN codes \subseteq Nat /\ n \in DOMAIN codes /\ codes[n] = Indexed(b, m)
    BY <1>1, Arrays DEF Accepted, IsArray, EntryFields
  <2> HIDE DEF codes
  <2> QED BY <2>1, <2>2, AllOK
<1> DEFINE entries == m.index.entries
           distinct == \A i, j \in DOMAIN entries :
                          i # j => entries[i].id # entries[j].id /\ entries[i].eseq # entries[j].eseq
           agree == \A i \in DOMAIN entries : Carries(b.receipts, entries[i].id) =>
                       EntryMatches(entries[i], Find(b.receipts, entries[i].id))
           u == Require(\A i \in 2 .. Len(entries) : EntryBefore(entries[i - 1], entries[i]), "manifest/index-order")
           numbered == \A i \in DOMAIN entries : entries[i].leaf = i - 1
           rooted == entries # <<>> => m.index.root = IndexRoot(entries)
           v == Require(numbered, "manifest/index-gap")
           w == Require(distinct, "manifest/index-duplicate")
           x == Require(agree, "manifest/index-receipt-mismatch")
           y == Require(IF entries = <<>>
                        THEN m.span = [first |-> None, last |-> None] /\ m.reason = "padding"
                        ELSE m.span = SpanOf(entries),
                        "epoch/span-count-mismatch")
           z == Require(rooted, "manifest/index-root-mismatch")
<1>3. (u ?? v ?? w ?? x ?? y ?? z) = OK
  BY <1>2, Zenon DEF Indexed
<1>4. v = OK /\ w = OK /\ x = OK /\ z = OK
  <2> HIDE DEF u, v, w, x, y, z
  <2> QED BY <1>3, Then
<1>5. distinct /\ agree /\ numbered /\ rooted
  <2> HIDE DEF distinct, agree, numbered, rooted
  <2> QED BY <1>4 DEF Require, OK
<1>6. \A r \in Elements(b.receipts) : Carries(b.receipts, r.id) /\ Find(b.receipts, r.id) = r
  BY FoundThere
<1> QED BY <1>5, <1>6

\* A closed epoch is whole: step 14 for the time, step 15 for the index.
THEOREM VerifierClosedEpochIsWhole == Spec => []ClosedEpochIsWhole
<1>1. ASSUME Progress PROVE ClosedEpochIsWhole
  <2> SUFFICES ASSUME IsConformant, NEW m \in Elements(Bundle.manifests), NEW r \in AllReceipts,
                      <<r.owner, r.epoch>> = <<m.owner, m.epoch>>
               PROVE  /\ r.at <= m.closed
                      /\ \E e \in Elements(m.index.entries) :
                            <<e.id, e.issuer, e.iseq, e.eseq, e.at>> = <<r.id, r.by, r.iseq, r.eseq, r.at>>
    BY DEF ClosedEpochIsWhole
  <2>1. Accepted(Bundle) /\ r \in Elements(Bundle.receipts) /\ Key(m) = Key(r)
    BY <1>1, ConformantIsAccepted DEF AllReceipts, Key
  <2>2. PICK i \in DOMAIN Bundle.manifests : m = Bundle.manifests[i]
    BY DEF Elements
  <2>3. r.at <= m.closed
    <3>1. InTime(Bundle, r) /\ Key(r) \in EventKeys(Bundle)
      BY <2>1, <2>2, EpochsHold
    <3>2. PrimaryOf(Bundle, Key(r)) = m
      BY <2>1, <2>2, OneManifest DEF PrimaryOf
    <3> QED BY <3>1, <3>2 DEF InTime
  <2>4. PICK j \in DOMAIN m.index.entries : m.index.entries[j].id = r.id
    BY <2>1, ReceiptIndexed
  <2>5. EntryMatches(m.index.entries[j], r)
    BY <2>1, <2>4, IndexHolds
  <2> QED BY <2>3, <2>4, <2>5 DEF EntryMatches, Elements
<1> QED BY <1>1, ProgressInvariant, PTL

\* Two claims for one place are about one receipt: step 9 between receipts, step 15
\* between a receipt and an index, steps 14 and 15 between indexes.
LEMMA ReceiptPlace ==
  ASSUME NEW b, Accepted(b), NEW r \in Elements(b.receipts), NEW s \in Elements(b.receipts),
         <<r.owner, r.epoch, r.eseq>> = <<s.owner, s.epoch, s.eseq>> \/ <<r.by, r.iseq>> = <<s.by, s.iseq>>
  PROVE  r.id = s.id
<1>1. \A x, y \in Elements(b.receipts) : ~ Equivocates(x, y)
  BY DEF Accepted, Emission, Require, OK
<1> QED BY <1>1 DEF Equivocates

LEMMA IndexPlace ==
  ASSUME NEW b, Accepted(b), NEW r \in Elements(b.receipts), NEW m \in Elements(b.manifests),
         NEW e \in Elements(m.index.entries), <<r.owner, r.epoch, r.eseq>> = <<m.owner, m.epoch, e.eseq>>
  PROVE  r.id = e.id
<1>1. PICK i \in DOMAIN m.index.entries : e = m.index.entries[i]
  BY DEF Elements
<1>2. PICK j \in DOMAIN m.index.entries : m.index.entries[j].id = r.id
  BY ReceiptIndexed DEF Key
<1>3. m.index.entries[j].eseq = r.eseq
  BY <1>2, IndexHolds DEF EntryMatches
<1>4. i = j
  BY <1>1, <1>3, IndexHolds
<1> QED BY <1>1, <1>2, <1>4

LEMMA IndexesPlace ==
  ASSUME NEW b, Accepted(b), NEW m \in Elements(b.manifests), NEW n \in Elements(b.manifests),
         NEW e \in Elements(m.index.entries), NEW f \in Elements(n.index.entries),
         <<m.owner, m.epoch, e.eseq>> = <<n.owner, n.epoch, f.eseq>>
  PROVE  e.id = f.id
<1>1. m = n
  <2>1. PICK i \in DOMAIN b.manifests, j \in DOMAIN b.manifests : m = b.manifests[i] /\ n = b.manifests[j]
    BY DEF Elements
  <2>2. Key(m) = Key(n)
    BY DEF Key
  <2> QED BY <2>1, <2>2, OneManifest
<1>2. PICK i \in DOMAIN m.index.entries, j \in DOMAIN m.index.entries :
         e = m.index.entries[i] /\ f = m.index.entries[j]
  BY <1>1 DEF Elements
<1>3. i = j
  BY <1>2, IndexHolds
<1> QED BY <1>2, <1>3

\* Equivocation of carried receipts and of listed ones is ruled out together.
THEOREM VerifierPlaceHasOneReceipt == Spec => []PlaceHasOneReceipt
<1>1. ASSUME Progress PROVE PlaceHasOneReceipt
  <2> SUFFICES ASSUME IsConformant, NEW c \in Claims, NEW d \in Claims, c.place = d.place
               PROVE  c.id = d.id
    BY DEF PlaceHasOneReceipt
  <2>1. Accepted(Bundle)
    BY <1>1, ConformantIsAccepted
  <2> DEFINE InEpoch(x) == \E r \in Elements(Bundle.receipts) :
                              x = [place |-> <<r.owner, r.epoch, r.eseq>>, id |-> r.id]
             OfIssuer(x) == \E r \in Elements(Bundle.receipts) : x = [place |-> <<r.by, r.iseq>>, id |-> r.id]
             OfIndex(x) == \E m \in Elements(Bundle.manifests) : \E e \in Elements(m.index.entries) :
                              x = [place |-> <<m.owner, m.epoch, e.eseq>>, id |-> e.id]
  <2>2. ASSUME NEW x \in Claims PROVE InEpoch(x) \/ OfIssuer(x) \/ OfIndex(x)
    BY DEF Claims, AllReceipts
  <2>3. \A o, p, q, s, t : <<o, p, q>> # <<s, t>>
    OBVIOUS
  <2>4. CASE OfIssuer(c) \/ OfIssuer(d)
    <3>1. OfIssuer(c) /\ OfIssuer(d)
      BY <2>2, <2>3, <2>4
    <3> QED BY <2>1, <3>1, ReceiptPlace
  <2>5. CASE InEpoch(c) /\ InEpoch(d)
    BY <2>1, <2>5, ReceiptPlace
  <2>6. CASE InEpoch(c) /\ OfIndex(d)
    BY <2>1, <2>6, IndexPlace
  <2>7. CASE OfIndex(c) /\ InEpoch(d)
    BY <2>1, <2>7, IndexPlace
  <2>8. CASE OfIndex(c) /\ OfIndex(d)
    BY <2>1, <2>8, IndexesPlace
  <2> QED BY <2>2, <2>4, <2>5, <2>6, <2>7, <2>8
<1> QED BY <1>1, ProgressInvariant, PTL

-----------------------------------------------------------------------------
(* The graph of the receipts. *)

LEMMA EdgesHold ==
  ASSUME NEW b, Accepted(b), NEW r \in Elements(b.receipts), NEW e \in Elements(r.parents)
  PROVE  /\ Carries(b.receipts, e.parent)
         /\ Parent(b, e).epoch # r.epoch => CrossAnchored(b, r, e)
<1>1. Dangling(b) = OK /\ Spliced(b) = OK
  BY Then DEF Accepted, Graph
<1>2. PICK i \in DOMAIN b.receipts : r = b.receipts[i]
  BY DEF Elements
<1>3. PICK k \in DOMAIN r.parents : e = r.parents[k]
  BY DEF Elements
<1>4. DOMAIN b.receipts \subseteq Nat /\ DOMAIN r.parents \subseteq Nat
  BY ReceiptArrays DEF Accepted
<1> DEFINE Fault1(x, f) == Require(Carries(b.receipts, f.parent), "graph/dangling-parent")
           splice(x, f) == Require(x.tenant = Parent(b, f).tenant /\ x.site = Parent(b, f).site,
                                   "graph/tenant-site-splice")
           cross(x, f) == IF x.epoch = Parent(b, f).epoch
                          THEN Require(f.cross = None, "graph/cross-epoch-forbidden")
                          ELSE Require(CrossReason(f), "graph/cross-epoch-forbidden")
                               ?? Require(CrossAnchored(b, x, f), "graph/cross-epoch-unanchored")
           Fault2(x, f) == splice(x, f) ?? cross(x, f)
<1>5. Fault1(r, e) = OK
  <2> DEFINE G(x) == ForEach(x.parents, LAMBDA f : Fault1(x, f))
             codes == [j \in DOMAIN b.receipts |-> G(b.receipts[j])]
             inner == [j \in DOMAIN r.parents |-> Fault1(r, r.parents[j])]
  <2>1. FirstCode(codes) = OK
    BY <1>1 DEF Dangling, ForEachEdge, ForEach
  <2>2. DOMAIN codes \subseteq Nat /\ i \in DOMAIN codes /\ codes[i] = G(r)
    BY <1>2, <1>4
  <2>3. G(r) = FirstCode(inner)
    BY DEF ForEach
  <2>4. DOMAIN inner \subseteq Nat /\ k \in DOMAIN inner /\ inner[k] = Fault1(r, e)
    BY <1>3, <1>4
  <2> HIDE DEF codes, inner, G
  <2> QED BY <2>1, <2>2, <2>3, <2>4, AllOK
<1>6. Fault2(r, e) = OK
  <2> DEFINE G(x) == ForEach(x.parents, LAMBDA f : Fault2(x, f))
             codes == [j \in DOMAIN b.receipts |-> G(b.receipts[j])]
             inner == [j \in DOMAIN r.parents |-> Fault2(r, r.parents[j])]
  <2>1. FirstCode(codes) = OK
    BY <1>1 DEF Spliced, ForEachEdge, ForEach
  <2> HIDE DEF splice, cross
  <2>2. DOMAIN codes \subseteq Nat /\ i \in DOMAIN codes /\ codes[i] = G(r)
    BY <1>2, <1>4
  <2>3. G(r) = FirstCode(inner)
    BY DEF ForEach
  <2>4. DOMAIN inner \subseteq Nat /\ k \in DOMAIN inner /\ inner[k] = Fault2(r, e)
    BY <1>3, <1>4
  <2> HIDE DEF codes, inner, G, Fault2
  <2> QED BY <2>1, <2>2, <2>3, <2>4, AllOK
<1>7. cross(r, e) = OK
  <2> HIDE DEF splice, cross
  <2> QED BY <1>6, Then
<1>8. Parent(b, e).epoch # r.epoch => CrossAnchored(b, r, e)
  BY <1>7, Then DEF Require, OK
<1> QED BY <1>5, <1>8 DEF Require, OK

\* A parent of another epoch is in an anchored manifest of that epoch: step 12 for the
\* manifest that the edge names, steps 3 and 15 for what is in it.
THEOREM VerifierCrossEpochParentIsAnchored == Spec => []CrossEpochParentIsAnchored
<1>1. ASSUME Progress PROVE CrossEpochParentIsAnchored
  <2> SUFFICES ASSUME IsConformant, NEW r \in AllReceipts, NEW p \in AllReceipts,
                      p.id \in {e.parent : e \in Elements(r.parents)}, p.epoch # r.epoch
               PROVE  /\ p.epoch < r.epoch
                      /\ \E m \in Elements(Bundle.manifests), a \in Elements(Bundle.anchors) :
                            /\ <<m.owner, m.epoch>> = <<p.owner, p.epoch>> /\ Carries(m.index.entries, p.id)
                            /\ a.manifest = m.id
    BY DEF CrossEpochParentIsAnchored
  <2>1. Accepted(Bundle) /\ r \in Elements(Bundle.receipts) /\ p \in Elements(Bundle.receipts)
    BY <1>1, ConformantIsAccepted DEF AllReceipts
  <2>2. PICK e \in Elements(r.parents) : e.parent = p.id
    OBVIOUS
  <2>3. Parent(Bundle, e) = p
    BY <2>1, <2>2, FoundThere DEF Parent
  <2>4. CrossAnchored(Bundle, r, e)
    BY <2>1, <2>3, EdgesHold
  <2> DEFINE m == Find(Bundle.manifests, e.cross.manifest)
             a == Find(Bundle.anchors, e.cross.anchor)
  <2>5. /\ p.epoch < r.epoch
        /\ Carries(Bundle.manifests, e.cross.manifest) /\ Carries(Bundle.anchors, e.cross.anchor)
        /\ m.epoch = p.epoch /\ m.owner = p.owner /\ a.manifest = e.cross.manifest
    BY <2>3, <2>4 DEF CrossAnchored
  <2>6. /\ m \in Elements(Bundle.manifests) /\ m.id = e.cross.manifest
        /\ a \in Elements(Bundle.anchors)
    BY <2>5, Found DEF Elements
  <2> HIDE DEF m, a
  <2>7. Carries(m.index.entries, p.id)
    BY <2>1, <2>5, <2>6, ReceiptIndexed DEF Carries, Key
  <2> QED BY <2>5, <2>6, <2>7
<1> QED BY <1>1, ProgressInvariant, PTL

-----------------------------------------------------------------------------
(* What the receipts say. *)

LEMMA SemanticsHold ==
  ASSUME NEW b, Accepted(b), NEW r \in Elements(b.receipts)
  PROVE  /\ Labels(r) = OK
         /\ r.kind = "dispatch" => DispatchOfAttempt(b, r)
         /\ r.kind = "action_attempt" => Attempted(b, r) = OK
<1> DEFINE shape(x) == Require(x.body.shape = x.kind, "receipt/kind-body-mismatch")
           role(x) == Require(x.role \in KindRoles[x.kind], "receipt/signer-role-mismatch")
           meaning(x) ==
              CASE x.kind = "inference" ->
                     Require(ConsumptionResolved(b, x), "receipt/consumption-ref-unresolved")
                [] x.kind = "observation" -> Observed(x)
                [] x.kind = "authorization" -> Decided(x)
                [] x.kind = "action_attempt" -> Attempted(b, x)
                [] x.kind = "dispatch" ->
                     Require(DispatchOfAttempt(b, x), "receipt/dispatch-attempt-mismatch")
                [] x.kind = "outcome_observation" ->
                     Require(OutcomeOfSubject(x), "receipt/outcome-subject-mismatch")
           Fault(x) == shape(x) ?? role(x) ?? Labels(x) ?? meaning(x)
<1>1. PICK i \in DOMAIN b.receipts : r = b.receipts[i]
  BY DEF Elements
<1>2. Fault(r) = OK
  <2> DEFINE codes == [j \in DOMAIN b.receipts |-> Fault(b.receipts[j])]
  <2>1. FirstCode(codes) = OK
    BY Zenon DEF Accepted, Semantics, ForEach
  <2> HIDE DEF Fault
  <2>2. DOMAIN codes \subseteq Nat /\ i \in DOMAIN codes /\ codes[i] = Fault(r)
    BY <1>1, Arrays DEF Accepted, IsArray
  <2> HIDE DEF codes
  <2> QED BY <2>1, <2>2, AllOK
<1>3. Labels(r) = OK /\ meaning(r) = OK
  <2> HIDE DEF shape, role, meaning
  <2> QED BY <1>2, Then
<1>4. CASE r.kind = "dispatch"
  BY <1>3, <1>4 DEF Require, OK
<1>5. CASE r.kind = "action_attempt"
  BY <1>3, <1>5
<1>6. CASE r.kind \notin {"dispatch", "action_attempt"}
  <2> HIDE DEF meaning
  <2> QED BY <1>3, <1>6
<1> QED BY <1>4, <1>5, <1>6

LEMMA AttemptHolds ==
  ASSUME NEW b, Accepted(b), NEW r \in Elements(b.receipts), r.kind = "action_attempt"
  PROVE  /\ CommandIsAction(r)
         /\ r.body.action.hazard = "life_safety" => r.body.action.name \in b.lifeSafety
<1> DEFINE disposed == Require((r.body.disposition = "not_dispatched") <=> (r.body.refusal # None),
                               "receipt/attempt-disposition")
           degraded == Require(r.body.degraded # None =>
                                  /\ r.body.degraded = "journal/unavailable"
                                  /\ r.body.action.hazard = "life_safety"
                                  /\ r.body.disposition = "eligible_for_dispatch",
                               "receipt/attempt-disposition")
           command == Require(CommandIsAction(r), "receipt/action-command-mismatch")
<1>1. (disposed ?? Hazard(b, r) ?? degraded ?? command) = OK
  BY SemanticsHold, Zenon DEF Attempted
<1>2. Hazard(b, r) = OK /\ command = OK
  <2> HIDE DEF disposed, degraded, command
  <2> QED BY <1>1, Then
<1>3. CommandIsAction(r)
  BY <1>2 DEF Require, OK
<1>4. Require(r.body.action.hazard = "life_safety" => r.body.action.name \in b.lifeSafety,
              "receipt/hazard-class-unbound") = OK
  BY <1>2, Then DEF Hazard
<1>5. r.body.action.hazard = "life_safety" => r.body.action.name \in b.lifeSafety
  BY <1>4 DEF Require, OK
<1> QED BY <1>3, <1>5

-----------------------------------------------------------------------------
(* Domination. *)

DominanceStart == [issue |-> OK, memo |-> [open |-> {}, done |-> {}]]

DominanceRound(b, before, i) ==
    IF before.issue # OK \/ b.receipts[i].kind # "dispatch" THEN before
    ELSE Dominate(b, b.receipts[i], before.memo)

DominanceRun(b, w, n) == w = [i \in 0 .. n |-> IF i = 0 THEN DominanceStart ELSE DominanceRound(b, w[i - 1], i)]

LEMMA DominanceRunRounds ==
  ASSUME NEW b, NEW w, NEW n \in Nat, DominanceRun(b, w, n)
  PROVE  w[0] = DominanceStart /\ \A i \in 1 .. n : w[i] = DominanceRound(b, w[i - 1], i)
<1>1. \A i \in 0 .. n : w[i] = IF i = 0 THEN DominanceStart ELSE DominanceRound(b, w[i - 1], i)
  BY DEF DominanceRun
<1> QED BY <1>1

LEMMA DominanceRuns ==
  ASSUME NEW b, HasArrays(b)
  PROVE  \E w : DominanceRun(b, w, Len(b.receipts)) /\ Dominance(b) = w[Len(b.receipts)].issue
<1> DEFINE n == Len(b.receipts)
           T == {m \in Nat : \E w : DominanceRun(b, w, m)}
<1>1. n \in Nat
  BY Arrays DEF IsArray
<1>2. 0 \in T
  <2>1. DominanceRun(b, [i \in 0 .. 0 |-> DominanceStart], 0)
    BY DEF DominanceRun
  <2> QED BY <2>1
<1>3. ASSUME NEW m \in T PROVE m + 1 \in T
  <2>1. PICK w : DominanceRun(b, w, m)
    OBVIOUS
  <2> DEFINE v == [i \in 0 .. m + 1 |-> IF i \in 0 .. m THEN w[i] ELSE DominanceRound(b, w[m], m + 1)]
  <2>2. \A i \in 0 .. m : w[i] = IF i = 0 THEN DominanceStart ELSE DominanceRound(b, w[i - 1], i)
    BY <2>1 DEF DominanceRun
  <2>3. \A i \in 0 .. m + 1 : v[i] = IF i = 0 THEN DominanceStart ELSE DominanceRound(b, v[i - 1], i)
    BY <2>2
  <2>4. DominanceRun(b, v, m + 1)
    BY <2>3 DEF DominanceRun
  <2> QED BY <2>4
<1>4. n \in T
  <2> HIDE DEF T
  <2>1. T \subseteq Nat
    BY DEF T
  <2> QED BY <1>1, <1>2, <1>3, <2>1, Induction
<1> DEFINE after == CHOOSE w : DominanceRun(b, w, n)
<1>5. DominanceRun(b, after, n)
  BY <1>4
<1>6. Dominance(b) = after[n].issue
  BY DEF Dominance, DominanceRun, DominanceStart, DominanceRound
<1> QED BY <1>5, <1>6

\* Every dispatch was dominated, over the memo that the earlier ones left.
LEMMA Dominations ==
  ASSUME NEW b, HasArrays(b), Dominance(b) = OK, NEW w, DominanceRun(b, w, Len(b.receipts)),
         Dominance(b) = w[Len(b.receipts)].issue
  PROVE  \A i \in 1 .. Len(b.receipts) :
            /\ w[i - 1].issue = OK /\ w[i].issue = OK
            /\ b.receipts[i].kind # "dispatch" => w[i] = w[i - 1]
            /\ b.receipts[i].kind = "dispatch" => w[i] = Dominate(b, b.receipts[i], w[i - 1].memo)
<1> DEFINE n == Len(b.receipts)
           T == {k \in Nat : k <= n => w[n - k].issue = OK}
<1>1. n \in Nat
  BY Arrays DEF IsArray
<1>2. 0 \in T
  BY <1>1
<1>3. ASSUME NEW k \in T PROVE k + 1 \in T
  <2> SUFFICES ASSUME k + 1 <= n PROVE w[n - (k + 1)].issue = OK
    OBVIOUS
  <2>1. n - k \in 1 .. n /\ w[n - k].issue = OK /\ (n - k) - 1 = n - (k + 1)
    BY <1>1
  <2>2. w[n - k] = DominanceRound(b, w[n - (k + 1)], n - k)
    BY <1>1, <2>1, DominanceRunRounds
  <2>3. CASE w[n - (k + 1)].issue # OK
    BY <2>1, <2>2, <2>3 DEF DominanceRound
  <2> QED BY <2>3
<1>4. T = Nat
  <2> HIDE DEF T
  <2>1. T \subseteq Nat
    BY DEF T
  <2> QED BY <1>2, <1>3, <2>1, Induction
<1>5. ASSUME NEW i \in 0 .. n PROVE w[i].issue = OK
  <2> HIDE DEF n, T
  <2>1. n - i \in T /\ n - i <= n /\ n - (n - i) = i
    BY <1>1, <1>4
  <2> QED BY <2>1 DEF T
<1> HIDE DEF T, n
<1>6. ASSUME NEW i \in 1 .. n
      PROVE  /\ w[i - 1].issue = OK /\ w[i].issue = OK
             /\ b.receipts[i].kind # "dispatch" => w[i] = w[i - 1]
             /\ b.receipts[i].kind = "dispatch" => w[i] = Dominate(b, b.receipts[i], w[i - 1].memo)
  <2>1. w[i - 1].issue = OK /\ w[i].issue = OK
    BY <1>1, <1>5
  <2>2. w[i] = DominanceRound(b, w[i - 1], i)
    BY <1>1, DominanceRunRounds DEF n
  <2> QED BY <2>1, <2>2 DEF DominanceRound
<1> QED BY <1>6 DEF n

LEMMA DispatchJudged ==
  ASSUME NEW b, Accepted(b), NEW d \in Dispatches(b)
  PROVE  Dominated(b, d) = OK /\ Journaled(b, d) = OK
<1>1. PICK w : DominanceRun(b, w, Len(b.receipts)) /\ Dominance(b) = w[Len(b.receipts)].issue
  BY DominanceRuns DEF Accepted
<1>2. PICK i \in 1 .. Len(b.receipts) : d = b.receipts[i] /\ d.kind = "dispatch"
  BY Arrays DEF Accepted, Dispatches, Elements, IsArray
<1>3. w[i] = Dominate(b, d, w[i - 1].memo) /\ w[i].issue = OK
  BY <1>1, <1>2, Dominations DEF Accepted
<1>4. Dominated(b, d) = OK
  BY <1>3 DEF Dominate
<1> DEFINE chain == DelegationChain(b.delegations, Authorization(b, Attempt(b, d)).body.delegation, w[i - 1].memo)
           valid == Require(ChainValid(chain), "delegation/chain-invalid")
<1>5. Dominate(b, d, w[i - 1].memo) = [issue |-> valid ?? Journaled(b, d), memo |-> [open |-> chain.open, done |-> chain.done]]
  BY <1>4, Zenon DEF Dominate
<1> HIDE DEF valid, chain
<1>6. (valid ?? Journaled(b, d)) = OK
  BY <1>3, <1>5
<1> QED BY <1>4, <1>6, Then

\* The attempt of a dispatch and its authorization.
LEMMA AttemptOf ==
  ASSUME NEW b, Accepted(b), NEW d \in Dispatches(b)
  PROVE  LET a == Attempt(b, d)
             z == Authorization(b, a)
         IN /\ \E k \in DOMAIN d.parents : EdgesOfType(d, "attempted_as") = {k} /\ d.parents[k].parent = a.id
            /\ a \in Elements(b.receipts) /\ a.kind = "action_attempt"
            /\ d.body.attempt = a.id /\ d.body.command = a.body.command.id
            /\ \E k \in DOMAIN a.parents : a.parents[k].parent = z.id
            /\ z \in Elements(b.receipts) /\ z.kind = "authorization" /\ a.body.authorization = z.id
<1> DEFINE a == Attempt(b, d)
           z == Authorization(b, a)
<1>1. Dominator(b, d) = OK
  BY DispatchJudged, Then DEF Dominated
<1>2. d \in Elements(b.receipts) /\ d.kind = "dispatch"
  BY DEF Dispatches
<1> DEFINE missing == Require(/\ Sole(EdgesOfType(d, "attempted_as"))
                              /\ Carries(b.receipts, EdgeOfType(d, "attempted_as").parent)
                              /\ a.kind = "action_attempt",
                              "graph/dominator-missing")
           edges == EdgesOfType(a, "authorized_by")
           without == Require(edges # {}, "graph/dominator-missing")
           ambiguous == Require(Sole(edges), "graph/dominator-ambiguous")
           named == Require(/\ z.kind = "authorization" /\ a.body.authorization = z.id,
                            "graph/dominator-missing")
<1>3. /\ Sole(EdgesOfType(d, "attempted_as"))
      /\ Carries(b.receipts, EdgeOfType(d, "attempted_as").parent)
      /\ a.kind = "action_attempt" /\ Sole(edges)
      /\ z.kind = "authorization" /\ a.body.authorization = z.id
  <2>1. (missing ?? (without ?? ambiguous ?? named)) = OK
    BY <1>1, Zenon DEF Dominator
  <2>2. missing = OK /\ ambiguous = OK /\ named = OK
    <3> HIDE DEF missing, without, ambiguous, named
    <3> QED BY <2>1, Then
  <2> QED BY <2>2 DEF Require, OK
<1>4. PICK k \in DOMAIN d.parents : EdgesOfType(d, "attempted_as") = {k}
  BY <1>3 DEF Sole, EdgesOfType
<1>5. EdgeOfType(d, "attempted_as") = d.parents[k]
  <2>1. k \in Nat
    BY <1>2, <1>4 DEF Accepted, HasArrays, IsArray
  <2>2. Min({k}) = k
    BY <2>1, MinIsLeast
  <2> QED BY <1>4, <2>2 DEF EdgeOfType
<1>6. a \in Elements(b.receipts) /\ a.id = d.parents[k].parent
  BY <1>3, <1>5, Found DEF Attempt, Elements
<1>7. d.body.attempt = a.id /\ d.body.command = a.body.command.id
  <2>1. DispatchOfAttempt(b, d)
    BY <1>2, SemanticsHold
  <2> QED BY <1>3, <1>4, <2>1 DEF DispatchOfAttempt, Attempt
<1>8. PICK m \in DOMAIN a.parents : edges = {m}
  BY <1>3 DEF Sole, EdgesOfType
<1>9. EdgeOfType(a, "authorized_by") = a.parents[m]
  <2>1. m \in Nat
    BY <1>6, <1>8 DEF Accepted, HasArrays, IsArray
  <2>2. Min({m}) = m
    BY <2>1, MinIsLeast
  <2> QED BY <1>8, <2>2 DEF EdgeOfType
<1>10. z \in Elements(b.receipts) /\ z.id = a.parents[m].parent
  <2>1. Carries(b.receipts, a.parents[m].parent)
    BY <1>6, EdgesHold DEF Elements
  <2> QED BY <1>9, <2>1, Found DEF Authorization, Elements
<1> QED BY <1>3, <1>4, <1>6, <1>7, <1>10

\* The attempt of a dispatch is in the journal before it: step 13, with step 10 for what
\* the dispatch says of its attempt and for who binds the hazard class.
THEOREM VerifierJournaledBeforeDispatch == Spec => []JournaledBeforeDispatch
<1>1. ASSUME Progress PROVE JournaledBeforeDispatch
  <2> SUFFICES ASSUME IsConformant, verdict.profile = "AAR-3", NEW d \in OfKind("dispatch")
               PROVE  \E a \in OfKind("action_attempt") :
                  /\ a.id = d.body.attempt
                  /\ \/ <<a.owner, a.epoch>> = <<d.owner, d.epoch>> /\ a.eseq < d.eseq /\ a.at <= d.body.at
                     \/ "degraded_dispatch" \in verdict.observations /\ a.body.action.name \in Bundle.lifeSafety
    BY DEF JournaledBeforeDispatch
  <2>1. Accepted(Bundle) /\ d \in Dispatches(Bundle)
    BY <1>1, ConformantIsAccepted DEF OfKind, AllReceipts, Dispatches
  <2> DEFINE a == Attempt(Bundle, d)
  <2>2. a \in Elements(Bundle.receipts) /\ a.kind = "action_attempt" /\ d.body.attempt = a.id
    BY <2>1, AttemptOf
  <2>3. Bundle.profile = "AAR-3"
    BY <1>1 DEF Progress, Answered
  <2>4. CommittedBefore(a, d) \/ Excused(a)
    BY <2>1, <2>3, DispatchJudged DEF Journaled, Require, OK
  <2>5. CASE CommittedBefore(a, d)
    BY <2>2, <2>5 DEF CommittedBefore, OfKind, AllReceipts
  <2>6. CASE ~ CommittedBefore(a, d)
    <3>1. a.body.action.name \in Bundle.lifeSafety
      BY <2>1, <2>2, <2>4, <2>6, AttemptHolds DEF Excused
    <3>2. Degraded(Bundle)
      BY <2>1, <2>3, <2>6 DEF Degraded
    <3>3. "degraded_dispatch" \in verdict.observations
      BY <1>1, <3>2 DEF Progress, Answered
    <3> QED BY <2>2, <3>1, <3>3 DEF OfKind, AllReceipts
  <2> QED BY <2>5, <2>6
<1> QED BY <1>1, ProgressInvariant, PTL

-----------------------------------------------------------------------------
(* What Reach computes: the least set with the start that the links do not leave. *)

ReachRound(next, before) == before \cup UNION {next[x] : x \in before \cap DOMAIN next}

ReachRun(next, start, w, n) == w = [k \in 0 .. n |-> IF k = 0 THEN start ELSE ReachRound(next, w[k - 1])]

Closed(next, S) == \A x \in S \cap DOMAIN next : next[x] \subseteq S

LEMMA ReachRunRounds ==
  ASSUME NEW next, NEW start, NEW w, NEW n \in Nat, ReachRun(next, start, w, n)
  PROVE  w[0] = start /\ \A k \in 1 .. n : w[k] = ReachRound(next, w[k - 1])
<1>1. \A k \in 0 .. n : w[k] = IF k = 0 THEN start ELSE ReachRound(next, w[k - 1])
  BY DEF ReachRun
<1> QED BY <1>1

LEMMA ReachRuns ==
  ASSUME NEW next, NEW start, IsFiniteSet(DOMAIN next)
  PROVE  LET n == Cardinality(DOMAIN next)
         IN n \in Nat /\ \E w : ReachRun(next, start, w, n) /\ Reach(next, start) = w[n]
<1> DEFINE n == Cardinality(DOMAIN next)
           T == {m \in Nat : \E w : ReachRun(next, start, w, m)}
<1>1. n \in Nat
  BY FS_CardinalityType
<1>2. 0 \in T
  <2>1. ReachRun(next, start, [k \in 0 .. 0 |-> start], 0)
    BY DEF ReachRun
  <2> QED BY <2>1
<1>3. ASSUME NEW m \in T PROVE m + 1 \in T
  <2>1. PICK w : ReachRun(next, start, w, m)
    OBVIOUS
  <2> DEFINE v == [k \in 0 .. m + 1 |-> IF k \in 0 .. m THEN w[k] ELSE ReachRound(next, w[m])]
  <2>2. \A k \in 0 .. m : w[k] = IF k = 0 THEN start ELSE ReachRound(next, w[k - 1])
    BY <2>1 DEF ReachRun
  <2>3. \A k \in 0 .. m + 1 : v[k] = IF k = 0 THEN start ELSE ReachRound(next, v[k - 1])
    BY <2>2
  <2>4. ReachRun(next, start, v, m + 1)
    BY <2>3 DEF ReachRun
  <2> QED BY <2>4
<1>4. n \in T
  <2> HIDE DEF T
  <2>1. T \subseteq Nat
    BY DEF T
  <2> QED BY <1>1, <1>2, <1>3, <2>1, Induction
<1> DEFINE reached == CHOOSE w : ReachRun(next, start, w, n)
<1>5. ReachRun(next, start, reached, n)
  BY <1>4
<1>6. Reach(next, start) = reached[n]
  BY DEF Reach, ReachRun, ReachRound
<1> QED BY <1>1, <1>5, <1>6

\* Every round that is not the last one takes another of the nodes.
LEMMA ReachGrows ==
  ASSUME NEW next, NEW start, IsFiniteSet(DOMAIN next), NEW n \in Nat, NEW w, ReachRun(next, start, w, n)
  PROVE  \A k \in 0 .. n : Closed(next, w[k]) \/ Cardinality(w[k] \cap DOMAIN next) > k
<1> DEFINE D == DOMAIN next
           P(k) == Closed(next, w[k]) \/ Cardinality(w[k] \cap D) > k
           T == {k \in Nat : k <= n => P(k)}
<1>1. \A k \in 1 .. n : w[k] = ReachRound(next, w[k - 1])
  BY ReachRunRounds
<1>2. ASSUME NEW S
      PROVE  IsFiniteSet(S \cap D) /\ Cardinality(S \cap D) \in Nat
  BY FS_Subset, FS_CardinalityType
<1>3. 0 \in T
  <2>1. CASE w[0] \cap D = {}
    BY <2>1 DEF Closed
  <2>2. CASE w[0] \cap D # {}
    BY <1>2, <2>2, FS_EmptySet
  <2> QED BY <2>1, <2>2
<1>4. ASSUME NEW k \in T PROVE k + 1 \in T
  <2> SUFFICES ASSUME k + 1 <= n PROVE P(k + 1)
    OBVIOUS
  <2>1. w[k + 1] = ReachRound(next, w[k]) /\ P(k)
    BY <1>1
  <2> DEFINE A == w[k]
             B == w[k + 1]
  <2>2. CASE Closed(next, A)
    <3>1. B = A
      BY <2>1, <2>2 DEF Closed, ReachRound
    <3> QED BY <2>2, <3>1
  <2>3. CASE ~ Closed(next, A) /\ B \cap D = A \cap D
    <3>1. Closed(next, B)
      BY <2>1, <2>3 DEF Closed, ReachRound
    <3> QED BY <3>1
  <2>4. CASE ~ Closed(next, A) /\ B \cap D # A \cap D
    <3>1. A \cap D \subseteq B \cap D
      BY <2>1 DEF ReachRound
    <3>2. Cardinality(A \cap D) < Cardinality(B \cap D)
      <4> DEFINE C == A \cap D
                 E == B \cap D
      <4>1. IsFiniteSet(E) /\ C \subseteq E /\ C # E
        BY <1>2, <2>4, <3>1
      <4> HIDE DEF C, E
      <4>2. Cardinality(C) <= Cardinality(E) /\ Cardinality(C) # Cardinality(E)
        BY <4>1, FS_Subset
      <4>3. Cardinality(C) \in Nat /\ Cardinality(E) \in Nat
        BY <4>1, FS_Subset, FS_CardinalityType
      <4>4. Cardinality(C) < Cardinality(E)
        BY <4>2, <4>3
      <4> QED BY <4>4 DEF C, E
    <3>3. Cardinality(A \cap D) > k
      BY <2>1, <2>4
    <3>4. Cardinality(A \cap D) \in Nat /\ Cardinality(B \cap D) \in Nat
      BY <1>2
    <3>5. Cardinality(B \cap D) > k + 1
      <4> DEFINE x == Cardinality(A \cap D)
                 y == Cardinality(B \cap D)
      <4>1. x \in Nat /\ y \in Nat /\ x < y /\ x > k /\ k \in Nat
        BY <3>2, <3>3, <3>4
      <4> HIDE DEF x, y
      <4>2. y > k + 1
        BY <4>1
      <4> QED BY <4>2 DEF x, y
    <3> QED BY <3>5
  <2> QED BY <2>2, <2>3, <2>4
<1>5. T = Nat
  <2> HIDE DEF T
  <2>1. T \subseteq Nat
    BY DEF T
  <2> QED BY <1>3, <1>4, <2>1, Induction
<1> QED BY <1>5

LEMMA ReachIsLeast ==
  ASSUME NEW next, NEW start, IsFiniteSet(DOMAIN next)
  PROVE  /\ start \subseteq Reach(next, start)
         /\ Closed(next, Reach(next, start))
         /\ \A S : start \subseteq S /\ Closed(next, S) => Reach(next, start) \subseteq S
<1> DEFINE n == Cardinality(DOMAIN next)
<1>1. PICK w : n \in Nat /\ ReachRun(next, start, w, n) /\ Reach(next, start) = w[n]
  BY ReachRuns
<1> HIDE DEF n
<1>2. w[0] = start /\ \A k \in 1 .. n : w[k] = ReachRound(next, w[k - 1])
  BY <1>1, ReachRunRounds
<1>3. start \subseteq w[n]
  <2> DEFINE T == {k \in Nat : k <= n => start \subseteq w[k]}
  <2>1. 0 \in T
    BY <1>2
  <2>2. ASSUME NEW k \in T PROVE k + 1 \in T
    <3> SUFFICES ASSUME k + 1 <= n PROVE start \subseteq w[k + 1]
      OBVIOUS
    <3>1. w[k + 1] = ReachRound(next, w[k]) /\ start \subseteq w[k]
      <4>1. k + 1 \in 1 .. n /\ (k + 1) - 1 = k /\ k <= n
        BY <1>1
      <4> QED BY <1>2, <4>1
    <3> QED BY <3>1 DEF ReachRound
  <2>3. T = Nat
    <3> HIDE DEF T
    <3>1. T \subseteq Nat
      BY DEF T
    <3> QED BY <2>1, <2>2, <3>1, Induction
  <2> QED BY <1>1, <2>3
<1>4. ASSUME NEW S, start \subseteq S, Closed(next, S) PROVE w[n] \subseteq S
  <2> DEFINE T == {k \in Nat : k <= n => w[k] \subseteq S}
  <2>1. 0 \in T
    BY <1>2, <1>4
  <2>2. ASSUME NEW k \in T PROVE k + 1 \in T
    <3> SUFFICES ASSUME k + 1 <= n PROVE w[k + 1] \subseteq S
      OBVIOUS
    <3>1. w[k + 1] = ReachRound(next, w[k]) /\ w[k] \subseteq S
      <4>1. k + 1 \in 1 .. n /\ (k + 1) - 1 = k /\ k <= n
        BY <1>1
      <4> QED BY <1>2, <4>1
    <3> QED BY <1>4, <3>1 DEF ReachRound, Closed
  <2>3. T = Nat
    <3> HIDE DEF T
    <3>1. T \subseteq Nat
      BY DEF T
    <3> QED BY <2>1, <2>2, <3>1, Induction
  <2> QED BY <1>1, <2>3
<1>5. Closed(next, w[n])
  <2>1. Closed(next, w[n]) \/ Cardinality(w[n] \cap DOMAIN next) > n
    BY <1>1, ReachGrows DEF n
  <2>2. Cardinality(w[n] \cap DOMAIN next) <= n /\ Cardinality(w[n] \cap DOMAIN next) \in Nat
    <3> DEFINE C == w[n] \cap DOMAIN next
    <3>1. C \subseteq DOMAIN next
      OBVIOUS
    <3> HIDE DEF C
    <3>2. Cardinality(C) <= Cardinality(DOMAIN next) /\ Cardinality(C) \in Nat
      BY <3>1, FS_Subset, FS_CardinalityType
    <3> QED BY <3>2 DEF C, n
  <2> QED BY <1>1, <2>1, <2>2
<1> QED BY <1>1, <1>3, <1>4, <1>5

\* An array has finitely many elements, and so have the fields of them.
LEMMA ImageIsFinite ==
  ASSUME NEW S, IsFiniteSet(S), NEW f, DOMAIN f = S, NEW T, T = {f[x] : x \in S}
  PROVE  IsFiniteSet(T)
<1> DEFINE g == [x \in S |-> f[x]]
<1>1. g \in [S -> T] /\ \A t \in T : \E x \in S : g[x] = t
  OBVIOUS
<1>2. g \in Surjection(S, T)
  BY <1>1 DEF Surjection
<1> QED BY <1>2, FS_Surjection

LEMMA IdsAreFinite ==
  ASSUME NEW s, IsArray(s)
  PROVE  IsFiniteSet({a.id : a \in Elements(s)})
<1> DEFINE f == [i \in 1 .. Len(s) |-> s[i].id]
           I == 1 .. Len(s)
           T == {a.id : a \in Elements(s)}
<1>1. IsFiniteSet(I)
  BY FS_Interval DEF IsArray
<1>2. T = {f[i] : i \in I}
  BY DEF Elements, IsArray
<1>3. DOMAIN f = I
  OBVIOUS
<1>4. IsFiniteSet(T)
  <2> HIDE DEF f, I, T
  <2> QED BY <1>1, <1>2, <1>3, ImageIsFinite
<1> QED BY <1>4

\* What the carried receipts rest on directly; the two definitions of the closure over
\* it, that of step 18 and 19 and that of the properties, are the same for unique ids.
ParentsOf(b) ==
    [id \in {r.id : r \in Elements(b.receipts)} |-> {e.parent : e \in Elements(Find(b.receipts, id).parents)}]

LEMMA BehindIsReach == \A b, ids : Behind(b, ids) = Reach(ParentsOf(b), ids)
BY DEF Behind, ParentsOf

LEMMA RestIsBehind ==
  ASSUME Accepted(Bundle), NEW ids
  PROVE  RestOf(ids) = Behind(Bundle, ids)
<1> DEFINE carried == {r.id : r \in AllReceipts}
           Both(id) == UNION {{e.parent : e \in Elements(r.parents)} : r \in {r \in AllReceipts : r.id = id}}
<1>1. ASSUME NEW id \in carried
      PROVE  Both(id) = {e.parent : e \in Elements(Find(Bundle.receipts, id).parents)}
  <2>1. PICK r \in AllReceipts : r.id = id
    OBVIOUS
  <2>2. Find(Bundle.receipts, id) = r /\ \A s \in AllReceipts : s.id = id => s = r
    BY <2>1, FoundThere DEF AllReceipts
  <2>3. {s \in AllReceipts : s.id = id} = {r}
    BY <2>1, <2>2
  <2> QED BY <2>2, <2>3
<1>2. [id \in carried |-> Both(id)] = ParentsOf(Bundle)
  BY <1>1 DEF ParentsOf, AllReceipts
<1>3. RestOf(ids) = Reach([id \in carried |-> Both(id)], ids)
  BY DEF RestOf
<1> QED BY <1>2, <1>3, BehindIsReach

\* What is behind some ids: the ids, with the parents of what is behind them, and no more.
LEMMA BehindIsLeast ==
  ASSUME NEW b, Accepted(b), NEW ids
  PROVE  /\ ids \subseteq Behind(b, ids)
         /\ \A r \in Elements(b.receipts) : r.id \in Behind(b, ids) =>
               {e.parent : e \in Elements(r.parents)} \subseteq Behind(b, ids)
         /\ \A S : /\ ids \subseteq S
                   /\ \A r \in Elements(b.receipts) : r.id \in S => {e.parent : e \in Elements(r.parents)} \subseteq S
                   => Behind(b, ids) \subseteq S
<1> DEFINE next == ParentsOf(b)
<1>1. DOMAIN next = {r.id : r \in Elements(b.receipts)}
  BY DEF ParentsOf
<1>2. IsFiniteSet(DOMAIN next)
  BY <1>1, IdsAreFinite, Arrays DEF Accepted
<1>3. \A r \in Elements(b.receipts) : next[r.id] = {e.parent : e \in Elements(r.parents)}
  BY FoundThere DEF ParentsOf
<1>4. \A S : Closed(next, S)
             <=> \A r \in Elements(b.receipts) : r.id \in S => {e.parent : e \in Elements(r.parents)} \subseteq S
  BY <1>1, <1>3 DEF Closed
<1> HIDE DEF next
<1>5. /\ ids \subseteq Reach(next, ids) /\ Closed(next, Reach(next, ids))
      /\ \A S : ids \subseteq S /\ Closed(next, S) => Reach(next, ids) \subseteq S
  BY <1>2, ReachIsLeast
<1>6. Behind(b, ids) = Reach(next, ids)
  BY BehindIsReach DEF next
<1> QED BY <1>4, <1>5, <1>6

-----------------------------------------------------------------------------
(* The limits of the verdict. *)

LEMMA AnchorHolds ==
  ASSUME NEW b, Accepted(b), NEW a \in Elements(b.anchors)
  PROVE  Planned(b, a) /\ Included(a) /\ Consistent(a) /\ BindsManifest(b, a)
<1> DEFINE u(x) == Require(Planned(b, x), "anchor/target-unplanned")
           v(x) == Require(Included(x), "anchor/inclusion-invalid")
           w(x) == Require(Consistent(x), "anchor/consistency-invalid")
           z(x) == Require(BindsManifest(b, x), "anchor/manifest-binding")
           F(x) == u(x) ?? v(x) ?? w(x) ?? z(x)
                   ?? Require(x.submitted - Find(b.manifests, x.manifest).closed <= Day, "anchor/submission-late")
                   ?? Require(HeadsOf(b, x) # <<>>, "anchor/head-missing")
                   ?? Require((HeadsOf(b, x)[1].size = x.head.size) <=> (HeadsOf(b, x)[1].root = x.head.root),
                              "anchor/head-mismatch")
                   ?? Require(b.eval - HeadsOf(b, x)[1].observed <= Day, "anchor/head-stale")
                   ?? Require(Independent(b, x), "anchor/independence-invalid")
           codes == [k \in DOMAIN b.anchors |-> F(b.anchors[k])]
<1>1. PICK i \in DOMAIN b.anchors : a = b.anchors[i]
  BY DEF Elements
<1>2. FirstCode(codes) = OK
  BY Zenon DEF Accepted, Anchors, ForEach
<1>3. DOMAIN codes \subseteq Nat /\ i \in DOMAIN codes /\ codes[i] = F(a)
  <2> HIDE DEF F
  <2> QED BY <1>1, Arrays DEF Accepted, IsArray, EntryFields
<1> HIDE DEF codes
<1>4. F(a) = OK
  <2> HIDE DEF F
  <2> QED BY <1>2, <1>3, AllOK
<1>5. u(a) = OK /\ v(a) = OK /\ w(a) = OK /\ z(a) = OK
  <2> HIDE DEF u, v, w, z
  <2> QED BY <1>4, Then
<1> QED BY <1>5 DEF Require, OK

LEMMA EvidenceHolds ==
  ASSUME NEW b, Accepted(b), NEW r \in Elements(b.receipts)
  PROVE  /\ r.time.class = "externally_anchored" => AnchoredBefore(b, r)
         /\ r.outcome # None /\ r.outcome.level = "independently_sensed" => SensedApart(b, r)
<1> DEFINE F(x) == TimeFault(b, x) ?? ProvenanceFault(b, x) ?? OutcomeFault(b, x)
           codes == [k \in DOMAIN b.receipts |-> F(b.receipts[k])]
<1>1. PICK i \in DOMAIN b.receipts : r = b.receipts[i]
  BY DEF Elements
<1>2. FirstCode(codes) = OK
  BY DEF Accepted, EvidenceFault, ForEach
<1>3. DOMAIN codes \subseteq Nat /\ i \in DOMAIN codes /\ codes[i] = F(r)
  <2> HIDE DEF F
  <2> QED BY <1>1, Arrays DEF Accepted, IsArray
<1> HIDE DEF codes
<1>4. F(r) = OK
  <2> HIDE DEF F
  <2> QED BY <1>2, <1>3, AllOK
<1>5. TimeFault(b, r) = OK /\ OutcomeFault(b, r) = OK
  BY <1>4, Then
<1>6. Require(r.time.class = "externally_anchored" => AnchoredBefore(b, r),
              "evidence/time-class-unsatisfied") = OK
  BY <1>5, Then DEF TimeFault
<1>7. r.outcome # None /\ r.outcome.level = "independently_sensed" =>
         Require(SensedApart(b, r), "evidence/observer-not-independent") = OK
  BY <1>5, Then DEF OutcomeFault
<1> QED BY <1>6, <1>7 DEF Require, OK

LEMMA OutcomeLabelled ==
  ASSUME NEW b, Accepted(b), NEW r \in Elements(b.receipts), r.outcome # None,
         r.outcome.level = "independently_sensed"
  PROVE  r.kind = "outcome_observation"
<1>1. Labels(r) = OK
  BY SemanticsHold
<1>2. r.kind \in DOMAIN KindOutcomeLevels /\ r.outcome.level \in KindOutcomeLevels[r.kind]
  <2> DEFINE u == Require((r.kind = "inference") <=> (r.provenance # None),
                          "evidence/provenance-class-unsatisfied")
             v == Require(/\ (r.kind \in DOMAIN KindOutcomeLevels) <=> (r.outcome # None)
                          /\ r.outcome # None => r.outcome.level \in KindOutcomeLevels[r.kind],
                          "evidence/outcome-class-unsatisfied")
  <2>1. (u ?? v) = OK
    BY <1>1, Zenon DEF Labels
  <2>2. v = OK
    <3> HIDE DEF u, v
    <3> QED BY <2>1, Then
  <2> QED BY <2>2 DEF Require, OK
<1> QED BY <1>2 DEF KindOutcomeLevels

\* The highest of some declared classes is one of them.
LEMMA HighestIsDeclared ==
  ASSUME NEW n \in Nat, NEW classes, DOMAIN classes = 1 .. n,
         NEW declared, declared \subseteq Elements(classes), declared # {}
  PROVE  Highest(classes, declared) \in declared
<1> DEFINE ranks == {Rank(classes, c) : c \in declared}
           under == {y \in Nat : \E x \in ranks : y = n - x}
<1>1. \A c \in declared : Rank(classes, c) \in 1 .. n /\ classes[Rank(classes, c)] = c
  <2> SUFFICES ASSUME NEW c \in declared
               PROVE  Rank(classes, c) \in 1 .. n /\ classes[Rank(classes, c)] = c
    OBVIOUS
  <2>1. \E i \in DOMAIN classes : classes[i] = c
    BY DEF Elements
  <2> QED BY <2>1 DEF Rank
<1>2. ranks \subseteq 1 .. n /\ ranks # {}
  BY <1>1
<1>3. PICK u \in under : \A v \in under : u <= v
  <2>1. under \subseteq Nat /\ under # {}
    <3> HIDE DEF ranks
    <3>1. PICK x \in ranks : x \in 1 .. n
      BY <1>2
    <3>2. n - x \in under
      BY <3>1
    <3> QED BY <3>2
  <2> HIDE DEF under
  <2> QED BY <2>1, Least
<1>4. PICK m \in ranks : \A x \in ranks : m >= x
  <2> HIDE DEF ranks
  <2>1. PICK m \in ranks : u = n - m
    OBVIOUS
  <2>2. \A x \in ranks : n - m <= n - x
    BY <1>2, <1>3, <2>1
  <2>3. \A x \in ranks : m >= x
    BY <1>2, <2>2
  <2> QED BY <2>3
<1>5. Max(ranks) \in ranks
  <2> HIDE DEF ranks
  <2> QED BY <1>4 DEF Max
<1>6. PICK c \in declared : Max(ranks) = Rank(classes, c)
  BY <1>5
<1>7. Highest(classes, declared) = classes[Max(ranks)]
  BY DEF Highest
<1> HIDE DEF ranks
<1> QED BY <1>1, <1>6, <1>7

LEMMA HighestTime ==
  ASSUME NEW b, Accepted(b), EvidenceLimits(b).time = "externally_anchored"
  PROVE  \E r \in Elements(b.receipts) : r.time.class = "externally_anchored"
<1> DEFINE declared == {r.time.class : r \in Elements(b.receipts)}
<1>1. Highest(TimeClasses, declared) = "externally_anchored"
  BY DEF EvidenceLimits
<1>2. declared # {}
  <2> HIDE DEF declared
  <2> QED BY <1>1 DEF Highest
<1>3. declared \subseteq Elements(TimeClasses)
  BY DEF Accepted, HasClasses
<1>4. DOMAIN TimeClasses = 1 .. 3
  BY DEF TimeClasses
<1>5. "externally_anchored" \in declared
  <2> HIDE DEF declared
  <2> QED BY <1>1, <1>2, <1>3, <1>4, HighestIsDeclared
<1> QED BY <1>5

LEMMA HighestOutcome ==
  ASSUME NEW b, Accepted(b), EvidenceLimits(b).outcome = "independently_sensed"
  PROVE  \E r \in Elements(b.receipts) : r.outcome # None /\ r.outcome.level = "independently_sensed"
<1> DEFINE declared == {r.outcome.level : r \in {r \in Elements(b.receipts) : r.outcome # None}}
<1>1. EvidenceLimits(b).outcome =
         IF "contradicted" \in declared THEN "contradicted"
         ELSE IF "unknown" \in declared THEN "unknown"
         ELSE Highest(OutcomeLevels, declared)
  BY DEF EvidenceLimits
<1>2. /\ "contradicted" \notin declared /\ "unknown" \notin declared
      /\ Highest(OutcomeLevels, declared) = "independently_sensed"
  <2> HIDE DEF declared
  <2> QED BY <1>1
<1>3. declared # {}
  <2> HIDE DEF declared
  <2> QED BY <1>2 DEF Highest
<1>4. declared \subseteq Elements(OutcomeLevels) \cup {"contradicted", "unknown"}
  BY DEF Accepted, HasClasses
<1>5. DOMAIN OutcomeLevels = 1 .. 4
  BY DEF OutcomeLevels
<1>6. "independently_sensed" \in declared
  <2> HIDE DEF declared
  <2>1. declared \subseteq Elements(OutcomeLevels)
    BY <1>2, <1>4
  <2> QED BY <1>2, <1>3, <1>5, <2>1, HighestIsDeclared
<1> QED BY <1>6

\* What a verdict says of time and of outcomes some carried evidence has earned: step 19
\* with the manifest that step 17 binds the anchor to, and the closure of step 19.
THEOREM VerifierLimitsAreEarned == Spec => []LimitsAreEarned
<1>1. ASSUME Progress PROVE LimitsAreEarned
  <2> SUFFICES ASSUME IsConformant
               PROVE  /\ verdict.time = "externally_anchored" =>
                            \E r \in AllReceipts, a \in Elements(Bundle.anchors) :
                               /\ a.id = r.time.anchor /\ a.accepted <= r.at
                               /\ \E m \in Elements(Bundle.manifests) :
                                     m.id = a.manifest /\ m.owner = r.owner /\ m.epoch < r.epoch
                      /\ verdict.outcome = "independently_sensed" =>
                            \E r \in OfKind("outcome_observation") :
                               \A p \in OfKind("observation") :
                                  p.id \in RestOf({r.id}) => p.body.domain # r.body.domain
    BY DEF LimitsAreEarned
  <2>1. Accepted(Bundle)
    BY <1>1, ConformantIsAccepted
  <2>2. verdict.time = EvidenceLimits(Bundle).time /\ verdict.outcome = EvidenceLimits(Bundle).outcome
    BY <1>1 DEF Progress, Answered
  <2>3. ASSUME verdict.time = "externally_anchored"
        PROVE  \E r \in AllReceipts, a \in Elements(Bundle.anchors) :
                  /\ a.id = r.time.anchor /\ a.accepted <= r.at
                  /\ \E m \in Elements(Bundle.manifests) :
                        m.id = a.manifest /\ m.owner = r.owner /\ m.epoch < r.epoch
    <3>1. PICK r \in Elements(Bundle.receipts) : r.time.class = "externally_anchored"
      BY <2>1, <2>2, <2>3, HighestTime
    <3>2. AnchoredBefore(Bundle, r)
      BY <2>1, <3>1, EvidenceHolds
    <3> DEFINE a == Find(Bundle.anchors, r.time.anchor)
               m == Find(Bundle.manifests, a.manifest)
    <3>3. a \in Elements(Bundle.anchors) /\ a.id = r.time.anchor
      BY <3>2, Found DEF AnchoredBefore, Elements
    <3>4. m \in Elements(Bundle.manifests) /\ m.id = a.manifest
      BY <3>2, Found DEF AnchoredBefore, Elements
    <3>5. m.epoch = a.epoch
      BY <2>1, <3>3, AnchorHolds DEF BindsManifest
    <3>6. a.epoch < r.epoch /\ m.owner = r.owner /\ a.accepted <= r.at
      BY <3>2 DEF AnchoredBefore
    <3> QED BY <3>3, <3>4, <3>5, <3>6 DEF AllReceipts
  <2>4. ASSUME verdict.outcome = "independently_sensed"
        PROVE  \E r \in OfKind("outcome_observation") :
                  \A p \in OfKind("observation") :
                     p.id \in RestOf({r.id}) => p.body.domain # r.body.domain
    <3>1. PICK r \in Elements(Bundle.receipts) : r.outcome # None /\ r.outcome.level = "independently_sensed"
      BY <2>1, <2>2, <2>4, HighestOutcome
    <3>2. r.kind = "outcome_observation" /\ SensedApart(Bundle, r)
      BY <2>1, <3>1, EvidenceHolds, OutcomeLabelled
    <3> DEFINE parents == {e.parent : e \in Elements(r.parents)}
    <3>3. Behind(Bundle, {r.id}) \subseteq {r.id} \cup Behind(Bundle, parents)
      <4> DEFINE S == {r.id} \cup Behind(Bundle, parents)
      <4>1. ASSUME NEW s \in Elements(Bundle.receipts), s.id \in S
            PROVE  {e.parent : e \in Elements(s.parents)} \subseteq S
        <5>1. CASE s.id = r.id
          <6>1. s = r
            BY <2>1, <5>1, FoundThere
          <6> QED BY <2>1, <6>1, BehindIsLeast
        <5>2. CASE s.id \in Behind(Bundle, parents)
          BY <2>1, <5>2, BehindIsLeast
        <5> QED BY <4>1, <5>1, <5>2
      <4>2. {r.id} \subseteq S
        OBVIOUS
      <4> HIDE DEF S
      <4>3. Behind(Bundle, {r.id}) \subseteq S
        BY <2>1, <4>1, <4>2, BehindIsLeast
      <4> QED BY <4>3 DEF S
    <3>4. ASSUME NEW p \in Elements(Bundle.receipts), p.kind = "observation", p.id \in RestOf({r.id})
          PROVE  p.body.domain # r.body.domain
      <4>1. p.id \in {r.id} \cup Behind(Bundle, parents)
        BY <2>1, <3>3, <3>4, RestIsBehind
      <4>2. p.id # r.id
        <5>1. p.id = r.id => p = r
          BY <2>1, FoundThere
        <5> QED BY <3>2, <3>4, <5>1
      <4> QED BY <3>2, <3>4, <4>1, <4>2 DEF SensedApart, AncestorsOf
    <3> QED BY <3>2, <3>4 DEF OfKind, AllReceipts
  <2> QED BY <2>3, <2>4
<1> QED BY <1>1, ProgressInvariant, PTL

-----------------------------------------------------------------------------
(* Completeness. *)

SliceRun(entries, selector, w, n) ==
    w = [i \in 0 .. n |-> IF i = 0 THEN <<>>
                          ELSE IF InInterval(entries[i], selector) THEN Append(w[i - 1], entries[i])
                          ELSE w[i - 1]]

LEMMA SliceRuns ==
  ASSUME NEW entries, NEW selector, NEW n \in Nat
  PROVE  \E w : SliceRun(entries, selector, w, n)
<1> DEFINE T == {m \in Nat : \E w : SliceRun(entries, selector, w, m)}
           Next1(before, m) == IF InInterval(entries[m], selector) THEN Append(before, entries[m]) ELSE before
<1>1. 0 \in T
  <2>1. SliceRun(entries, selector, [k \in 0 .. 0 |-> <<>>], 0)
    BY DEF SliceRun
  <2> QED BY <2>1
<1>2. ASSUME NEW m \in T PROVE m + 1 \in T
  <2>1. PICK w : SliceRun(entries, selector, w, m)
    OBVIOUS
  <2> DEFINE v == [k \in 0 .. m + 1 |-> IF k \in 0 .. m THEN w[k] ELSE Next1(w[m], m + 1)]
  <2>2. w = [k \in 0 .. m |-> IF k = 0 THEN <<>> ELSE Next1(w[k - 1], k)]
    BY <2>1 DEF SliceRun
  <2> HIDE DEF Next1
  <2>3. \A k \in 0 .. m : w[k] = IF k = 0 THEN <<>> ELSE Next1(w[k - 1], k)
    BY <2>2
  <2>4. v = [k \in 0 .. m + 1 |-> IF k = 0 THEN <<>> ELSE Next1(v[k - 1], k)]
    BY <2>3
  <2> HIDE DEF v
  <2>5. SliceRun(entries, selector, v, m + 1)
    BY <2>4 DEF SliceRun, Next1
  <2> QED BY <2>5
<1>3. T = Nat
  <2> HIDE DEF T
  <2>1. T \subseteq Nat
    BY DEF T
  <2> QED BY <1>1, <1>2, <2>1, Induction
<1> QED BY <1>3

\* The slice of an index has the entries in the interval and no others.
LEMMA SliceHolds ==
  ASSUME NEW b, NEW m, IsArray(m.index.entries)
  PROVE  LET slice == TemporalSlice(b, m)
         IN /\ IsArray(slice) /\ Elements(slice) \subseteq Elements(m.index.entries)
            /\ \A e \in Elements(m.index.entries) : InInterval(e, b.selector) => e \in Elements(slice)
<1> DEFINE entries == m.index.entries
           E == Elements(entries)
           n == Len(entries)
           w == CHOOSE w : SliceRun(entries, b.selector, w, n)
           P(k) == /\ w[k] \in Seq(E)
                   /\ \A j \in 1 .. k : InInterval(entries[j], b.selector) =>
                         \E i \in DOMAIN w[k] : w[k][i] = entries[j]
           T == {k \in Nat : k <= n => P(k)}
<1>1. n \in Nat /\ DOMAIN entries = 1 .. n
  BY DEF IsArray
<1>2. SliceRun(entries, b.selector, w, n)
  BY <1>1, SliceRuns
<1>3. TemporalSlice(b, m) = w[n]
  BY DEF TemporalSlice, SliceRun
<1>4. \A j \in 1 .. n : entries[j] \in E
  BY <1>1 DEF Elements
<1> HIDE DEF w, entries, n, E
<1>5. /\ w[0] = <<>>
      /\ \A k \in 1 .. n : w[k] = IF InInterval(entries[k], b.selector) THEN Append(w[k - 1], entries[k])
                                  ELSE w[k - 1]
  <2>1. \A k \in 0 .. n : w[k] = IF k = 0 THEN <<>>
                                 ELSE IF InInterval(entries[k], b.selector) THEN Append(w[k - 1], entries[k])
                                 ELSE w[k - 1]
    BY <1>2 DEF SliceRun
  <2> QED BY <1>1, <2>1
<1>6. 0 \in T
  <2>1. w[0] \in Seq(E) /\ 1 .. 0 = {}
    BY <1>5
  <2> QED BY <2>1
<1>7. ASSUME NEW k \in T PROVE k + 1 \in T
  <2> SUFFICES ASSUME k + 1 <= n PROVE P(k + 1)
    OBVIOUS
  <2>1. P(k) /\ k + 1 \in 1 .. n /\ (k + 1) - 1 = k /\ k \in Nat
    BY <1>1
  <2>2. w[k + 1] = IF InInterval(entries[k + 1], b.selector) THEN Append(w[k], entries[k + 1]) ELSE w[k]
    BY <1>5, <2>1
  <2>3. CASE ~ InInterval(entries[k + 1], b.selector)
    BY <2>1, <2>2, <2>3
  <2>4. CASE InInterval(entries[k + 1], b.selector)
    <3> DEFINE A == w[k]
               B == w[k + 1]
               x == entries[k + 1]
    <3>1. A \in Seq(E) /\ x \in E /\ B = Append(A, x)
      BY <1>4, <2>1, <2>2, <2>4
    <3>2. \A j \in 1 .. k : InInterval(entries[j], b.selector) => \E i \in DOMAIN A : A[i] = entries[j]
      BY <2>1
    <3> HIDE DEF A, B
    <3>3. /\ B \in Seq(E) /\ B[Len(A) + 1] = x /\ Len(A) + 1 \in DOMAIN B
          /\ \A i \in DOMAIN A : i \in DOMAIN B /\ B[i] = A[i]
      BY <3>1
    <3>4. \A j \in 1 .. k + 1 : j \in 1 .. k \/ j = k + 1
      BY <2>1
    <3>5. \A j \in 1 .. k + 1 : InInterval(entries[j], b.selector) => \E i \in DOMAIN B : B[i] = entries[j]
      BY <3>2, <3>3, <3>4
    <3> QED BY <3>3, <3>5 DEF A, B
  <2> QED BY <2>3, <2>4
<1>8. T = Nat
  <2> HIDE DEF T
  <2>1. T \subseteq Nat
    BY DEF T
  <2> QED BY <1>6, <1>7, <2>1, Induction
<1>9. P(n)
  BY <1>1, <1>8
<1>10. IsArray(w[n]) /\ Elements(w[n]) \subseteq E
  <2> DEFINE A == w[n]
  <2>1. A \in Seq(E)
    BY <1>9
  <2> HIDE DEF A
  <2>2. IsArray(A) /\ Elements(A) \subseteq E
    BY <2>1 DEF IsArray, Elements
  <2> QED BY <2>2 DEF A
<1>11. \A e \in E : InInterval(e, b.selector) => e \in Elements(w[n])
  <2> SUFFICES ASSUME NEW e \in E, InInterval(e, b.selector) PROVE e \in Elements(w[n])
    OBVIOUS
  <2>1. PICK j \in 1 .. n : e = entries[j]
    BY <1>1 DEF E, Elements
  <2>2. \E i \in DOMAIN w[n] : w[n][i] = entries[j]
    BY <1>9, <2>1
  <2> QED BY <2>1, <2>2 DEF Elements
<1> QED BY <1>3, <1>10, <1>11 DEF E, entries

LEMMA RangesHold ==
  ASSUME NEW b, Accepted(b)
  PROVE  /\ \A n \in DOMAIN b.ranges : RangeFault(b, n) = OK
         /\ b.coverage = "complete" =>
               /\ \A id \in Selected(b) : Carries(b.receipts, id)
               /\ \A r \in Elements(b.receipts) : InScope(b, r, Behind(b, Selected(b)))
<1> DEFINE numbers == [n \in DOMAIN b.ranges |-> n]
           codes == [k \in DOMAIN numbers |-> RangeFault(b, numbers[k])]
<1>1. ForEach(numbers, LAMBDA n : RangeFault(b, n)) = OK
      /\ (IF b.coverage = "complete" THEN Complete(b) ELSE OK) = OK
  BY Then DEF Accepted, Ranges
<1>2. FirstCode(codes) = OK
  BY <1>1 DEF ForEach
<1>3. DOMAIN codes = DOMAIN b.ranges /\ \A n \in DOMAIN b.ranges : codes[n] = RangeFault(b, n)
  OBVIOUS
<1>4. DOMAIN b.ranges \subseteq Nat
  BY Arrays DEF Accepted, IsArray
<1>5. \A n \in DOMAIN b.ranges : RangeFault(b, n) = OK
  <2> HIDE DEF codes
  <2> QED BY <1>2, <1>3, <1>4, AllOK
<1>6. ASSUME b.coverage = "complete"
      PROVE  /\ \A id \in Selected(b) : Carries(b.receipts, id)
             /\ \A r \in Elements(b.receipts) : InScope(b, r, Behind(b, Selected(b)))
  <2> DEFINE u == Require(b.ranges # <<>>, "bundle/coverage-overclaim")
             v == Require(\A id \in Selected(b) : Carries(b.receipts, id), "bundle/selected-receipt-missing")
             z == Require(\A r \in Elements(b.receipts) : InScope(b, r, Behind(b, Selected(b))),
                          "bundle/artifact-out-of-scope")
  <2>1. Complete(b) = OK
    BY <1>1, <1>6
  <2>2. (u ?? v ?? z) = OK
    BY <2>1, Zenon DEF Complete
  <2>3. v = OK /\ z = OK
    <3> HIDE DEF u, v, z
    <3> QED BY <2>2, Then
  <2> QED BY <2>3 DEF Require, OK
<1> QED BY <1>5, <1>6

\* A range lists the slice of the index of its manifest.
LEMMA RangeHolds ==
  ASSUME NEW b, Accepted(b), NEW n \in DOMAIN b.ranges
  PROVE  LET range == b.ranges[n]
             m == Find(b.manifests, range.manifest)
         IN /\ m \in Elements(b.manifests) /\ m.id = range.manifest
            /\ \A item \in Elements(range.entries) \cup ({range.left, range.right} \ {None}) : InIndex(m, item)
            /\ \A item \in Elements(range.entries) : item.entry \in Elements(m.index.entries)
            /\ \A e \in Elements(m.index.entries) : InInterval(e, b.selector) =>
                  \E item \in Elements(range.entries) : item.entry = e
<1> DEFINE range == b.ranges[n]
           m == Find(b.manifests, range.manifest)
           slice == TemporalSlice(b, m)
           proved == /\ \A i \in DOMAIN range.entries : InIndex(m, range.entries[i])
                     /\ \A side \in {range.left, range.right} : side # None => InIndex(m, side)
           listed == /\ Len(range.entries) = Len(slice)
                     /\ \A i \in DOMAIN range.entries : range.entries[i].entry = slice[i]
           u == Require(Carries(b.manifests, range.manifest), "bundle/range-manifest-missing")
           v == Require(range.commitment = b.commitment, "bundle/range-selector-mismatch")
           w == Require(Contiguous(b, n), "bundle/range-noncontiguous")
           x == Require(proved, "bundle/range-proof-invalid")
           y == Require(listed, "bundle/range-boundary")
<1>1. (u ?? v ?? w ?? (x ?? y)) = OK
  <2>1. RangeFault(b, n) = OK
    BY RangesHold
  <2> QED BY <2>1, Zenon DEF RangeFault
<1>2. u = OK /\ x = OK /\ y = OK
  <2> HIDE DEF u, v, w, x, y
  <2> QED BY <1>1, Then
<1>3. Carries(b.manifests, range.manifest) /\ proved /\ listed
  <2> HIDE DEF proved, listed
  <2> QED BY <1>2 DEF Require, OK
<1>4. m \in Elements(b.manifests) /\ m.id = range.manifest
  BY <1>3, Found DEF Elements
<1>5. IsArray(m.index.entries) /\ IsArray(range.entries)
  <2>1. range \in Elements(b.ranges)
    BY DEF Elements
  <2> QED BY <1>4, <2>1 DEF Accepted, HasArrays
<1> HIDE DEF m, range
<1>6. /\ IsArray(slice) /\ Elements(slice) \subseteq Elements(m.index.entries)
      /\ \A e \in Elements(m.index.entries) : InInterval(e, b.selector) => e \in Elements(slice)
  BY <1>5, SliceHolds
<1> HIDE DEF slice
<1>7. DOMAIN slice = DOMAIN range.entries
  BY <1>3, <1>5, <1>6 DEF IsArray
<1>8. \A item \in Elements(range.entries) : item.entry \in Elements(m.index.entries)
  BY <1>3, <1>6, <1>7 DEF Elements
<1>9. \A e \in Elements(m.index.entries) : InInterval(e, b.selector) =>
         \E item \in Elements(range.entries) : item.entry = e
  BY <1>3, <1>6, <1>7 DEF Elements
<1>10. \A item \in Elements(range.entries) \cup ({range.left, range.right} \ {None}) : InIndex(m, item)
  BY <1>3 DEF Elements
<1> QED BY <1>4, <1>8, <1>9, <1>10 DEF m, range

\* What is behind fewer ids is behind more.
LEMMA BehindGrows ==
  ASSUME NEW b, Accepted(b), NEW ids, NEW more, ids \subseteq more
  PROVE  Behind(b, ids) \subseteq Behind(b, more)
BY BehindIsLeast

\* A complete bundle has what was asked for and what that rests on: step 18, in which a
\* range can only list the slice that the index of its manifest has.
THEOREM VerifierCompleteIsComplete == Spec => []CompleteIsComplete
<1>1. ASSUME Progress PROVE CompleteIsComplete
  <2> DEFINE carried == {r.id : r \in AllReceipts}
             shown == {m \in Elements(Bundle.manifests) : \E range \in Elements(Bundle.ranges) : range.manifest = m.id}
             ids == {e.id : e \in Asked(shown)}
             all == {e.id : e \in Asked(Elements(Bundle.manifests))}
  <2> SUFFICES ASSUME IsConformant, Bundle.coverage = "complete"
               PROVE  ids \subseteq carried /\ carried \subseteq RestOf(ids) \cup all
    BY DEF CompleteIsComplete
  <2>1. Accepted(Bundle)
    BY <1>1, ConformantIsAccepted
  <2>2. /\ \A id \in Selected(Bundle) : Carries(Bundle.receipts, id)
        /\ \A r \in Elements(Bundle.receipts) : InScope(Bundle, r, Behind(Bundle, Selected(Bundle)))
    BY <2>1, RangesHold
  <2>3. \A M : \A e : e \in Asked(M) <=>
           (\E m \in M : e \in Elements(m.index.entries)) /\ EntryMatchesSelector(e, Bundle.selector)
    BY DEF Asked, EntryMatchesSelector, InInterval
  <2>4. \A id : id \in Selected(Bundle) <=>
           \E n \in DOMAIN Bundle.ranges : \E item \in Elements(Bundle.ranges[n].entries) :
              EntryMatchesSelector(item.entry, Bundle.selector) /\ id = item.entry.id
    BY DEF Selected
  <2>5. Selected(Bundle) \subseteq ids
    <3> SUFFICES ASSUME NEW id \in Selected(Bundle) PROVE id \in ids
      OBVIOUS
    <3>1. PICK n \in DOMAIN Bundle.ranges : \E item \in Elements(Bundle.ranges[n].entries) :
                  EntryMatchesSelector(item.entry, Bundle.selector) /\ id = item.entry.id
      BY <2>4
    <3>2. PICK item \in Elements(Bundle.ranges[n].entries) :
                  EntryMatchesSelector(item.entry, Bundle.selector) /\ id = item.entry.id
      BY <3>1
    <3>3. PICK m \in Elements(Bundle.manifests) :
                  m.id = Bundle.ranges[n].manifest /\ item.entry \in Elements(m.index.entries)
      BY <2>1, <3>2, RangeHolds
    <3>4. m \in shown
      BY <3>3 DEF Elements
    <3>5. item.entry \in Asked(shown)
      <4> HIDE DEF shown
      <4> QED BY <2>3, <3>2, <3>3, <3>4
    <3> QED BY <3>2, <3>5
  <2>6. ids \subseteq Selected(Bundle)
    <3> SUFFICES ASSUME NEW e \in Asked(shown) PROVE e.id \in Selected(Bundle)
      OBVIOUS
    <3>1. PICK m \in shown : e \in Elements(m.index.entries)
      BY <2>3
    <3>2. EntryMatchesSelector(e, Bundle.selector)
      BY <2>3
    <3>3. PICK n \in DOMAIN Bundle.ranges : Bundle.ranges[n].manifest = m.id
      BY <3>1 DEF Elements
    <3>4. Find(Bundle.manifests, m.id) = m
      BY <2>1, <3>1, FoundThere
    <3>5. PICK item \in Elements(Bundle.ranges[n].entries) : item.entry = e
      BY <2>1, <3>1, <3>2, <3>3, <3>4, RangeHolds DEF EntryMatchesSelector
    <3> QED BY <2>4, <3>2, <3>5
  <2>7. ids \subseteq carried
    BY <2>2, <2>6 DEF Carries, AllReceipts, Elements
  <2>8. ASSUME NEW r \in AllReceipts PROVE r.id \in RestOf(ids) \cup all
    <3>1. InScope(Bundle, r, Behind(Bundle, Selected(Bundle)))
      BY <2>2 DEF AllReceipts
    <3>2. CASE r.id \in Behind(Bundle, Selected(Bundle))
      <4> HIDE DEF ids
      <4>1. RestOf(ids) = Behind(Bundle, ids)
        BY <2>1, RestIsBehind
      <4> QED BY <2>1, <2>5, <3>2, <4>1, BehindGrows
    <3>3. CASE Listing(Bundle, r.id) # {} /\ EntryMatchesSelector(EntryOf(Bundle, r.id), Bundle.selector)
      <4> DEFINE i == Min(Listing(Bundle, r.id))
                 m == Bundle.manifests[i]
                 e == Find(m.index.entries, r.id)
      <4>1. i \in Listing(Bundle, r.id)
        <5>1. Listing(Bundle, r.id) \subseteq Nat
          BY <2>1, Arrays DEF Listing, Accepted, IsArray, EntryFields
        <5> QED BY <3>3, <5>1, MinIsLeast
      <4>2. m \in Elements(Bundle.manifests) /\ Carries(m.index.entries, r.id)
        BY <4>1 DEF Listing, Elements
      <4>3. e \in Elements(m.index.entries) /\ e.id = r.id
        BY <4>2, Found DEF Elements
      <4>4. EntryMatchesSelector(e, Bundle.selector)
        BY <3>3 DEF EntryOf
      <4>5. e \in Asked(Elements(Bundle.manifests))
        BY <2>3, <4>2, <4>3, <4>4
      <4> QED BY <4>3, <4>5
    <3> QED BY <3>1, <3>2, <3>3 DEF InScope
  <2> QED BY <2>7, <2>8
<1> QED BY <1>1, ProgressInvariant, PTL

-----------------------------------------------------------------------------
(* One history. *)

\* Every manifest is the primary of its epoch, so the checks of the chain are about all.
LEMMA AllArePrimary ==
  ASSUME NEW b, Accepted(b)
  PROVE  Primaries(b) = DOMAIN b.manifests
BY OneManifest DEF Primaries

\* The manifests of the owner of j between i and j in the order of their opening.
Between(b, i, j) ==
    {k \in DOMAIN b.manifests :
        b.manifests[k].owner = b.manifests[j].owner /\ Precedes(b, i, k) /\ Precedes(b, k, j)}

LEMMA PrecedesIsAnOrder ==
  ASSUME NEW b, Accepted(b), NEW i \in DOMAIN b.manifests, NEW j \in DOMAIN b.manifests,
         NEW k \in DOMAIN b.manifests
  PROVE  /\ ~ Precedes(b, i, i)
         /\ Precedes(b, i, j) /\ Precedes(b, j, k) => Precedes(b, i, k)
         /\ i # j => Precedes(b, i, j) \/ Precedes(b, j, i)
<1> DEFINE x == b.manifests[i].opened
           y == b.manifests[j].opened
           z == b.manifests[k].opened
<1>1. i \in Int /\ j \in Int /\ k \in Int
  BY Arrays DEF Accepted, IsArray, EntryFields
<1>2. x \in Int /\ y \in Int /\ z \in Int
  BY DEF Accepted, HasIntegers, Elements
<1>3. /\ Precedes(b, i, i) <=> x < x \/ (x = x /\ i < i)
      /\ Precedes(b, i, j) <=> x < y \/ (x = y /\ i < j)
      /\ Precedes(b, j, i) <=> y < x \/ (y = x /\ j < i)
      /\ Precedes(b, j, k) <=> y < z \/ (y = z /\ j < k)
      /\ Precedes(b, i, k) <=> x < z \/ (x = z /\ i < k)
  BY DEF Precedes
<1> HIDE DEF x, y, z
<1> QED BY <1>1, <1>2, <1>3

\* What Predecessors contains: the predecessor of what it contains, and it is transitive.
LEMMA PredecessorsHold ==
  ASSUME Accepted(Bundle), NEW m \in Elements(Bundle.manifests), NEW n \in Elements(Bundle.manifests)
  PROVE  /\ m.predecessor \in Predecessors(m.id)
         /\ \A id : id \in Predecessors(m.id) /\ m.id \in Predecessors(n.id) => id \in Predecessors(n.id)
<1> DEFINE carried == Elements(Bundle.manifests)
           next == [i \in {x.id : x \in carried} |-> {x.predecessor : x \in {x \in carried : x.id = i}}]
<1>1. IsFiniteSet(DOMAIN next)
  <2>1. IsArray(Bundle.manifests)
    BY Arrays DEF Accepted, EntryFields
  <2> QED BY <2>1, IdsAreFinite
<1>2. m.id \in DOMAIN next /\ m.predecessor \in next[m.id]
  OBVIOUS
<1>3. \A id : Predecessors(id) = Reach(next, {id})
  BY DEF Predecessors
<1> HIDE DEF next
<1>4. ASSUME NEW id
      PROVE  /\ id \in Reach(next, {id}) /\ Closed(next, Reach(next, {id}))
             /\ \A S : id \in S /\ Closed(next, S) => Reach(next, {id}) \subseteq S
  BY <1>1, ReachIsLeast
<1>5. m.predecessor \in Predecessors(m.id)
  BY <1>2, <1>3, <1>4 DEF Closed
<1>6. m.id \in Predecessors(n.id) => Predecessors(m.id) \subseteq Predecessors(n.id)
  BY <1>3, <1>4
<1> QED BY <1>5, <1>6

LEMMA PrecedingIsPredecessor ==
  ASSUME Accepted(Bundle), NEW i \in DOMAIN Bundle.manifests, NEW j \in DOMAIN Bundle.manifests,
         Bundle.manifests[i].owner = Bundle.manifests[j].owner, Precedes(Bundle, i, j)
  PROVE  /\ Bundle.manifests[i].epoch < Bundle.manifests[j].epoch
         /\ Bundle.manifests[i].id \in Predecessors(Bundle.manifests[j].id)
<1> DEFINE D == DOMAIN Bundle.manifests
           m(k) == Bundle.manifests[k]
           Good(k, l) == m(k).epoch < m(l).epoch /\ m(k).id \in Predecessors(m(l).id)
           Chained(k, l) == m(k).owner = m(l).owner /\ Precedes(Bundle, k, l)
           T == {n \in Nat : \A k, l \in D : Chained(k, l) /\ Cardinality(Between(Bundle, k, l)) < n => Good(k, l)}
<1>1. IsFiniteSet(D) /\ \A k \in D : m(k) \in Elements(Bundle.manifests) /\ m(k).epoch \in Int
  <2>1. IsArray(Bundle.manifests)
    BY Arrays DEF Accepted, EntryFields
  <2>2. IsFiniteSet(D)
    BY <2>1, FS_Interval DEF IsArray
  <2>3. \A k \in D : m(k) \in Elements(Bundle.manifests)
    BY DEF Elements
  <2>4. \A x \in Elements(Bundle.manifests) : x.epoch \in Int
    BY DEF Accepted, HasIntegers
  <2> QED BY <2>2, <2>3, <2>4
<1>2. ASSUME NEW k \in D, NEW l \in D
      PROVE  IsFiniteSet(Between(Bundle, k, l)) /\ Cardinality(Between(Bundle, k, l)) \in Nat
  <2>1. Between(Bundle, k, l) \subseteq D
    BY DEF Between
  <2> QED BY <1>1, <2>1, FS_Subset, FS_CardinalityType
<1>3. 0 \in T
  BY <1>2
<1>4. ASSUME NEW n \in T PROVE n + 1 \in T
  <2> SUFFICES ASSUME NEW k \in D, NEW l \in D, Chained(k, l), Cardinality(Between(Bundle, k, l)) < n + 1
               PROVE  Good(k, l)
    OBVIOUS
  <2>1. CASE Between(Bundle, k, l) = {}
    <3>1. Follows(Bundle, k, l)
      BY <2>1, AllArePrimary DEF Follows, Between
    <3>2. m(k).epoch < m(l).epoch /\ m(l).predecessor = m(k).id
      BY <3>1, EpochsHold, AllArePrimary DEF IdsIncrease, PredecessorsMatch
    <3>3. m(l).predecessor \in Predecessors(m(l).id)
      BY <1>1, PredecessorsHold
    <3> QED BY <3>2, <3>3
  <2>2. CASE Between(Bundle, k, l) # {}
    <3>1. PICK p \in Between(Bundle, k, l) : TRUE
      BY <2>2
    <3>2. p \in D /\ Chained(k, p) /\ Chained(p, l)
      BY <3>1 DEF Between
    <3>3. ASSUME NEW S, S \subseteq Between(Bundle, k, l), p \notin S
          PROVE  Cardinality(S) < n
      <4> DEFINE all == Between(Bundle, k, l)
      <4>1. IsFiniteSet(all) /\ S \subseteq all /\ S # all /\ Cardinality(all) < n + 1
        BY <1>2, <3>1, <3>3
      <4> HIDE DEF all
      <4>2. Cardinality(S) \in Nat /\ Cardinality(all) \in Nat /\ n \in Nat
        BY <4>1, FS_Subset, FS_CardinalityType
      <4>3. Cardinality(S) <= Cardinality(all) /\ Cardinality(S) # Cardinality(all)
        BY <4>1, FS_Subset
      <4> QED BY <4>1, <4>2, <4>3
    <3>4. Between(Bundle, k, p) \subseteq Between(Bundle, k, l) /\ p \notin Between(Bundle, k, p)
      BY <3>2, PrecedesIsAnOrder DEF Between
    <3>5. Between(Bundle, p, l) \subseteq Between(Bundle, k, l) /\ p \notin Between(Bundle, p, l)
      BY <3>2, PrecedesIsAnOrder DEF Between
    <3>6. Good(k, p)
      BY <3>2, <3>3, <3>4
    <3>7. Good(p, l)
      BY <3>2, <3>3, <3>5
    <3>8. m(k).epoch < m(l).epoch
      <4> HIDE DEF m
      <4> QED BY <1>1, <3>2, <3>6, <3>7
    <3>9. m(k).id \in Predecessors(m(l).id)
      BY <1>1, <3>2, <3>6, <3>7, PredecessorsHold
    <3> QED BY <3>8, <3>9
  <2> QED BY <2>1, <2>2
<1>5. T = Nat
  <2> HIDE DEF T
  <2>1. T \subseteq Nat
    BY DEF T
  <2> QED BY <1>3, <1>4, <2>1, Induction
<1>6. Cardinality(Between(Bundle, i, j)) + 1 \in T
  <2> HIDE DEF T
  <2> QED BY <1>2, <1>5
<1>7. Cardinality(Between(Bundle, i, j)) < Cardinality(Between(Bundle, i, j)) + 1
  BY <1>2
<1> QED BY <1>6, <1>7

\* The epochs of an owner follow each other: step 14 compares neighbours, and no epoch has
\* a second manifest that would be none's neighbour.
THEOREM VerifierEpochsAreOneHistory == Spec => []EpochsAreOneHistory
<1>1. ASSUME Progress PROVE EpochsAreOneHistory
  <2> SUFFICES ASSUME IsConformant, NEW m \in Elements(Bundle.manifests), NEW n \in Elements(Bundle.manifests),
                      m.owner = n.owner, m.id # n.id
               PROVE  \/ m.epoch < n.epoch /\ m.id \in Predecessors(n.id)
                      \/ n.epoch < m.epoch /\ n.id \in Predecessors(m.id)
    BY DEF EpochsAreOneHistory
  <2>1. Accepted(Bundle)
    BY <1>1, ConformantIsAccepted
  <2>2. PICK i \in DOMAIN Bundle.manifests, j \in DOMAIN Bundle.manifests :
           m = Bundle.manifests[i] /\ n = Bundle.manifests[j]
    BY DEF Elements
  <2>3. Precedes(Bundle, i, j) \/ Precedes(Bundle, j, i)
    BY <2>1, <2>2, PrecedesIsAnOrder
  <2>4. CASE Precedes(Bundle, i, j)
    BY <2>1, <2>2, <2>4, PrecedingIsPredecessor
  <2>5. CASE Precedes(Bundle, j, i)
    BY <2>1, <2>2, <2>5, PrecedingIsPredecessor
  <2> QED BY <2>3, <2>4, <2>5
<1> QED BY <1>1, ProgressInvariant, PTL

-----------------------------------------------------------------------------
(* Delegation chains. *)

\* A delegation's id recomputes, carried or embedded in a decision: step 7.
LEMMA DelegationsNamed ==
  ASSUME NEW b, Accepted(b), NEW d \in Elements(b.delegations) \cup Embedded(b)
  PROVE  "id" \notin d.broken
<1> DEFINE G(t) == ForEach(b[t[2]], LAMBDA a : ContentId(Entry(t[1], a, None)))
           H(r) == ForEach(ReceiptEntries(r), ContentId)
<1>1. ForEach(TopLevel, G) = OK /\ ForEach(b.receipts, H) = OK
  <2>1. ForEachEntry(b, ContentId) = OK
    BY Then DEF Accepted, Content
  <2> QED BY <2>1, Then DEF ForEachEntry
<1>2. ContentId(Entry("delegation", d, None)) = OK
  <2>1. CASE d \in Elements(b.delegations)
    <3>1. PICK j \in DOMAIN b.delegations : d = b.delegations[j]
      BY <2>1 DEF Elements
    <3> DEFINE outer == [k \in DOMAIN TopLevel |-> G(TopLevel[k])]
               inner == [k \in DOMAIN b.delegations |-> ContentId(Entry("delegation", b.delegations[k], None))]
    <3>2. FirstCode(outer) = OK
      BY <1>1 DEF ForEach
    <3>3. DOMAIN TopLevel = 1 .. 10 /\ TopLevel[5] = <<"delegation", "delegations">>
      BY DEF TopLevel
    <3>4. G(<<"delegation", "delegations">>) = FirstCode(inner)
      BY DEF ForEach
    <3> HIDE DEF G
    <3>5. DOMAIN outer \subseteq Nat /\ 5 \in DOMAIN outer /\ outer[5] = FirstCode(inner)
      BY <3>3, <3>4
    <3>6. DOMAIN inner \subseteq Nat /\ j \in DOMAIN inner
          /\ inner[j] = ContentId(Entry("delegation", d, None))
      BY <3>1, Arrays DEF Accepted, IsArray, EntryFields
    <3> HIDE DEF outer, inner
    <3> QED BY <3>2, <3>5, <3>6, AllOK
  <2>2. CASE d \in Embedded(b)
    <3>1. PICK r \in Elements(b.receipts) : r.kind = "authorization" /\ d = r.body.delegation
      BY <2>2 DEF Embedded
    <3>2. PICK i \in DOMAIN b.receipts : r = b.receipts[i]
      BY DEF Elements
    <3> DEFINE outer == [k \in DOMAIN b.receipts |-> H(b.receipts[k])]
               inner == [k \in DOMAIN ReceiptEntries(r) |-> ContentId(ReceiptEntries(r)[k])]
    <3>3. FirstCode(outer) = OK
      BY <1>1 DEF ForEach
    <3>4. H(r) = FirstCode(inner)
      BY DEF ForEach
    <3> HIDE DEF H
    <3>5. DOMAIN outer \subseteq Nat /\ i \in DOMAIN outer /\ outer[i] = FirstCode(inner)
      BY <3>2, <3>4, Arrays DEF Accepted, IsArray
    <3>6. DOMAIN inner \subseteq Nat /\ 2 \in DOMAIN inner
          /\ inner[2] = ContentId(Entry("delegation", d, None))
      BY <3>1, ReceiptEntriesRange
    <3> HIDE DEF outer, inner
    <3> QED BY <3>3, <3>5, <3>6, AllOK
  <2> QED BY <2>1, <2>2
<1>3. Require("id" \notin d.broken, "identity/artifact-id-mismatch") = OK
  BY <1>2 DEF ContentId, Entry, IdKinds
<1> QED BY <1>3 DEF Require, OK

\* Two delegations with one id have the same content.
LEMMA DelegationsAgree ==
  ASSUME NEW b, Accepted(b), NEW c \in Elements(b.delegations) \cup Embedded(b),
         NEW d \in Elements(b.delegations) \cup Embedded(b), c.id = d.id
  PROVE  DelegationContent(c) = DelegationContent(d)
BY DelegationsNamed DEF Accepted, HasNames

LEMMA ChainRoundsType ==
  ASSUME NEW b, HasArrays(b), NEW child \in Embedded(b)
  PROVE  ChainRounds(b.delegations, child) \in Nat
<1> DEFINE known == b.delegations
           Of(i) == {<<i, k>> : k \in 0 .. Len(known[i].parents)}
           own == {<<0, k>> : k \in 0 .. Len(child.parents)}
           sets == {Of(i) : i \in DOMAIN known}
<1>1. IsArray(known) /\ \A i \in DOMAIN known : Len(known[i].parents) \in Nat
  BY Arrays DEF HasArrays, IsArray, Elements, EntryFields
<1>2. IsFiniteSet(own)
  <2>1. Len(child.parents) \in Int
    BY DEF HasArrays, IsArray
  <2>2. IsFiniteSet(0 .. Len(child.parents)) /\ IsFiniteSet({0})
    <3>1. IsFiniteSet(0 .. Len(child.parents))
      BY <2>1, FS_Interval
    <3> QED BY <3>1, FS_Singleton
  <2>3. own \subseteq {0} \X (0 .. Len(child.parents))
    OBVIOUS
  <2>4. IsFiniteSet({0} \X (0 .. Len(child.parents)))
    BY <2>2, FS_Product
  <2> HIDE DEF own
  <2> QED BY <2>3, <2>4, FS_Subset
<1>3. ASSUME NEW i \in DOMAIN known PROVE IsFiniteSet(Of(i))
  <2> DEFINE n == Len(known[i].parents)
  <2>1. IsFiniteSet(0 .. n) /\ IsFiniteSet({i})
    <3>1. n \in Int
      BY <1>1
    <3> HIDE DEF n
    <3>2. IsFiniteSet(0 .. n)
      BY <3>1, FS_Interval
    <3> QED BY <3>2, FS_Singleton
  <2>2. Of(i) \subseteq {i} \X (0 .. n)
    OBVIOUS
  <2>3. IsFiniteSet({i} \X (0 .. n))
    BY <2>1, FS_Product
  <2> HIDE DEF Of
  <2> QED BY <2>2, <2>3, FS_Subset
<1>4. IsFiniteSet(sets)
  <2> DEFINE f == [i \in DOMAIN known |-> Of(i)]
  <2>1. IsFiniteSet(DOMAIN known)
    BY <1>1, FS_Interval DEF IsArray
  <2>2. DOMAIN f = DOMAIN known /\ sets = {f[i] : i \in DOMAIN known}
    OBVIOUS
  <2> HIDE DEF f, known, sets
  <2> QED BY <2>1, <2>2, ImageIsFinite
<1>5. IsFiniteSet(UNION sets)
  <2>1. \A T \in sets : IsFiniteSet(T)
    BY <1>3
  <2> HIDE DEF sets
  <2> QED BY <1>4, <2>1, FS_UNION
<1>6. IsFiniteSet(own \cup UNION sets)
  <2> HIDE DEF own, sets
  <2> QED BY <1>2, <1>5, FS_Union
<1>7. ChainRounds(known, child) = Cardinality(own \cup UNION sets)
  BY DEF ChainRounds
<1> HIDE DEF own, sets
<1> QED BY <1>6, <1>7, FS_CardinalityType

WalkRun(known, start, w, n) == w = [k \in 0 .. n |-> IF k = 0 THEN start ELSE Walk(known, w[k - 1])]

WalkStart(child, memo) ==
    Walked(<<[node |-> child, index |-> 1]>>, memo.open \cup {child.id}, memo.done \ {child.id})

LEMMA WalkRuns ==
  ASSUME NEW known, NEW child, NEW memo, ChainRounds(known, child) \in Nat
  PROVE  \E w : /\ DelegationChain(known, child, memo) = w[ChainRounds(known, child)]
                /\ w[0] = WalkStart(child, memo)
                /\ \A k \in 1 .. ChainRounds(known, child) : w[k] = Walk(known, w[k - 1])
<1> DEFINE n == ChainRounds(known, child)
           start == WalkStart(child, memo)
           T == {m \in Nat : \E w : WalkRun(known, start, w, m)}
<1>1. n \in Nat
  OBVIOUS
<1>2. 0 \in T
  <2>1. WalkRun(known, start, [k \in 0 .. 0 |-> start], 0)
    BY DEF WalkRun
  <2> QED BY <2>1
<1>3. ASSUME NEW m \in T PROVE m + 1 \in T
  <2>1. PICK w : WalkRun(known, start, w, m)
    OBVIOUS
  <2> DEFINE v == [k \in 0 .. m + 1 |-> IF k \in 0 .. m THEN w[k] ELSE Walk(known, w[m])]
  <2> HIDE DEF start
  <2>2. \A k \in 0 .. m : w[k] = IF k = 0 THEN start ELSE Walk(known, w[k - 1])
    BY <2>1 DEF WalkRun
  <2>3. \A k \in 0 .. m + 1 : v[k] = IF k = 0 THEN start ELSE Walk(known, v[k - 1])
    <3>1. m \in Nat
      OBVIOUS
    <3> HIDE DEF T
    <3>2. \A k \in 0 .. m : v[k] = w[k]
      BY <3>1
    <3>3. v[m + 1] = Walk(known, w[m])
      BY <3>1
    <3> HIDE DEF v
    <3>4. \A k \in 0 .. m + 1 : k \in 0 .. m \/ (k = m + 1 /\ k # 0 /\ k - 1 = m)
      BY <3>1
    <3>5. \A k \in 0 .. m : k = 0 \/ k - 1 \in 0 .. m
      BY <3>1
    <3>6. m \in 0 .. m
      BY <3>1
    <3> QED BY <2>2, <3>2, <3>3, <3>4, <3>5, <3>6
  <2>4. WalkRun(known, start, v, m + 1)
    BY <2>3 DEF WalkRun
  <2> QED BY <2>4
<1> HIDE DEF n
<1>4. n \in T
  <2> HIDE DEF T
  <2>1. T \subseteq Nat
    BY DEF T
  <2> QED BY <1>1, <1>2, <1>3, <2>1, Induction
<1> DEFINE after == CHOOSE w : WalkRun(known, start, w, n)
<1>5. WalkRun(known, start, after, n)
  <2> HIDE DEF start
  <2> QED BY <1>4
<1>6. DelegationChain(known, child, memo) = after[n]
  BY DEF DelegationChain, Loop, WalkRun, WalkStart, n
<1> HIDE DEF after, start
<1>7. \A k \in 0 .. n : after[k] = IF k = 0 THEN start ELSE Walk(known, after[k - 1])
  BY <1>5 DEF WalkRun
<1>8. after[0] = start /\ \A k \in 1 .. n : after[k] = Walk(known, after[k - 1])
  BY <1>1, <1>7
<1> QED BY <1>6, <1>8 DEF n, start

\* Of the walk: a parent is carried, the link to it holds, and its id was entered.
Linked(known, d, p, ids) == Carries(known, p) /\ LinkValid(Find(known, p), d) /\ p \in ids

Settled(known, d, ids) == \A k \in DOMAIN d.parents : Linked(known, d, d.parents[k], ids)

Entered(s) == s.done \cup {s.stack[i].node.id : i \in DOMAIN s.stack}

Frames(known, child) == [node : {child} \cup Elements(known), index : Nat \ {0}]

\* What was left, with what was seen of the frames, has its parents among what was entered.
WalkInvariant(known, child, s) ==
    /\ "valid" \in DOMAIN s
    /\ s.valid =>
          /\ s.stack \in Seq(Frames(known, child))
          /\ \A x \in s.done : Carries(known, x) => Settled(known, Find(known, x), Entered(s))
          /\ \A i \in DOMAIN s.stack : \A k \in 1 .. s.stack[i].index - 1 :
                Linked(known, s.stack[i].node, s.stack[i].node.parents[k], Entered(s))
          /\ child.id \in Entered(s)
          /\ s.stack = <<>> => Settled(known, child, Entered(s))
          /\ s.stack # <<>> => s.stack[1].node = child

\* The delegations that are walked over: an id has one content.
Walkable(known, child) ==
    /\ \A d \in {child} \cup Elements(known) : IsArray(d.parents)
    /\ \A d \in Elements(known) : Find(known, d.id) = d
    /\ \A c, d \in {child} \cup Elements(known) : c.id = d.id => DelegationContent(c) = DelegationContent(d)

LEMMA SettledAlike ==
  ASSUME NEW known, NEW c, NEW d, DelegationContent(c) = DelegationContent(d), NEW ids, Settled(known, c, ids)
  PROVE  Settled(known, d, ids)
<1>1. /\ c.parents = d.parents /\ c.scope = d.scope /\ c.from = d.from /\ c.until = d.until
      /\ c.tenant = d.tenant /\ c.site = d.site /\ c.use = d.use /\ c.invocation = d.invocation
  BY DEF DelegationContent
<1>2. \A p : LinkValid(p, c) <=> LinkValid(p, d)
  BY <1>1 DEF LinkValid
<1> QED BY <1>1, <1>2 DEF Settled, Linked

LEMMA EmptyIsLengthZero ==
  ASSUME NEW F, NEW S \in Seq(F)
  PROVE  S = <<>> <=> Len(S) = 0
OBVIOUS

\* The frame on top of the stack, the parent that it is at, and the stack that is past it.
Top(s) == s.stack[Len(s.stack)]
Sought(s) == Top(s).node.parents[Top(s).index]
Raised(s) == [s.stack EXCEPT ![Len(s.stack)].index = Top(s).index + 1]

LEMMA TopType ==
  ASSUME NEW known, NEW child, NEW s, WalkInvariant(known, child, s), s.valid, s.stack # <<>>
  PROVE  /\ s.stack \in Seq(Frames(known, child))
         /\ Len(s.stack) \in Nat \ {0} /\ DOMAIN s.stack = 1 .. Len(s.stack)
         /\ Top(s) = [node |-> Top(s).node, index |-> Top(s).index]
         /\ Top(s).node \in {child} \cup Elements(known) /\ Top(s).index \in Nat \ {0}
         /\ s.stack[1].node = child
<1> DEFINE F == Frames(known, child)
           stack == s.stack
<1>1. stack \in Seq(F) /\ stack # <<>> /\ stack[1].node = child
  BY DEF WalkInvariant
<1>2. Len(stack) \in Nat \ {0} /\ DOMAIN stack = 1 .. Len(stack) /\ stack[Len(stack)] \in F
  <2> HIDE DEF F, stack
  <2> QED BY <1>1
<1>3. Top(s) \in F
  BY <1>2 DEF Top
<1>4. \A f \in F : f = [node |-> f.node, index |-> f.index]
                   /\ f.node \in {child} \cup Elements(known) /\ f.index \in Nat \ {0}
  BY DEF Frames
<1> HIDE DEF F, stack
<1>5. Top(s) = [node |-> Top(s).node, index |-> Top(s).index]
      /\ Top(s).node \in {child} \cup Elements(known) /\ Top(s).index \in Nat \ {0}
  BY <1>3, <1>4
<1> QED BY <1>1, <1>2, <1>5 DEF F, stack

LEMMA RaisedHolds ==
  ASSUME NEW known, NEW child, NEW s, WalkInvariant(known, child, s), s.valid, s.stack # <<>>
  PROVE  /\ Raised(s) \in Seq(Frames(known, child)) /\ Len(Raised(s)) = Len(s.stack)
         /\ \A i \in 1 .. Len(s.stack) : i # Len(s.stack) => Raised(s)[i] = s.stack[i]
         /\ Raised(s)[Len(s.stack)] = [node |-> Top(s).node, index |-> Top(s).index + 1]
<1> DEFINE F == Frames(known, child)
           raised == [node |-> Top(s).node, index |-> Top(s).index + 1]
           n == Len(s.stack)
<1>1. s.stack \in Seq(F) /\ n \in Nat \ {0} /\ Top(s) = [node |-> Top(s).node, index |-> Top(s).index]
      /\ Top(s).node \in {child} \cup Elements(known) /\ Top(s).index \in Nat \ {0}
  BY TopType
<1>2. raised \in F
  BY <1>1 DEF Frames
<1>3. [Top(s) EXCEPT !.index = Top(s).index + 1] = raised
  BY <1>1
<1>4. Raised(s) = [s.stack EXCEPT ![n] = [Top(s) EXCEPT !.index = Top(s).index + 1]]
  BY DEF Raised, Top
<1>5. Raised(s) = [s.stack EXCEPT ![n] = raised]
  BY <1>3, <1>4
<1> DEFINE A == s.stack
<1> HIDE DEF F, raised, A
<1>6. [A EXCEPT ![Len(A)] = raised] \in Seq(F) /\ Len([A EXCEPT ![Len(A)] = raised]) = Len(A)
      /\ (\A i \in 1 .. Len(A) : i # Len(A) => [A EXCEPT ![Len(A)] = raised][i] = A[i])
      /\ [A EXCEPT ![Len(A)] = raised][Len(A)] = raised
  <2>1. A \in Seq(F) /\ Len(A) \in Nat \ {0}
    BY <1>1 DEF A
  <2> QED BY <1>2, <2>1
<1> QED BY <1>5, <1>6 DEF A, F, raised

\* The invariant, conjunct by conjunct.
LEMMA WalkKept ==
  ASSUME NEW known, NEW child, NEW t, "valid" \in DOMAIN t,
         t.stack \in Seq(Frames(known, child)), child.id \in Entered(t),
         t.stack = <<>> => Settled(known, child, Entered(t)),
         t.stack # <<>> => t.stack[1].node = child,
         \A x \in t.done : Carries(known, x) => Settled(known, Find(known, x), Entered(t)),
         \A i \in DOMAIN t.stack : \A k \in 1 .. t.stack[i].index - 1 :
            Linked(known, t.stack[i].node, t.stack[i].node.parents[k], Entered(t))
  PROVE  WalkInvariant(known, child, t)
BY Zenon DEF WalkInvariant

\* A frame whose parents have all been seen is left.
LEMMA WalkLeaves ==
  ASSUME NEW known, NEW child, Walkable(known, child), NEW s, WalkInvariant(known, child, s),
         s.valid, s.stack # <<>>, Top(s).index > Len(Top(s).node.parents),
         NEW t, "valid" \in DOMAIN t, NEW after, after = SubSeq(s.stack, 1, Len(s.stack) - 1),
         t.stack = after, t.done = s.done \cup {Top(s).node.id}
  PROVE  WalkInvariant(known, child, t)
<1> DEFINE F == Frames(known, child)
           A == s.stack
           n == Len(A)
<1>1. /\ A \in Seq(F) /\ n \in Nat \ {0} /\ DOMAIN A = 1 .. n /\ A[1].node = child
      /\ Top(s).node \in {child} \cup Elements(known) /\ Top(s).index \in Nat \ {0}
  BY TopType
<1>2. /\ after \in Seq(F) /\ Len(after) = n - 1 /\ DOMAIN after = 1 .. n - 1
      /\ \A i \in 1 .. n - 1 : after[i] = A[i]
  <2>1. after = SubSeq(A, 1, n - 1)
    OBVIOUS
  <2> HIDE DEF F, A
  <2> QED BY <1>1, <2>1
<1>3. t.stack = after /\ t.done = s.done \cup {Top(s).node.id}
  OBVIOUS
<1>4. Entered(s) = Entered(t)
  <2>1. \A i \in 1 .. n : i \in 1 .. n - 1 \/ i = n
    BY <1>1
  <2>2. 1 .. n - 1 \subseteq 1 .. n /\ n \in 1 .. n
    BY <1>1
  <2> HIDE DEF n
  <2>3. \A x : x \in {A[i].node.id : i \in 1 .. n} <=> x \in {after[i].node.id : i \in 1 .. n - 1} \/ x = A[n].node.id
    BY <1>2, <2>1, <2>2
  <2>4. Top(s) = A[n]
    BY DEF Top, n
  <2>5. Entered(s) = s.done \cup {A[i].node.id : i \in 1 .. n}
    BY <1>1 DEF Entered
  <2> DEFINE left == {after[i].node.id : i \in DOMAIN after}
  <2>6. Entered(t) = s.done \cup {A[n].node.id} \cup left
    <3>1. Entered(t) = t.done \cup {t.stack[i].node.id : i \in DOMAIN t.stack}
      BY DEF Entered
    <3>2. {t.stack[i].node.id : i \in DOMAIN t.stack} = left
      BY <1>3
    <3> HIDE DEF left, A
    <3> QED BY <1>3, <2>4, <3>1, <3>2
  <2>7. left = {after[i].node.id : i \in 1 .. n - 1}
    BY <1>2
  <2> HIDE DEF A, left
  <2> QED BY <2>3, <2>5, <2>6, <2>7
<1>5. Settled(known, Top(s).node, Entered(s))
  <2>1. DOMAIN Top(s).node.parents = 1 .. Len(Top(s).node.parents) /\ Len(Top(s).node.parents) \in Nat
    BY <1>1 DEF Walkable, IsArray
  <2>2. \A k \in DOMAIN Top(s).node.parents : k \in 1 .. Top(s).index - 1
    BY <1>1, <2>1
  <2>3. n \in DOMAIN A /\ Top(s) = A[n]
    BY <1>1 DEF Top
  <2>4. \A k \in 1 .. Top(s).index - 1 : Linked(known, Top(s).node, Top(s).node.parents[k], Entered(s))
    BY <2>3 DEF WalkInvariant
  <2> QED BY <2>2, <2>4 DEF Settled
<1>6. ASSUME NEW x \in t.done, Carries(known, x)
      PROVE  Settled(known, Find(known, x), Entered(t))
  <2>1. CASE x \in s.done
    BY <1>4, <1>6, <2>1 DEF WalkInvariant
  <2>2. CASE x = Top(s).node.id
    <3>1. Find(known, x) \in Elements(known) /\ Find(known, x).id = x
      BY <1>6, Found DEF Elements
    <3>2. DelegationContent(Top(s).node) = DelegationContent(Find(known, x))
      BY <1>1, <2>2, <3>1 DEF Walkable
    <3> QED BY <1>4, <1>5, <3>2, SettledAlike
  <2> QED BY <1>3, <1>6, <2>1, <2>2
<1>7. ASSUME NEW i \in DOMAIN after, NEW k \in 1 .. after[i].index - 1
      PROVE  Linked(known, after[i].node, after[i].node.parents[k], Entered(t))
  <2>1. i \in DOMAIN s.stack /\ after[i] = s.stack[i]
    BY <1>1, <1>2
  <2> QED BY <1>4, <1>7, <2>1 DEF WalkInvariant
<1>8. child.id \in Entered(t)
  BY <1>4 DEF WalkInvariant
<1>9. after = <<>> => Settled(known, child, Entered(t))
  <2>1. ASSUME after = <<>> PROVE n = 1
    <3> HIDE DEF n, F
    <3>1. Len(after) = 0
      BY <1>2, <2>1, EmptyIsLengthZero
    <3> QED BY <1>1, <1>2, <3>1
  <2>2. n = 1 => Top(s).node = child
    BY <1>1 DEF Top
  <2> HIDE DEF n
  <2> QED BY <1>4, <1>5, <2>1, <2>2
<1>10. after # <<>> => after[1].node = child
  <2>1. ASSUME after # <<>> PROVE 1 \in 1 .. n - 1
    <3>1. Len(after) # 0
      <4> HIDE DEF F, n
      <4> QED BY <1>2, <2>1, EmptyIsLengthZero
    <3> HIDE DEF F, n
    <3> QED BY <1>1, <1>2, <3>1
  <2> QED BY <1>1, <1>2, <2>1
<1> HIDE DEF F
<1>11. /\ t.stack \in Seq(F) /\ child.id \in Entered(t)
       /\ t.stack = <<>> => Settled(known, child, Entered(t))
       /\ t.stack # <<>> => t.stack[1].node = child
  BY <1>2, <1>3, <1>8, <1>9, <1>10
<1>12. \A x \in t.done : Carries(known, x) => Settled(known, Find(known, x), Entered(t))
  BY <1>6
<1>13. \A i \in DOMAIN t.stack : \A k \in 1 .. t.stack[i].index - 1 :
         Linked(known, t.stack[i].node, t.stack[i].node.parents[k], Entered(t))
  BY <1>3, <1>7
<1> QED BY <1>11, <1>12, <1>13, WalkKept DEF F

\* A parent to which the link holds is entered, or was left before.
LEMMA WalkEnters ==
  ASSUME NEW known, NEW child, Walkable(known, child), NEW s, WalkInvariant(known, child, s),
         s.valid, s.stack # <<>>, Top(s).index <= Len(Top(s).node.parents),
         Carries(known, Sought(s)), LinkValid(Find(known, Sought(s)), Top(s).node),
         NEW t, "valid" \in DOMAIN t, NEW after, t.stack = after, t.done = s.done,
         \/ Sought(s) \in s.done /\ after = Raised(s)
         \/ after = Append(Raised(s), [node |-> Find(known, Sought(s)), index |-> 1])
  PROVE  WalkInvariant(known, child, t)
<1> DEFINE F == Frames(known, child)
           A == s.stack
           n == Len(A)
           top == [node |-> Find(known, Sought(s)), index |-> 1]
<1>1. /\ A \in Seq(F) /\ n \in Nat \ {0} /\ DOMAIN A = 1 .. n /\ A[1].node = child /\ A[n] = Top(s)
      /\ Top(s).node \in {child} \cup Elements(known) /\ Top(s).index \in Nat \ {0}
  <2>1. /\ A \in Seq(F) /\ n \in Nat \ {0} /\ DOMAIN A = 1 .. n /\ A[1].node = child
        /\ Top(s).node \in {child} \cup Elements(known) /\ Top(s).index \in Nat \ {0}
    BY TopType
  <2>2. A[n] = Top(s)
    BY DEF Top
  <2> HIDE DEF A, n, F
  <2> QED BY <2>1, <2>2
<1>2. /\ Raised(s) \in Seq(F) /\ Len(Raised(s)) = n
      /\ \A i \in 1 .. n : i # n => Raised(s)[i] = A[i]
      /\ Raised(s)[n] = [node |-> Top(s).node, index |-> Top(s).index + 1]
  BY RaisedHolds
<1>3. Find(known, Sought(s)) \in Elements(known) /\ Find(known, Sought(s)).id = Sought(s)
  BY Found DEF Elements
<1>4. top \in F
  BY <1>3 DEF Frames
<1>5. t.stack = after /\ t.done = s.done
  OBVIOUS
<1> HIDE DEF F, A, n, top
<1>6. /\ after \in Seq(F) /\ 1 \in DOMAIN after /\ after # <<>>
      /\ \A i \in DOMAIN after : (i \in 1 .. n /\ after[i] = Raised(s)[i]) \/ after[i] = top
      /\ \A i \in 1 .. n : i \in DOMAIN after /\ after[i] = Raised(s)[i]
      /\ Sought(s) \in s.done \/ \E i \in DOMAIN after : after[i] = top
  <2>1. CASE Sought(s) \in s.done /\ after = Raised(s)
    <3>1. DOMAIN Raised(s) = 1 .. n /\ 1 \in 1 .. n /\ Raised(s) # <<>>
      BY <1>1, <1>2
    <3> QED BY <1>2, <2>1, <3>1
  <2>2. CASE after = Append(Raised(s), top)
    <3>1. /\ after \in Seq(F) /\ Len(after) = n + 1 /\ DOMAIN after = 1 .. n + 1 /\ after # <<>>
          /\ after[n + 1] = top /\ \A i \in 1 .. n : after[i] = Raised(s)[i]
      BY <1>1, <1>2, <1>4, <2>2
    <3>2. \A i \in 1 .. n + 1 : i \in 1 .. n \/ i = n + 1
      BY <1>1
    <3>3. n + 1 \in 1 .. n + 1 /\ 1 \in 1 .. n + 1 /\ 1 .. n \subseteq 1 .. n + 1
      BY <1>1
    <3> QED BY <3>1, <3>2, <3>3
  <2> QED BY <2>1, <2>2 DEF top
<1>7. Entered(s) \subseteq Entered(t) /\ Sought(s) \in Entered(t)
  <2>1. \A i \in 1 .. n : Raised(s)[i].node = A[i].node
    BY <1>1, <1>2
  <2>2. \A i \in DOMAIN A : i \in DOMAIN after /\ after[i].node = A[i].node
    BY <1>1, <1>6, <2>1
  <2>3. Entered(s) \subseteq Entered(t)
    BY <1>5, <2>2 DEF Entered, A
  <2>4. top.node.id = Sought(s)
    BY <1>3 DEF top
  <2>5. Sought(s) \in Entered(t)
    BY <1>5, <1>6, <2>4 DEF Entered
  <2> QED BY <2>3, <2>5
<1>8. ASSUME NEW x \in s.done, Carries(known, x)
      PROVE  Settled(known, Find(known, x), Entered(t))
  <2>1. Settled(known, Find(known, x), Entered(s))
    BY <1>8 DEF WalkInvariant
  <2> QED BY <1>7, <2>1 DEF Settled, Linked
<1>9. ASSUME NEW i \in DOMAIN after, NEW k \in 1 .. after[i].index - 1
      PROVE  Linked(known, after[i].node, after[i].node.parents[k], Entered(t))
  <2>1. CASE after[i] = top
    BY <1>9, <2>1 DEF top
  <2>2. CASE i \in 1 .. n /\ after[i] = Raised(s)[i] /\ i # n
    <3>1. after[i] = A[i] /\ i \in DOMAIN A
      BY <1>1, <1>2, <2>2
    <3>2. Linked(known, A[i].node, A[i].node.parents[k], Entered(s))
      BY <1>9, <3>1 DEF WalkInvariant, A
    <3> QED BY <1>7, <3>1, <3>2 DEF Linked
  <2>3. CASE after[i] = Raised(s)[i] /\ i = n
    <3>1. after[i].node = Top(s).node /\ after[i].index = Top(s).index + 1
      BY <1>2, <2>3
    <3>2. k \in 1 .. Top(s).index - 1 \/ k = Top(s).index
      BY <1>1, <1>9, <3>1
    <3>3. CASE k \in 1 .. Top(s).index - 1
      <4>1. n \in DOMAIN A
        BY <1>1
      <4>2. Linked(known, Top(s).node, Top(s).node.parents[k], Entered(s))
        BY <1>1, <3>3, <4>1 DEF WalkInvariant, A
      <4> QED BY <1>7, <3>1, <4>2 DEF Linked
    <3>4. CASE k = Top(s).index
      BY <1>7, <3>1, <3>4 DEF Linked, Sought
    <3> QED BY <3>2, <3>3, <3>4
  <2> QED BY <1>6, <2>1, <2>2, <2>3
<1>10. child.id \in Entered(t)
  BY <1>7 DEF WalkInvariant
<1>11. after[1].node = child
  <2>1. 1 \in 1 .. n /\ \A i \in 1 .. n : Raised(s)[i].node = A[i].node
    BY <1>1, <1>2
  <2> QED BY <1>1, <1>6, <2>1
<1>12. /\ t.stack \in Seq(F) /\ child.id \in Entered(t)
       /\ t.stack = <<>> => Settled(known, child, Entered(t))
       /\ t.stack # <<>> => t.stack[1].node = child
  BY <1>5, <1>6, <1>10, <1>11
<1>13. \A x \in t.done : Carries(known, x) => Settled(known, Find(known, x), Entered(t))
  BY <1>5, <1>8
<1>14. \A i \in DOMAIN t.stack : \A k \in 1 .. t.stack[i].index - 1 :
         Linked(known, t.stack[i].node, t.stack[i].node.parents[k], Entered(t))
  BY <1>5, <1>9
<1> QED BY <1>12, <1>13, <1>14, WalkKept DEF F

\* What is read of a state of the walk.
LEMMA WalkedFields ==
  ASSUME NEW stack, NEW open, NEW done
  PROVE  LET t == Walked(stack, open, done) IN t.stack = stack /\ t.done = done /\ "valid" \in DOMAIN t
BY DEF Walked

\* One round of the loop of chainValid().
LEMMA WalkStep ==
  ASSUME NEW known, NEW child, Walkable(known, child), NEW s, WalkInvariant(known, child, s)
  PROVE  WalkInvariant(known, child, Walk(known, s))
<1> DEFINE t == Walk(known, s)
<1>1. CASE s.stack = <<>> \/ ~s.valid
  BY <1>1 DEF Walk
<1>2. CASE s.valid /\ s.stack # <<>> /\ Top(s).index > Len(Top(s).node.parents)
  <2>1. t = Walked(SubSeq(s.stack, 1, Len(s.stack) - 1), s.open \ {Top(s).node.id}, s.done \cup {Top(s).node.id})
    BY <1>2 DEF Walk, Top
  <2> HIDE DEF t
  <2>2. /\ t.stack = SubSeq(s.stack, 1, Len(s.stack) - 1) /\ t.done = s.done \cup {Top(s).node.id}
        /\ "valid" \in DOMAIN t
    <3> DEFINE stack == SubSeq(s.stack, 1, Len(s.stack) - 1)
               open == s.open \ {Top(s).node.id}
               done == s.done \cup {Top(s).node.id}
    <3>1. t = Walked(stack, open, done)
      BY <2>1
    <3> HIDE DEF stack, open, done
    <3>2. t.stack = stack /\ t.done = done /\ "valid" \in DOMAIN t
      BY <3>1, WalkedFields
    <3> QED BY <3>2 DEF stack, done
  <2>3. WalkInvariant(known, child, t)
    BY <1>2, <2>2, WalkLeaves
  <2> QED BY <2>3 DEF t
<1>3. CASE /\ s.valid /\ s.stack # <<>> /\ ~(Top(s).index > Len(Top(s).node.parents))
           /\ ~Carries(known, Sought(s)) \/ ~LinkValid(Find(known, Sought(s)), Top(s).node) \/ Sought(s) \in s.open
  <2>1. t = [s EXCEPT !.valid = FALSE]
    BY <1>3 DEF Walk, Top, Sought
  <2>2. "valid" \in DOMAIN t /\ t.valid = FALSE
    BY <2>1 DEF WalkInvariant
  <2> HIDE DEF t
  <2>3. WalkInvariant(known, child, t)
    BY <2>2 DEF WalkInvariant
  <2> QED BY <2>3 DEF t
<1>4. CASE /\ s.valid /\ s.stack # <<>> /\ ~(Top(s).index > Len(Top(s).node.parents))
           /\ Carries(known, Sought(s)) /\ LinkValid(Find(known, Sought(s)), Top(s).node)
           /\ Sought(s) \notin s.open
  <2>1. Top(s).index <= Len(Top(s).node.parents)
    <3>1. Top(s).node \in {child} \cup Elements(known) /\ Top(s).index \in Nat
      BY <1>4, TopType
    <3>2. IsArray(Top(s).node.parents)
      BY <3>1 DEF Walkable
    <3> QED BY <1>4, <3>1, <3>2 DEF IsArray
  <2>2. CASE Sought(s) \in s.done
    <3>1. t = Walked(Raised(s), s.open, s.done)
      BY <1>4, <2>2 DEF Walk, Top, Sought, Raised
    <3> HIDE DEF t
    <3>2. t.stack = Raised(s) /\ t.done = s.done /\ "valid" \in DOMAIN t
      BY <3>1, WalkedFields
    <3>3. WalkInvariant(known, child, t)
      BY <1>4, <2>1, <2>2, <3>2, WalkEnters
    <3> QED BY <3>3 DEF t
  <2>3. CASE Sought(s) \notin s.done
    <3> DEFINE after == Append(Raised(s), [node |-> Find(known, Sought(s)), index |-> 1])
    <3>1. t = Walked(after, s.open \cup {Sought(s)}, s.done)
      BY <1>4, <2>3 DEF Walk, Top, Sought, Raised
    <3> HIDE DEF t
    <3> HIDE DEF after
    <3>2. t.stack = after /\ t.done = s.done /\ "valid" \in DOMAIN t
      BY <3>1, WalkedFields
    <3>3. WalkInvariant(known, child, t)
      BY <1>4, <2>1, <3>2, WalkEnters DEF after
    <3> QED BY <3>3 DEF t
  <2> QED BY <2>2, <2>3
<1> QED BY <1>1, <1>2, <1>3, <1>4, Zenon

\* What is known of the chains: every parent of what was left was left, and its link holds.
MemoHolds(known, done) == \A x \in done : Carries(known, x) => Settled(known, Find(known, x), done)

\* A chain that is valid has all of its links, and leaves no less known than before.
LEMMA ChainHolds ==
  ASSUME NEW known, NEW child, Walkable(known, child), ChainRounds(known, child) \in Nat,
         NEW memo, MemoHolds(known, memo.done),
         ChainValid(DelegationChain(known, child, memo))
  PROVE  LET done == DelegationChain(known, child, memo).done
         IN /\ MemoHolds(known, done) /\ Settled(known, child, done) /\ child.id \in done
<1> DEFINE start == WalkStart(child, memo)
           chain == DelegationChain(known, child, memo)
           n == ChainRounds(known, child)
<1>2. WalkInvariant(known, child, start)
  <2>2. start.stack = <<[node |-> child, index |-> 1]>> /\ start.done = memo.done \ {child.id} /\ "valid" \in DOMAIN start
    BY DEF WalkStart, Walked
  <2> HIDE DEF start
  <2>3. start.stack \in Seq(Frames(known, child))
    BY <2>2 DEF Frames
  <2>4. DOMAIN start.stack = {1} /\ start.stack # <<>> /\ start.stack[1] = [node |-> child, index |-> 1]
    BY <2>2
  <2>5. Entered(start) = memo.done \cup {child.id}
    BY <2>2, <2>4 DEF Entered
  <2>6. ASSUME NEW x \in start.done, Carries(known, x)
        PROVE  Settled(known, Find(known, x), Entered(start))
    BY <2>2, <2>5, <2>6 DEF MemoHolds, Settled, Linked
  <2>7. \A i \in DOMAIN start.stack : \A k \in 1 .. start.stack[i].index - 1 :
          Linked(known, start.stack[i].node, start.stack[i].node.parents[k], Entered(start))
    BY <2>4
  <2>8. child.id \in Entered(start)
    BY <2>5
  <2>9. \A x \in start.done : Carries(known, x) => Settled(known, Find(known, x), Entered(start))
    BY <2>6
  <2>10. "valid" \in DOMAIN start /\ start.stack # <<>> /\ start.stack[1].node = child
    BY <2>2, <2>4
  <2>11. start.stack = <<>> => Settled(known, child, Entered(start))
    BY <2>10
  <2> HIDE DEF start
  <2> QED BY <2>3, <2>7, <2>8, <2>9, <2>10, <2>11, WalkKept
<1>1. \E after : /\ chain = after[n] /\ after[0] = start
                 /\ \A k \in 1 .. n : after[k] = Walk(known, after[k - 1])
  BY WalkRuns
<1>3. PICK after : /\ chain = after[n] /\ n \in Nat /\ after[0] = start
                   /\ \A k \in 1 .. n : after[k] = Walk(known, after[k - 1])
  BY <1>1
<1> HIDE DEF n, chain
<1> DEFINE T == {k \in Nat : k <= n => WalkInvariant(known, child, after[k])}
<1>4. 0 \in T
  BY <1>2, <1>3
<1>5. ASSUME NEW k \in Nat, k \in T PROVE k + 1 \in T
  <2>1. SUFFICES ASSUME k + 1 <= n PROVE WalkInvariant(known, child, after[k + 1])
    OBVIOUS
  <2>2. WalkInvariant(known, child, after[k])
    BY <1>3, <1>5, <2>1
  <2>3. after[k + 1] = Walk(known, after[k])
    <3>1. k + 1 \in 1 .. n /\ (k + 1) - 1 = k
      BY <1>3, <2>1
    <3> QED BY <1>3, <3>1
  <2> QED BY <2>2, <2>3, WalkStep
<1>6. n \in T
  <2>1. T \subseteq Nat
    OBVIOUS
  <2> HIDE DEF T
  <2> QED BY <1>3, <1>4, <1>5, <2>1, Induction
<1>7. WalkInvariant(known, child, chain)
  BY <1>3, <1>6
<1>8. chain.valid /\ chain.stack = <<>>
  BY DEF ChainValid, chain
<1>9. Entered(chain) = chain.done
  BY <1>8 DEF Entered
<1>10. MemoHolds(known, chain.done) /\ Settled(known, child, chain.done) /\ child.id \in chain.done
  BY <1>7, <1>8, <1>9 DEF WalkInvariant, MemoHolds
<1> QED BY <1>10 DEF chain

-----------------------------------------------------------------------------
(* Authority. *)

\* What is asked of a dispatch but for the chain.
LEMMA DominatedHolds ==
  ASSUME NEW b, Accepted(b), NEW d \in Dispatches(b)
  PROVE  LET a == Attempt(b, d)
             g == Authorization(b, a).body.delegation
         IN Permits(g, a) /\ NamesSigner(b, g, a)
<1> DEFINE a == Attempt(b, d)
           body == Authorization(b, a).body
           g == body.delegation
           named == Require(body.decision.delegation = g.id, "graph/dominator-missing")
           signer == Require(NamesSigner(b, g, a), "delegation/scope")
           covers == Require(Covers(g, body.decision, a), "delegation/scope")
           begun == Require(a.at >= g.from, "delegation/not-yet-valid")
           ended == Require(a.at < g.until, "delegation/expired")
<1>1. (Dominator(b, d) ?? (named ?? signer ?? covers ?? begun ?? ended)) = OK
  BY DispatchJudged, Zenon DEF Dominated
<1>2. signer = OK /\ covers = OK /\ begun = OK /\ ended = OK
  <2> HIDE DEF named, signer, covers, begun, ended
  <2> QED BY <1>1, Then
<1>3. NamesSigner(b, g, a) /\ Covers(g, body.decision, a) /\ a.at >= g.from /\ a.at < g.until
  BY <1>2 DEF Require, OK
<1>4. a.at \in Int /\ g.from \in Int
  <2>1. a \in Elements(b.receipts)
    BY AttemptOf
  <2>2. g \in Embedded(b)
    BY AttemptOf DEF Embedded
  <2> HIDE DEF a, g
  <2> QED BY <2>1, <2>2 DEF Accepted, HasIntegers
<1> HIDE DEF a, g
<1>5. g.from <= a.at
  BY <1>3, <1>4
<1> QED BY <1>3, <1>5 DEF Permits, Covers, a, g

\* What a delegation permits, each one that it descends from permits.
LEMMA LinkPermits ==
  ASSUME NEW parent, NEW child, NEW a, LinkValid(parent, child), Permits(child, a),
         {parent.from, parent.until, child.from, child.until, a.at} \subseteq Int
  PROVE  Permits(parent, a)
<1>1. /\ child.from <= a.at /\ a.at < child.until
      /\ a.body.action.name \in child.scope.actions
      /\ a.body.action.target \in child.scope.targets
      /\ a.purpose \in child.scope.purposes
      /\ child.tenant = a.tenant /\ child.site = a.site
  BY DEF Permits
<1>2. parent.from <= child.from /\ parent.until >= child.until
  BY DEF LinkValid
<1>3. parent.from <= a.at /\ a.at < parent.until
  BY <1>1, <1>2
<1>4. \A name \in {"actions", "targets", "purposes", "profiles"} : child.scope[name] \subseteq parent.scope[name]
  BY DEF LinkValid, ScopeLists
<1>5. /\ child.scope.actions \subseteq parent.scope.actions
      /\ child.scope.targets \subseteq parent.scope.targets
      /\ child.scope.purposes \subseteq parent.scope.purposes
  BY <1>4
<1>6. parent.tenant = child.tenant /\ parent.site = child.site
  BY DEF LinkValid
<1> QED BY <1>1, <1>3, <1>5, <1>6 DEF Permits

LEMMA DelegationsWalkable ==
  ASSUME NEW b, Accepted(b), NEW child \in Embedded(b)
  PROVE  Walkable(b.delegations, child) /\ ChainRounds(b.delegations, child) \in Nat
<1>1. \A d \in {child} \cup Elements(b.delegations) : IsArray(d.parents)
  BY DEF Accepted, HasArrays
<1>2. \A d \in Elements(b.delegations) : Find(b.delegations, d.id) = d
  BY FoundThere
<1>3. \A c, d \in {child} \cup Elements(b.delegations) : c.id = d.id => DelegationContent(c) = DelegationContent(d)
  BY DelegationsAgree
<1>4. HasArrays(b)
  BY DEF Accepted
<1> QED BY <1>1, <1>2, <1>3, <1>4, ChainRoundsType DEF Walkable

\* The chain of every dispatch has all of its links, over what is known after it: step 13.
LEMMA ChainsHold ==
  ASSUME NEW b, Accepted(b), NEW d \in Dispatches(b)
  PROVE  LET g == Authorization(b, Attempt(b, d)).body.delegation
         IN \E done : MemoHolds(b.delegations, done) /\ Settled(b.delegations, g, done)
<1> DEFINE n == Len(b.receipts)
           known == b.delegations
           G(r) == Authorization(b, Attempt(b, r)).body.delegation
           Chain(i, memo) == DelegationChain(known, G(b.receipts[i]), memo)
<1>1. PICK w : DominanceRun(b, w, n) /\ Dominance(b) = w[n].issue
  BY DominanceRuns DEF Accepted
<1>2. n \in Nat /\ DOMAIN b.receipts = 1 .. n /\ Dominance(b) = OK /\ HasArrays(b)
  BY Arrays DEF Accepted, IsArray
<1>3. \A i \in 1 .. n :
         /\ w[i - 1].issue = OK /\ w[i].issue = OK
         /\ b.receipts[i].kind # "dispatch" => w[i] = w[i - 1]
         /\ b.receipts[i].kind = "dispatch" => w[i] = Dominate(b, b.receipts[i], w[i - 1].memo)
  BY <1>1, <1>2, Dominations
<1>4. ASSUME NEW i \in 1 .. n, b.receipts[i].kind = "dispatch"
      PROVE  /\ ChainValid(Chain(i, w[i - 1].memo)) /\ w[i].memo.done = Chain(i, w[i - 1].memo).done
             /\ b.receipts[i] \in Dispatches(b)
  <2> DEFINE r == b.receipts[i]
             chain == Chain(i, w[i - 1].memo)
             valid == Require(ChainValid(chain), "delegation/chain-invalid")
  <2>1. r \in Dispatches(b)
    BY <1>2, <1>4 DEF Dispatches, Elements
  <2>2. Dominated(b, r) = OK
    BY <2>1, DispatchJudged
  <2>3. w[i] = Dominate(b, r, w[i - 1].memo) /\ w[i].issue = OK
    BY <1>3, <1>4
  <2>4. Dominate(b, r, w[i - 1].memo)
        = [issue |-> valid ?? Journaled(b, r), memo |-> [open |-> chain.open, done |-> chain.done]]
    BY <2>2, Zenon DEF Dominate
  <2>5. (valid ?? Journaled(b, r)) = OK /\ w[i].memo.done = chain.done
    <3> HIDE DEF valid, chain, r
    <3> QED BY <2>3, <2>4
  <2>6. valid = OK
    <3> HIDE DEF valid
    <3> QED BY <2>5, Then
  <2> HIDE DEF chain
  <2>7. ChainValid(chain)
    BY <2>6 DEF Require, OK
  <2> QED BY <2>1, <2>5, <2>7 DEF chain
<1>5. \A r \in Dispatches(b) : G(r) \in Embedded(b)
  BY AttemptOf DEF Embedded
<1>6. ASSUME NEW i \in 1 .. n, b.receipts[i].kind = "dispatch", MemoHolds(known, w[i - 1].memo.done)
      PROVE  MemoHolds(known, w[i].memo.done) /\ Settled(known, G(b.receipts[i]), w[i].memo.done)
  <2> DEFINE child == G(b.receipts[i])
             memo == w[i - 1].memo
  <2>1. child \in Embedded(b) /\ ChainValid(DelegationChain(known, child, memo))
        /\ w[i].memo.done = DelegationChain(known, child, memo).done
    BY <1>4, <1>5, <1>6
  <2>2. Walkable(known, child) /\ ChainRounds(known, child) \in Nat
    BY <2>1, DelegationsWalkable
  <2> HIDE DEF child, memo
  <2>3. MemoHolds(known, memo.done)
    BY <1>6 DEF memo
  <2>4. LET done == DelegationChain(known, child, memo).done
        IN MemoHolds(known, done) /\ Settled(known, child, done)
    <3> HIDE DEF known
    <3> QED BY <2>1, <2>2, <2>3, ChainHolds
  <2> QED BY <2>1, <2>4 DEF child
<1> DEFINE T == {i \in Nat : i <= n => MemoHolds(known, w[i].memo.done)}
<1>7. 0 \in T
  <2>1. w[0] = DominanceStart
    BY <1>1, <1>2, DominanceRunRounds
  <2>2. w[0].memo.done = {}
    BY <2>1 DEF DominanceStart
  <2> QED BY <2>2 DEF MemoHolds
<1>8. ASSUME NEW i \in T PROVE i + 1 \in T
  <2> SUFFICES ASSUME i + 1 <= n PROVE MemoHolds(known, w[i + 1].memo.done)
    OBVIOUS
  <2>1. i + 1 \in 1 .. n /\ (i + 1) - 1 = i /\ MemoHolds(known, w[i].memo.done)
    BY <1>2
  <2>2. CASE b.receipts[i + 1].kind = "dispatch"
    BY <1>6, <2>1, <2>2
  <2>3. CASE b.receipts[i + 1].kind # "dispatch"
    BY <1>3, <2>1, <2>3
  <2> QED BY <2>2, <2>3
<1>9. T = Nat
  <2>1. T \subseteq Nat
    OBVIOUS
  <2> HIDE DEF T
  <2> QED BY <1>7, <1>8, <2>1, Induction
<1>10. PICK i \in 1 .. n : d = b.receipts[i] /\ d.kind = "dispatch"
  BY <1>2 DEF Dispatches, Elements
<1>11. MemoHolds(known, w[i - 1].memo.done)
  <2>1. i - 1 \in T /\ i - 1 <= n
    BY <1>2, <1>9
  <2> QED BY <2>1
<1>12. MemoHolds(known, w[i].memo.done) /\ Settled(known, G(d), w[i].memo.done)
  BY <1>6, <1>10, <1>11
<1> QED BY <1>12

\* What a dispatch has for parents: its attempt.
LEMMA DispatchParents ==
  ASSUME NEW b, Accepted(b), NEW d \in Dispatches(b)
  PROVE  {e.parent : e \in Elements(d.parents)} = {Attempt(b, d).id}
<1>1. PICK k \in DOMAIN d.parents :
        EdgesOfType(d, "attempted_as") = {k} /\ d.parents[k].parent = Attempt(b, d).id
  BY AttemptOf
<1>2. ASSUME NEW j \in DOMAIN d.parents PROVE d.parents[j].type = "attempted_as"
  <2> DEFINE Legal(x, f) == /\ f.type \in DOMAIN EdgeMatrix
                            /\ Parent(b, f).kind \in EdgeMatrix[f.type][1]
                            /\ x.kind \in EdgeMatrix[f.type][2]
             Fault(x, f) == Require(Legal(x, f), "graph/edge-illegal")
             G(x) == ForEach(x.parents, LAMBDA f : Fault(x, f))
             codes == [i \in DOMAIN b.receipts |-> G(b.receipts[i])]
             inner == [i \in DOMAIN d.parents |-> Fault(d, d.parents[i])]
  <2>1. Typed(b) = OK
    BY Then DEF Accepted, Graph
  <2>2. FirstCode(codes) = OK
    BY <2>1 DEF Typed, ForEachEdge, ForEach
  <2>3. PICK i \in DOMAIN b.receipts : d = b.receipts[i] /\ d.kind = "dispatch"
    BY DEF Dispatches, Elements
  <2>4. DOMAIN b.receipts \subseteq Nat /\ DOMAIN d.parents \subseteq Nat
    <3>1. d \in Elements(b.receipts)
      BY <2>3 DEF Elements
    <3> QED BY <3>1, ReceiptArrays DEF Accepted
  <2> HIDE DEF Legal
  <2>5. DOMAIN codes \subseteq Nat /\ i \in DOMAIN codes /\ codes[i] = G(d)
    BY <2>3, <2>4
  <2>6. G(d) = FirstCode(inner)
    BY DEF ForEach
  <2>7. DOMAIN inner \subseteq Nat /\ j \in DOMAIN inner /\ inner[j] = Fault(d, d.parents[j])
    BY <2>4
  <2> HIDE DEF codes, inner, G, Fault
  <2>8. Fault(d, d.parents[j]) = OK
    BY <2>2, <2>5, <2>6, <2>7, AllOK
  <2>9. Legal(d, d.parents[j])
    BY <2>8 DEF Fault, Require, OK
  <2>10. d.parents[j].type \in DOMAIN EdgeMatrix /\ d.kind \in EdgeMatrix[d.parents[j].type][2]
    BY <2>9 DEF Legal
  <2> QED BY <2>3, <2>10 DEF EdgeMatrix
<1>3. DOMAIN d.parents = {k}
  BY <1>1, <1>2 DEF EdgesOfType
<1> QED BY <1>1, <1>3 DEF Elements

\* An attempt is within the window and the scope of every delegation up to the first one.
LEMMA LineagePermits ==
  ASSUME Accepted(Bundle), NEW d \in Dispatches(Bundle)
  PROVE  LET a == Attempt(Bundle, d)
             g == Authorization(Bundle, a).body.delegation
         IN \A delegation \in Lineage(g) : Permits(delegation, a)
<1> DEFINE a == Attempt(Bundle, d)
           g == Authorization(Bundle, a).body.delegation
           known == Bundle.delegations
           carried == Elements(Bundle.delegations)
           next == [id \in {c.id : c \in carried} |->
                       UNION {Elements(c.parents) : c \in {c \in carried : c.id = id}}]
<1>1. Permits(g, a)
  BY DominatedHolds
<1>2. PICK done : MemoHolds(known, done) /\ Settled(known, g, done)
  BY ChainsHold
<1> DEFINE S == {x \in done : Carries(known, x) /\ Permits(Find(known, x), a)}
<1>3. a \in Elements(Bundle.receipts) /\ g \in Embedded(Bundle)
  BY AttemptOf DEF Embedded
<1>4. \A c \in carried \cup {g} : {c.from, c.until, a.at} \subseteq Int
  BY <1>3 DEF Accepted, HasIntegers
<1>5. \A c \in carried : Carries(known, c.id) /\ Find(known, c.id) = c
  BY FoundThere
<1>6. \A x : Carries(known, x) => Find(known, x) \in carried /\ Find(known, x).id = x
  BY Found DEF Elements
<1>7. DOMAIN next = {c.id : c \in carried} /\ IsFiniteSet(DOMAIN next)
  BY IdsAreFinite, Arrays DEF Accepted, EntryFields
<1>8. ASSUME NEW c \in carried PROVE next[c.id] = Elements(c.parents)
  <2>1. {x \in carried : x.id = c.id} = {c}
    BY <1>5
  <2> QED BY <2>1
<1> HIDE DEF next, a, g, known, carried
<1>9. ASSUME NEW c \in carried \cup {g}, Permits(c, a), Settled(known, c, done)
      PROVE  Elements(c.parents) \subseteq S
  <2> SUFFICES ASSUME NEW k \in DOMAIN c.parents PROVE c.parents[k] \in S
    BY DEF Elements
  <2> DEFINE p == c.parents[k]
  <2>1. Carries(known, p) /\ LinkValid(Find(known, p), c) /\ p \in done
    BY <1>9 DEF Settled, Linked
  <2>2. Find(known, p) \in carried
    BY <1>6, <2>1
  <2>3. {Find(known, p).from, Find(known, p).until, c.from, c.until, a.at} \subseteq Int
    BY <1>4, <2>2
  <2>4. Permits(Find(known, p), a)
    BY <1>9, <2>1, <2>3, LinkPermits
  <2> QED BY <2>1, <2>4
<1>10. Elements(g.parents) \subseteq S
  BY <1>1, <1>2, <1>9
<1>11. Closed(next, S)
  <2> SUFFICES ASSUME NEW x \in S, x \in DOMAIN next PROVE next[x] \subseteq S
    BY DEF Closed
  <2> DEFINE c == Find(known, x)
  <2>1. c \in carried /\ c.id = x /\ Permits(c, a) /\ x \in done /\ Carries(known, x)
    BY <1>6
  <2>2. Settled(known, c, done)
    BY <1>2, <2>1 DEF MemoHolds
  <2> HIDE DEF c, S
  <2>3. Elements(c.parents) \subseteq S
    BY <1>9, <2>1, <2>2
  <2> QED BY <1>8, <2>1, <2>3
<1>12. Reach(next, Elements(g.parents)) \subseteq S
  <2> HIDE DEF S
  <2> QED BY <1>7, <1>10, <1>11, ReachIsLeast
<1>13. Lineage(g) = {g} \cup {c \in carried : c.id \in Reach(next, Elements(g.parents))}
  BY Zenon DEF Lineage, next, carried
<1>14. ASSUME NEW delegation \in Lineage(g) PROVE Permits(delegation, a)
  <2>1. CASE delegation = g
    BY <1>1, <2>1
  <2>2. CASE delegation \in carried /\ delegation.id \in Reach(next, Elements(g.parents))
    BY <1>5, <1>12, <2>2
  <2> QED BY <1>13, <1>14, <2>1, <2>2
<1> QED BY <1>14 DEF a, g

\* What was dispatched is the command of one attempt within the delegations up to the first
\* one: step 13, with step 10 for what the attempt and the dispatch say of each other, step
\* 12 for the edges and step 7 for the ids of the delegations.
THEOREM VerifierDispatchIsAuthorized == Spec => []DispatchIsAuthorized
<1>1. ASSUME Progress PROVE DispatchIsAuthorized
  <2> SUFFICES ASSUME IsConformant, NEW d \in OfKind("dispatch")
               PROVE  \E a \in OfKind("action_attempt") : \E z \in OfKind("authorization") :
            /\ {e.parent : e \in Elements(d.parents)} = {a.id} /\ d.body.command = a.body.command.id
            /\ a.body.authorization = z.id /\ z.id \in {e.parent : e \in Elements(a.parents)}
            /\ a.body.command.operation = a.body.action.name
            /\ a.body.command.operand = a.body.action.target
            /\ \A delegation \in Lineage(z.body.delegation) : Permits(delegation, a)
            /\ \E c \in Elements(Bundle.credentials) :
                  c.id = z.body.delegation.subject /\ c.subject = a.by
    BY DEF DispatchIsAuthorized
  <2>1. Accepted(Bundle) /\ d \in Dispatches(Bundle)
    BY <1>1, ConformantIsAccepted DEF OfKind, AllReceipts, Dispatches
  <2> DEFINE a == Attempt(Bundle, d)
             z == Authorization(Bundle, a)
  <2>2. /\ a \in Elements(Bundle.receipts) /\ a.kind = "action_attempt"
        /\ d.body.command = a.body.command.id
        /\ \E k \in DOMAIN a.parents : a.parents[k].parent = z.id
        /\ z \in Elements(Bundle.receipts) /\ z.kind = "authorization" /\ a.body.authorization = z.id
    BY <2>1, AttemptOf
  <2>3. {e.parent : e \in Elements(d.parents)} = {a.id}
    BY <2>1, DispatchParents
  <2>4. z.id \in {e.parent : e \in Elements(a.parents)}
    BY <2>2 DEF Elements
  <2>5. a.body.command.operation = a.body.action.name /\ a.body.command.operand = a.body.action.target
    BY <2>1, <2>2, AttemptHolds DEF CommandIsAction
  <2>6. \A delegation \in Lineage(z.body.delegation) : Permits(delegation, a)
    BY <2>1, LineagePermits
  <2>7. \E c \in Elements(Bundle.credentials) : c.id = z.body.delegation.subject /\ c.subject = a.by
    <3>1. NamesSigner(Bundle, z.body.delegation, a)
      BY <2>1, DominatedHolds
    <3> QED BY <3>1, Found DEF NamesSigner, Subject, Elements
  <2>8. a \in OfKind("action_attempt") /\ z \in OfKind("authorization")
    BY <2>2 DEF OfKind, AllReceipts
  <2> HIDE DEF a, z
  <2> QED BY <2>2, <2>3, <2>4, <2>5, <2>6, <2>7, <2>8
<1> QED BY <1>1, ProgressInvariant, PTL

-----------------------------------------------------------------------------
(* Merkle proofs. *)

\* A digest, or a node over it: what a round of a proof makes of a digest.
Rises(d, e) == e = d \/ \E x : e = Node(x, d) \/ e = Node(d, x)

BelowRun(tree, w, n) == w = [k \in 0 .. n |-> IF k = 0 THEN {tree} ELSE Below(w[k - 1])]

BelowRounds(tree, digest, w, n) ==
    /\ Holds(tree, n, digest) <=> digest \in w[n]
    /\ w[0] = {tree} /\ \A k \in 1 .. n : w[k] = Below(w[k - 1])

LEMMA BelowRuns ==
  ASSUME NEW tree, NEW n \in Nat, NEW digest
  PROVE  \E w : BelowRounds(tree, digest, w, n)
<1> DEFINE start == {tree}
           T == {m \in Nat : \E w : BelowRun(tree, w, m)}
<1>1. 0 \in T
  <2>1. BelowRun(tree, [k \in 0 .. 0 |-> {tree}], 0)
    BY DEF BelowRun
  <2> QED BY <2>1
<1>2. ASSUME NEW m \in T PROVE m + 1 \in T
  <2>1. PICK w : BelowRun(tree, w, m)
    OBVIOUS
  <2> DEFINE v == [k \in 0 .. m + 1 |-> IF k \in 0 .. m THEN w[k] ELSE Below(w[m])]
  <2>2. \A k \in 0 .. m : w[k] = IF k = 0 THEN start ELSE Below(w[k - 1])
    BY <2>1 DEF BelowRun
  <2> HIDE DEF start
  <2>3. \A k \in 0 .. m + 1 : v[k] = IF k = 0 THEN start ELSE Below(v[k - 1])
    BY <2>2
  <2>4. BelowRun(tree, v, m + 1)
    BY <2>3 DEF BelowRun, start
  <2> QED BY <2>4
<1>3. n \in T
  <2> HIDE DEF T
  <2>1. T \subseteq Nat
    BY DEF T
  <2> QED BY <1>1, <1>2, <2>1, Induction
<1> DEFINE after == CHOOSE w : BelowRun(tree, w, n)
<1>4. BelowRun(tree, after, n)
  BY <1>3
<1>5. Holds(tree, n, digest) <=> digest \in after[n]
  BY DEF Holds, Loop, BelowRun
<1> HIDE DEF after
<1>6. \A k \in 0 .. n : after[k] = IF k = 0 THEN {tree} ELSE Below(after[k - 1])
  BY <1>4 DEF BelowRun
<1>7. after[0] = {tree} /\ \A k \in 1 .. n : after[k] = Below(after[k - 1])
  BY <1>6
<1> QED BY <1>5, <1>7, Zenon DEF BelowRounds

\* What the rounds of a proof start from is in the tree that they end with.
LEMMA ClimbIsHeld ==
  ASSUME NEW n \in Nat, NEW d, \A k \in 1 .. n : Rises(d[k - 1], d[k])
  PROVE  Holds(d[n], n, d[0])
<1> DEFINE tree == d[n]
           digest == d[0]
<1>0. PICK w : BelowRounds(tree, digest, w, n)
  <2> HIDE DEF tree, digest
  <2> QED BY BelowRuns
<1>1. /\ Holds(d[n], n, d[0]) <=> d[0] \in w[n]
      /\ w[0] = {d[n]} /\ \A k \in 1 .. n : w[k] = Below(w[k - 1])
  BY <1>0 DEF BelowRounds
<1> DEFINE T == {k \in Nat : k <= n => d[n - k] \in w[k]}
<1>2. 0 \in T
  BY <1>1
<1>3. ASSUME NEW k \in T PROVE k + 1 \in T
  <2> SUFFICES ASSUME k + 1 <= n PROVE d[n - (k + 1)] \in w[k + 1]
    OBVIOUS
  <2>1. k + 1 \in 1 .. n /\ (k + 1) - 1 = k /\ d[n - k] \in w[k] /\ n - k \in 1 .. n
        /\ (n - k) - 1 = n - (k + 1)
    OBVIOUS
  <2>2. w[k + 1] = Below(w[k]) /\ Rises(d[n - (k + 1)], d[n - k])
    BY <1>1, <2>1
  <2>3. ASSUME NEW trees, NEW e \in trees, NEW c, Rises(c, e) PROVE c \in Below(trees)
    <3>1. CASE e = c
      BY <3>1 DEF Below
    <3>2. CASE \E x : e = Node(x, c) \/ e = Node(c, x)
      <4>1. e[1] = "node" /\ (e[2] = c \/ e[3] = c)
        BY <3>2 DEF Node
      <4> QED BY <4>1 DEF Below
    <3> QED BY <2>3, <3>1, <3>2 DEF Rises
  <2> QED BY <2>1, <2>2, <2>3
<1>4. n \in T
  <2>1. T \subseteq Nat
    OBVIOUS
  <2> HIDE DEF T
  <2> QED BY <1>2, <1>3, <2>1, Induction
<1>5. d[0] \in w[n]
  BY <1>4
<1> QED BY <1>1, <1>5

\* The rounds of verifyPromotedProof().
PromotedStart(leaf, index, size, siblings) ==
    [digest |-> leaf, position |-> index, width |-> size, siblings |-> siblings]

PromotedRun(start, w, n) == w = [k \in 0 .. n |-> IF k = 0 THEN start ELSE PromotedRise(w[k - 1])]

LEMMA PromotedIsHeld ==
  ASSUME NEW leaf, NEW index, NEW size \in Nat, NEW siblings, NEW root,
         VerifyPromotedProof(leaf, index, size, siblings, root)
  PROVE  Holds(root, size, leaf)
<1> DEFINE start == PromotedStart(leaf, index, size, siblings)
           T == {m \in Nat : \E w : PromotedRun(start, w, m)}
<1>1. 0 \in T
  <2>1. PromotedRun(start, [k \in 0 .. 0 |-> start], 0)
    BY DEF PromotedRun
  <2> QED BY <2>1
<1>2. ASSUME NEW m \in T PROVE m + 1 \in T
  <2>1. PICK w : PromotedRun(start, w, m)
    OBVIOUS
  <2> DEFINE v == [k \in 0 .. m + 1 |-> IF k \in 0 .. m THEN w[k] ELSE PromotedRise(w[m])]
  <2>2. \A k \in 0 .. m : w[k] = IF k = 0 THEN start ELSE PromotedRise(w[k - 1])
    BY <2>1 DEF PromotedRun
  <2>3. \A k \in 0 .. m + 1 : v[k] = IF k = 0 THEN start ELSE PromotedRise(v[k - 1])
    BY <2>2
  <2>4. PromotedRun(start, v, m + 1)
    BY <2>3 DEF PromotedRun
  <2> QED BY <2>4
<1>3. size \in T
  <2> HIDE DEF T
  <2>1. T \subseteq Nat
    BY DEF T
  <2> QED BY <1>1, <1>2, <2>1, Induction
<1> DEFINE after == CHOOSE w : PromotedRun(start, w, size)
<1>4. PromotedRun(start, after, size)
  BY <1>3
<1>5. after[size].digest = root
  BY DEF VerifyPromotedProof, Loop, PromotedRun, PromotedStart
<1> HIDE DEF after
<1>6. \A k \in 0 .. size : after[k] = IF k = 0 THEN start ELSE PromotedRise(after[k - 1])
  BY <1>4 DEF PromotedRun
<1>7. \A s : Rises(s.digest, PromotedRise(s).digest)
  <2> TAKE s
  <2> DEFINE paired == Paired(s.position, s.width)
             digest == IF ~paired THEN s.digest
                       ELSE IF Odd(s.position) THEN Node(Head(s.siblings), s.digest)
                       ELSE Node(s.digest, Head(s.siblings))
  <2>1. PromotedRise(s).digest = s.digest \/ PromotedRise(s).digest = digest
    BY DEF PromotedRise
  <2>2. digest = s.digest \/ digest = Node(Head(s.siblings), s.digest) \/ digest = Node(s.digest, Head(s.siblings))
    OBVIOUS
  <2> HIDE DEF digest
  <2> QED BY <2>1, <2>2 DEF Rises
<1> DEFINE d == [k \in 0 .. size |-> after[k].digest]
<1>8. \A k \in 1 .. size : Rises(d[k - 1], d[k])
  <2> TAKE k \in 1 .. size
  <2>1. k \in 0 .. size /\ k - 1 \in 0 .. size /\ k # 0
    OBVIOUS
  <2>2. after[k] = PromotedRise(after[k - 1])
    BY <1>6, <2>1
  <2>3. d[k] = PromotedRise(after[k - 1]).digest /\ d[k - 1] = after[k - 1].digest
    BY <2>1, <2>2
  <2> HIDE DEF d
  <2> QED BY <1>7, <2>3
<1>9. d[0] = leaf /\ d[size] = root
  <2>1. after[0] = start
    BY <1>6
  <2>2. start.digest = leaf
    BY DEF PromotedStart
  <2> HIDE DEF start
  <2> QED BY <1>5, <2>1, <2>2
<1> HIDE DEF d
<1> QED BY <1>8, <1>9, ClimbIsHeld

\* The rounds of verifyRfc6962Inclusion().
RfcStart(leaf, index, size, proof) ==
    [digest |-> leaf, fn |-> index, sn |-> size - 1, proof |-> proof]

RfcRun(start, w, n) == w = [k \in 0 .. n |-> IF k = 0 THEN start ELSE RfcRise(w[k - 1])]

LEMMA RfcIsHeld ==
  ASSUME NEW leaf, NEW index, NEW size, NEW proof, Len(proof) \in Nat, NEW root,
         VerifyRfcInclusion(leaf, index, size, proof, root)
  PROVE  Holds(root, Len(proof), leaf)
<1> DEFINE start == RfcStart(leaf, index, size, proof)
           n == Len(proof)
           T == {m \in Nat : \E w : RfcRun(start, w, m)}
<1>1. 0 \in T
  <2>1. RfcRun(start, [k \in 0 .. 0 |-> start], 0)
    BY DEF RfcRun
  <2> QED BY <2>1
<1>2. ASSUME NEW m \in T PROVE m + 1 \in T
  <2>1. PICK w : RfcRun(start, w, m)
    OBVIOUS
  <2> DEFINE v == [k \in 0 .. m + 1 |-> IF k \in 0 .. m THEN w[k] ELSE RfcRise(w[m])]
  <2>2. \A k \in 0 .. m : w[k] = IF k = 0 THEN start ELSE RfcRise(w[k - 1])
    BY <2>1 DEF RfcRun
  <2>3. \A k \in 0 .. m + 1 : v[k] = IF k = 0 THEN start ELSE RfcRise(v[k - 1])
    BY <2>2
  <2>4. RfcRun(start, v, m + 1)
    BY <2>3 DEF RfcRun
  <2> QED BY <2>4
<1>3. n \in T
  <2> HIDE DEF T
  <2>1. T \subseteq Nat
    BY DEF T
  <2> QED BY <1>1, <1>2, <2>1, Induction
<1> DEFINE after == CHOOSE w : RfcRun(start, w, n)
<1>4. RfcRun(start, after, n)
  BY <1>3
<1>5. after[n].digest = root
  BY DEF VerifyRfcInclusion, RfcClimb, Loop, RfcRun, RfcStart
<1> HIDE DEF after, n
<1>6. \A k \in 0 .. n : after[k] = IF k = 0 THEN start ELSE RfcRise(after[k - 1])
  BY <1>4 DEF RfcRun
<1>7. \A s : Rises(s.digest, RfcRise(s).digest)
  <2> TAKE s
  <2>1. \/ RfcRise(s).digest = Node(Head(s.proof), s.digest)
        \/ RfcRise(s).digest = Node(s.digest, Head(s.proof))
    BY DEF RfcRise
  <2> QED BY <2>1 DEF Rises
<1> DEFINE d == [k \in 0 .. n |-> after[k].digest]
<1>8. n \in Nat
  BY DEF n
<1>9. \A k \in 1 .. n : Rises(d[k - 1], d[k])
  <2> TAKE k \in 1 .. n
  <2>1. k \in 0 .. n /\ k - 1 \in 0 .. n /\ k # 0
    BY <1>8
  <2>2. after[k] = RfcRise(after[k - 1])
    BY <1>6, <2>1
  <2>3. d[k] = RfcRise(after[k - 1]).digest /\ d[k - 1] = after[k - 1].digest
    BY <2>1, <2>2
  <2> HIDE DEF d
  <2> QED BY <1>7, <2>3
<1>10. d[0] = leaf /\ d[n] = root
  <2>1. after[0] = start
    BY <1>6, <1>8
  <2>2. start.digest = leaf
    BY DEF RfcStart
  <2> HIDE DEF start
  <2> QED BY <1>5, <1>8, <2>1, <2>2
<1> HIDE DEF d
<1>11. Holds(root, n, leaf)
  BY <1>8, <1>9, <1>10, ClimbIsHeld
<1> QED BY <1>11 DEF n

\* The proofs of batch membership, one after the other.
LEMMA MerkleHolds ==
  ASSUME NEW b, Accepted(b), NEW p \in Elements(b.proofs)
  PROVE  /\ BatchBound(b, p)
         /\ VerifyPromotedProof(Leaf(p.leaf), p.index, p.size, p.siblings, Find(b.batches, p.batch).root)
<1> DEFINE places == [i \in DOMAIN b.proofs |-> i]
           u(i) == Require(BatchBound(b, b.proofs[i]), "merkle/batch-binding")
           v(i) == Require(Len(b.proofs[i].siblings) = ExpectedPromotedSiblings(b.proofs[i].index, b.proofs[i].size),
                           "merkle/path-length")
           w(i) == Require(VerifyPromotedProof(Leaf(b.proofs[i].leaf), b.proofs[i].index, b.proofs[i].size,
                                               b.proofs[i].siblings, Find(b.batches, b.proofs[i].batch).root),
                           "merkle/root-mismatch")
           x(i) == Require(\A j \in 1 .. i - 1 :
                              Item(b.proofs[j]) = Item(b.proofs[i]) => b.proofs[j].index = b.proofs[i].index,
                           "merkle/duplicate-leaf")
           F(i) == u(i) ?? v(i) ?? w(i) ?? x(i)
           codes == [k \in DOMAIN places |-> F(places[k])]
<1>1. PICK i \in DOMAIN b.proofs : p = b.proofs[i]
  BY DEF Elements
<1>2. FirstCode(codes) = OK
  BY Zenon DEF Accepted, Merkle, ForEach
<1>3. DOMAIN codes \subseteq Nat /\ i \in DOMAIN codes /\ codes[i] = F(i)
  <2> HIDE DEF F
  <2> QED BY <1>1, Arrays DEF Accepted, IsArray, EntryFields
<1> HIDE DEF codes
<1>4. F(i) = OK
  <2> HIDE DEF F
  <2> QED BY <1>2, <1>3, AllOK
<1>5. u(i) = OK /\ w(i) = OK
  <2> HIDE DEF u, v, w, x
  <2> QED BY <1>4, Then
<1> QED BY <1>1, <1>5 DEF Require, OK

\* An index counts its entries.
LEMMA IndexCounted ==
  ASSUME NEW b, Accepted(b), NEW m \in Elements(b.manifests)
  PROVE  m.index.count \in Nat /\ m.index.count = Len(m.index.entries)
<1>1. PICK i \in DOMAIN b.manifests : m = b.manifests[i]
  BY DEF Elements
<1>2. SpanCounted(b, Key(m)) /\ PrimaryOf(b, Key(m)) = m
  BY <1>1, EpochsHold, OneManifest DEF PrimaryOf
<1>3. m.index.count = Len(m.index.entries)
  BY <1>2 DEF SpanCounted
<1>4. IsArray(m.index.entries)
  BY DEF Accepted, HasArrays
<1> QED BY <1>3, <1>4 DEF IsArray

-----------------------------------------------------------------------------
(* Consistency proofs. *)

\* The powers of two: what 1 and doubling lead to.
Powers == {p \in Nat : \A S \in SUBSET Nat : 1 \in S /\ (\A x \in S : 2 * x \in S) => p \in S}

LEMMA PowersInduction ==
  ASSUME NEW S, S \subseteq Nat, 1 \in S, \A x \in S : 2 * x \in S
  PROVE  Powers \subseteq S
BY DEF Powers

LEMMA PowersDouble == 1 \in Powers /\ Powers \subseteq Nat /\ \A p \in Powers : 2 * p \in Powers /\ p >= 1
<1>1. 1 \in Powers /\ Powers \subseteq Nat
  BY DEF Powers
<1>2. ASSUME NEW p \in Powers PROVE 2 * p \in Powers
  <2> SUFFICES ASSUME NEW S \in SUBSET Nat, 1 \in S, \A x \in S : 2 * x \in S PROVE 2 * p \in S
    BY <1>1 DEF Powers
  <2>1. p \in S
    BY PowersInduction
  <2> QED BY <2>1
<1>3. Powers \subseteq Nat \ {0}
  <2> DEFINE S == Nat \ {0}
  <2>1. S \subseteq Nat /\ 1 \in S /\ \A x \in S : 2 * x \in S
    OBVIOUS
  <2> HIDE DEF S
  <2>2. Powers \subseteq S
    BY <2>1, PowersInduction
  <2> QED BY <2>2 DEF S
<1> QED BY <1>1, <1>2, <1>3

LEMMA PowersHalve == \A p \in Powers : p = 1 \/ \E q \in Powers : p = 2 * q
<1> DEFINE S == {p \in Powers : p = 1 \/ \E q \in Powers : p = 2 * q}
<1>1. S \subseteq Nat /\ 1 \in S /\ \A x \in S : 2 * x \in S
  BY PowersDouble
<1> HIDE DEF S
<1>2. Powers \subseteq S
  BY <1>1, PowersInduction
<1> QED BY <1>2 DEF S

\* Of two powers the greater one is twice the other at least.
LEMMA PowersApart == \A p, q \in Powers : q < p => 2 * q <= p
<1> DEFINE S == {p \in Powers : \A q \in Powers : q < p => 2 * q <= p}
<1>1. 1 \in S
  BY PowersDouble
<1>2. ASSUME NEW p \in S PROVE 2 * p \in S
  <2> SUFFICES ASSUME NEW q \in Powers, q < 2 * p PROVE 2 * q <= 2 * p
    BY PowersDouble
  <2>1. p \in Nat /\ p >= 1
    BY PowersDouble
  <2>2. CASE q = 1
    BY <2>1, <2>2
  <2>3. CASE q # 1
    <3>1. PICK h \in Powers : q = 2 * h
      BY <2>3, PowersHalve
    <3>2. h \in Nat /\ h < p
      BY <2>1, <3>1, PowersDouble
    <3>3. 2 * h <= p
      BY <3>2
    <3> QED BY <2>1, <3>1, <3>2, <3>3
  <2> QED BY <2>2, <2>3
<1> HIDE DEF S
<1>3. S \subseteq Nat
  BY PowersDouble DEF S
<1>4. Powers \subseteq S
  BY <1>1, <1>2, <1>3, PowersInduction
<1> QED BY <1>4 DEF S

\* largestPowerOfTwoLessThan() of a power and at most as much again.
Doubled(power, value) == IF power * 2 < value THEN power * 2 ELSE power

DoubledRun(value, w, n) == w = [k \in 0 .. n |-> IF k = 0 THEN 1 ELSE Doubled(w[k - 1], value)]

LEMMA DoubledRuns ==
  ASSUME NEW value \in Nat
  PROVE  \E w : /\ LargestPowerOfTwoLessThan(value) = w[value]
                /\ w[0] = 1 /\ \A k \in 1 .. value : w[k] = Doubled(w[k - 1], value)
<1> DEFINE T == {m \in Nat : \E w : DoubledRun(value, w, m)}
<1>1. 0 \in T
  <2>1. DoubledRun(value, [k \in 0 .. 0 |-> 1], 0)
    BY DEF DoubledRun
  <2> QED BY <2>1
<1>2. ASSUME NEW m \in T PROVE m + 1 \in T
  <2>1. PICK w : DoubledRun(value, w, m)
    OBVIOUS
  <2> DEFINE v == [k \in 0 .. m + 1 |-> IF k \in 0 .. m THEN w[k] ELSE Doubled(w[m], value)]
  <2>2. \A k \in 0 .. m : w[k] = IF k = 0 THEN 1 ELSE Doubled(w[k - 1], value)
    BY <2>1 DEF DoubledRun
  <2>3. \A k \in 0 .. m + 1 : v[k] = IF k = 0 THEN 1 ELSE Doubled(v[k - 1], value)
    BY <2>2
  <2>4. DoubledRun(value, v, m + 1)
    BY <2>3 DEF DoubledRun
  <2> QED BY <2>4
<1>3. value \in T
  <2> HIDE DEF T
  <2>1. T \subseteq Nat
    BY DEF T
  <2> QED BY <1>1, <1>2, <2>1, Induction
<1> DEFINE after == CHOOSE w : DoubledRun(value, w, value)
<1>4. DoubledRun(value, after, value)
  BY <1>3
<1>5. LargestPowerOfTwoLessThan(value) = after[value]
  BY DEF LargestPowerOfTwoLessThan, Loop, DoubledRun, Doubled
<1> HIDE DEF after
<1>6. \A k \in 0 .. value : after[k] = IF k = 0 THEN 1 ELSE Doubled(after[k - 1], value)
  BY <1>4 DEF DoubledRun
<1>7. after[0] = 1 /\ \A k \in 1 .. value : after[k] = Doubled(after[k - 1], value)
  BY <1>6
<1> QED BY <1>5, <1>7, Zenon

LEMMA LargestPower ==
  ASSUME NEW p \in Powers, NEW q \in 1 .. p
  PROVE  LargestPowerOfTwoLessThan(p + q) = p
<1> DEFINE value == p + q
<1>1. p \in Nat /\ value \in Nat /\ p < value /\ value <= 2 * p
  BY PowersDouble
<1>2. PICK w : /\ LargestPowerOfTwoLessThan(value) = w[value]
               /\ w[0] = 1 /\ \A k \in 1 .. value : w[k] = Doubled(w[k - 1], value)
  <2> HIDE DEF value
  <2> QED BY <1>1, DoubledRuns
<1> DEFINE T == {k \in Nat : k <= value => w[k] \in Powers /\ (w[k] = p \/ (k < w[k] /\ w[k] < p))}
<1> HIDE DEF value
<1>3. 0 \in T
  BY <1>1, <1>2, PowersDouble
<1>4. ASSUME NEW k \in T PROVE k + 1 \in T
  <2> SUFFICES ASSUME k + 1 <= value
               PROVE  w[k + 1] \in Powers /\ (w[k + 1] = p \/ (k + 1 < w[k + 1] /\ w[k + 1] < p))
    OBVIOUS
  <2>1. k + 1 \in 1 .. value /\ (k + 1) - 1 = k /\ k <= value
    BY <1>1
  <2>2. w[k + 1] = Doubled(w[k], value) /\ w[k] \in Powers /\ (w[k] = p \/ (k < w[k] /\ w[k] < p))
    BY <1>2, <2>1
  <2>3. CASE w[k] = p
    BY <1>1, <2>2, <2>3 DEF Doubled
  <2>4. CASE w[k] # p
    <3>1. w[k] \in Nat /\ 2 * w[k] \in Powers /\ 2 * w[k] <= p
      BY <2>2, <2>4, PowersDouble, PowersApart
    <3>2. w[k + 1] = 2 * w[k]
      BY <1>1, <2>2, <3>1 DEF Doubled
    <3> QED BY <1>1, <2>2, <2>4, <3>1, <3>2
  <2> QED BY <2>3, <2>4
<1>5. value \in T
  <2>1. T \subseteq Nat
    OBVIOUS
  <2> HIDE DEF T
  <2> QED BY <1>1, <1>3, <1>4, <2>1, Induction
<1>6. w[value] \in Powers /\ (w[value] = p \/ (value < w[value] /\ w[value] < p))
  BY <1>1, <1>5
<1>7. w[value] \in Nat
  BY <1>6, PowersDouble
<1>8. w[value] = p
  BY <1>1, <1>6, <1>7
<1> QED BY <1>2, <1>8 DEF value

-----------------------------------------------------------------------------
(* The shifts of a consistency proof. *)

\* The place of a node is the shifted place of a leaf: y divided by w, rounded down.
At(x, y, w) == x \in Nat /\ x * w <= y /\ y < (x + 1) * w

LEMMA HalfAt ==
  ASSUME NEW w \in Nat, NEW y \in Nat, NEW x, At(x, y, w)
  PROVE  At(Half(x), y, 2 * w) /\ (~ Odd(x) => Half(x) * (2 * w) = x * w)
<1> DEFINE h == Half(x)
<1>1. x \in Nat /\ h \in Nat /\ (x = 2 * h \/ x = 2 * h + 1) /\ (~ Odd(x) => x = 2 * h)
  BY DEF At, Half, Odd
<1> HIDE DEF h
<1> DEFINE a == h * w
<1>2. a \in Nat /\ h * (2 * w) = 2 * a /\ (h + 1) * (2 * w) = 2 * a + 2 * w
      /\ (2 * h) * w = 2 * a /\ (2 * h + 1) * w = 2 * a + w /\ ((2 * h + 1) + 1) * w = 2 * a + 2 * w
  BY <1>1
<1>3. x * w <= y /\ y < (x + 1) * w
  BY DEF At
<1>4. CASE x = 2 * h
  BY <1>1, <1>2, <1>3, <1>4 DEF At, h
<1>5. CASE x = 2 * h + 1
  <2>1. ~ (x = 2 * h)
    BY <1>1, <1>5
  <2> QED BY <1>1, <1>2, <1>3, <1>5, <2>1 DEF At, h
<1> QED BY <1>1, <1>4, <1>5

ShiftZero(n) == IF ~Odd(n[1]) /\ n[1] # 0 THEN <<Half(n[1]), Half(n[2])>> ELSE n
ShiftOne(n) == IF Odd(n[1]) THEN <<Half(n[1]), Half(n[2])>> ELSE n

ZerosRun(fn, sn, w, n) == w = [k \in 0 .. n |-> IF k = 0 THEN <<fn, sn>> ELSE ShiftZero(w[k - 1])]

ZerosRounds(fn, sn, w) ==
    /\ SkipZeros(fn, sn) = w[fn]
    /\ w[0] = <<fn, sn>> /\ \A k \in 1 .. fn : w[k] = ShiftZero(w[k - 1])

LEMMA SkipZerosRuns ==
  ASSUME NEW fn \in Nat, NEW sn
  PROVE  \E w : ZerosRounds(fn, sn, w)
<1> DEFINE start == <<fn, sn>>
           T == {m \in Nat : \E w : ZerosRun(fn, sn, w, m)}
<1>1. 0 \in T
  <2>1. ZerosRun(fn, sn, [k \in 0 .. 0 |-> start], 0)
    BY DEF ZerosRun
  <2> QED BY <2>1
<1>2. ASSUME NEW m \in T PROVE m + 1 \in T
  <2>1. PICK w : ZerosRun(fn, sn, w, m)
    OBVIOUS
  <2> DEFINE v == [k \in 0 .. m + 1 |-> IF k \in 0 .. m THEN w[k] ELSE ShiftZero(w[m])]
  <2>2. \A k \in 0 .. m : w[k] = IF k = 0 THEN start ELSE ShiftZero(w[k - 1])
    BY <2>1 DEF ZerosRun
  <2> HIDE DEF start
  <2>3. \A k \in 0 .. m + 1 : v[k] = IF k = 0 THEN start ELSE ShiftZero(v[k - 1])
    BY <2>2
  <2>4. ZerosRun(fn, sn, v, m + 1)
    BY <2>3 DEF ZerosRun, start
  <2> QED BY <2>4
<1>3. fn \in T
  <2> HIDE DEF T
  <2>1. T \subseteq Nat
    BY DEF T
  <2> QED BY <1>1, <1>2, <2>1, Induction
<1> DEFINE after == CHOOSE w : ZerosRun(fn, sn, w, fn)
<1>4. ZerosRun(fn, sn, after, fn)
  BY <1>3
<1>5. SkipZeros(fn, sn) = after[fn]
  BY DEF SkipZeros, Loop, ZerosRun, ShiftZero
<1> HIDE DEF after
<1>6. \A k \in 0 .. fn : after[k] = IF k = 0 THEN start ELSE ShiftZero(after[k - 1])
  BY <1>4 DEF ZerosRun
<1> HIDE DEF start
<1>7. after[0] = start /\ \A k \in 1 .. fn : after[k] = ShiftZero(after[k - 1])
  BY <1>6
<1> QED BY <1>5, <1>7, Zenon DEF start, ZerosRounds

OnesRun(fn, sn, w, n) == w = [k \in 0 .. n |-> IF k = 0 THEN <<fn, sn>> ELSE ShiftOne(w[k - 1])]

OnesRounds(fn, sn, w) ==
    /\ SkipOnes(fn, sn) = w[fn]
    /\ w[0] = <<fn, sn>> /\ \A k \in 1 .. fn : w[k] = ShiftOne(w[k - 1])

LEMMA SkipOnesRuns ==
  ASSUME NEW fn \in Nat, NEW sn
  PROVE  \E w : OnesRounds(fn, sn, w)
<1> DEFINE start == <<fn, sn>>
           T == {m \in Nat : \E w : OnesRun(fn, sn, w, m)}
<1>1. 0 \in T
  <2>1. OnesRun(fn, sn, [k \in 0 .. 0 |-> start], 0)
    BY DEF OnesRun
  <2> QED BY <2>1
<1>2. ASSUME NEW m \in T PROVE m + 1 \in T
  <2>1. PICK w : OnesRun(fn, sn, w, m)
    OBVIOUS
  <2> DEFINE v == [k \in 0 .. m + 1 |-> IF k \in 0 .. m THEN w[k] ELSE ShiftOne(w[m])]
  <2>2. \A k \in 0 .. m : w[k] = IF k = 0 THEN start ELSE ShiftOne(w[k - 1])
    BY <2>1 DEF OnesRun
  <2> HIDE DEF start
  <2>3. \A k \in 0 .. m + 1 : v[k] = IF k = 0 THEN start ELSE ShiftOne(v[k - 1])
    BY <2>2
  <2>4. OnesRun(fn, sn, v, m + 1)
    BY <2>3 DEF OnesRun, start
  <2> QED BY <2>4
<1>3. fn \in T
  <2> HIDE DEF T
  <2>1. T \subseteq Nat
    BY DEF T
  <2> QED BY <1>1, <1>2, <2>1, Induction
<1> DEFINE after == CHOOSE w : OnesRun(fn, sn, w, fn)
<1>4. OnesRun(fn, sn, after, fn)
  BY <1>3
<1>5. SkipOnes(fn, sn) = after[fn]
  BY DEF SkipOnes, Loop, OnesRun, ShiftOne
<1> HIDE DEF after
<1>6. \A k \in 0 .. fn : after[k] = IF k = 0 THEN start ELSE ShiftOne(after[k - 1])
  BY <1>4 DEF OnesRun
<1> HIDE DEF start
<1>7. after[0] = start /\ \A k \in 1 .. fn : after[k] = ShiftOne(after[k - 1])
  BY <1>6
<1> QED BY <1>5, <1>7, Zenon DEF start, OnesRounds

\* The descent that compares two trees.
Descended(s, n) == Loop(n, Descend, s)

DescentRun(s, w, n) == w = [k \in 0 .. n |-> IF k = 0 THEN s ELSE Descend(w[k - 1])]

LEMMA DescentRuns ==
  ASSUME NEW s, NEW n \in Nat
  PROVE  \E w : /\ Descended(s, n) = w[n]
                /\ w[0] = s /\ \A k \in 1 .. n : w[k] = Descend(w[k - 1])
<1> DEFINE start == s
           T == {m \in Nat : \E w : DescentRun(s, w, m)}
<1>1. 0 \in T
  <2>1. DescentRun(s, [k \in 0 .. 0 |-> start], 0)
    BY DEF DescentRun
  <2> QED BY <2>1
<1>2. ASSUME NEW m \in T PROVE m + 1 \in T
  <2>1. PICK w : DescentRun(s, w, m)
    OBVIOUS
  <2> DEFINE v == [k \in 0 .. m + 1 |-> IF k \in 0 .. m THEN w[k] ELSE Descend(w[m])]
  <2>2. \A k \in 0 .. m : w[k] = IF k = 0 THEN start ELSE Descend(w[k - 1])
    BY <2>1 DEF DescentRun
  <2> HIDE DEF start
  <2>3. \A k \in 0 .. m + 1 : v[k] = IF k = 0 THEN start ELSE Descend(v[k - 1])
    BY <2>2
  <2>4. DescentRun(s, v, m + 1)
    BY <2>3 DEF DescentRun, start
  <2> QED BY <2>4
<1>3. n \in T
  <2> HIDE DEF T
  <2>1. T \subseteq Nat
    BY DEF T
  <2> QED BY <1>1, <1>2, <2>1, Induction
<1> DEFINE after == CHOOSE w : DescentRun(s, w, n)
<1>4. DescentRun(s, after, n)
  BY <1>3
<1>5. Descended(s, n) = after[n]
  BY DEF Descended, Loop, DescentRun
<1> HIDE DEF after
<1>6. \A k \in 0 .. n : after[k] = IF k = 0 THEN start ELSE Descend(after[k - 1])
  BY <1>4 DEF DescentRun
<1> HIDE DEF start
<1>7. after[0] = start /\ \A k \in 1 .. n : after[k] = Descend(after[k - 1])
  BY <1>6
<1> QED BY <1>5, <1>7, Zenon DEF start

\* What the inner loop of a consistency proof leaves: an odd node, at its own level.
Skipped(s, fn, sn, w, y, z) ==
    \E v \in Powers :
        /\ At(s[1], y, v) /\ At(s[2], z, v) /\ s[1] * v = fn * w /\ s[1] # 0
        /\ fn < sn => s[1] < s[2] /\ v = w
        /\ fn = sn => s[1] = s[2]

LEMMA ShiftsZero ==
  ASSUME NEW w \in Powers, NEW y \in Nat, NEW z \in Nat, NEW fn \in Nat, NEW sn \in Nat, fn <= sn,
         Odd(fn) \/ fn = sn, NEW s, Skipped(s, fn, sn, w, y, z), fn < sn => s = <<fn, sn>>
  PROVE  /\ Skipped(ShiftZero(s), fn, sn, w, y, z)
         /\ fn < sn => ShiftZero(s) = <<fn, sn>>
         /\ s[1] \in Nat /\ ShiftZero(s)[1] \in Nat
         /\ ~ Odd(s[1]) => ShiftZero(s)[1] < s[1]
<1>1. PICK v \in Powers : /\ At(s[1], y, v) /\ At(s[2], z, v) /\ s[1] * v = fn * w /\ s[1] # 0
                          /\ fn < sn => s[1] < s[2] /\ v = w
                          /\ fn = sn => s[1] = s[2]
  BY DEF Skipped
<1>2. s[1] \in Nat /\ s[2] \in Nat /\ v \in Nat /\ 2 * v \in Powers
  BY <1>1, PowersDouble DEF At
<1>3. CASE Odd(s[1])
  <2>1. ShiftZero(s) = s
    BY <1>3 DEF ShiftZero
  <2> QED BY <1>2, <1>3, <2>1
<1>4. CASE ~ Odd(s[1])
  <2>1. fn = sn
    BY <1>4
  <2>2. s[1] = s[2]
    BY <1>1, <2>1
  <2>3. At(Half(s[1]), y, 2 * v) /\ At(Half(s[2]), z, 2 * v) /\ Half(s[1]) * (2 * v) = s[1] * v
    BY <1>1, <1>2, <1>4, HalfAt
  <2>4. ShiftZero(s)[1] = Half(s[1]) /\ ShiftZero(s)[2] = Half(s[2])
    BY <1>1, <1>4 DEF ShiftZero
  <2>5. Half(s[1]) \in Nat /\ Half(s[1]) # 0 /\ Half(s[1]) < s[1]
    BY <1>1, <1>2, <1>4 DEF Half, Odd
  <2>6. Skipped(ShiftZero(s), fn, sn, w, y, z)
    <3> DEFINE t == ShiftZero(s)
               u == 2 * v
    <3>1. u \in Powers /\ At(t[1], y, u) /\ At(t[2], z, u) /\ t[1] * u = fn * w /\ t[1] # 0 /\ t[1] = t[2]
      BY <1>1, <1>2, <2>2, <2>3, <2>4, <2>5
    <3> HIDE DEF t, u
    <3> QED BY <2>1, <3>1 DEF Skipped, t
  <2> QED BY <1>2, <2>1, <2>4, <2>5, <2>6
<1> QED BY <1>3, <1>4

LEMMA SkipZerosHolds ==
  ASSUME NEW w \in Powers, NEW y \in Nat, NEW z \in Nat, NEW fn, NEW sn, fn <= sn, fn # 0 \/ sn # 0,
         At(fn, y, w), At(sn, z, w), Odd(fn) \/ fn = sn
  PROVE  Skipped(SkipZeros(fn, sn), fn, sn, w, y, z) /\ Odd(SkipZeros(fn, sn)[1])
<1>1. fn \in Nat /\ sn \in Nat /\ fn # 0
  <2>1. fn \in Nat /\ sn \in Nat
    BY DEF At
  <2>2. ~ Odd(0)
    BY DEF Odd
  <2> QED BY <2>1, <2>2
<1>0. PICK r : ZerosRounds(fn, sn, r)
  BY <1>1, SkipZerosRuns
<1>2. /\ SkipZeros(fn, sn) = r[fn]
      /\ r[0] = <<fn, sn>> /\ \A k \in 1 .. fn : r[k] = ShiftZero(r[k - 1])
  BY <1>0 DEF ZerosRounds
<1> DEFINE Q(k) == /\ Skipped(r[k], fn, sn, w, y, z) /\ (fn < sn => r[k] = <<fn, sn>>)
                   /\ r[k][1] \in Nat /\ (Odd(r[k][1]) \/ r[k][1] + k <= fn)
           T == {k \in Nat : k <= fn => Q(k)}
<1>3. 0 \in T
  <2> DEFINE s == <<fn, sn>>
  <2>1. s[1] = fn /\ s[2] = sn
    OBVIOUS
  <2>2. Skipped(s, fn, sn, w, y, z)
    <3> HIDE DEF s
    <3> QED BY <1>1, <2>1 DEF Skipped
  <2>3. r[0] = s
    BY <1>2
  <2> HIDE DEF s
  <2>4. s = <<fn, sn>>
    BY DEF s
  <2>5. Q(0)
    BY <1>1, <2>1, <2>2, <2>3, <2>4
  <2> QED BY <2>5
<1>4. ASSUME NEW k \in T PROVE k + 1 \in T
  <2> SUFFICES ASSUME k + 1 <= fn PROVE Q(k + 1)
    OBVIOUS
  <2>1. k + 1 \in 1 .. fn /\ (k + 1) - 1 = k /\ Q(k)
    BY <1>1
  <2> DEFINE s == r[k]
             t == ShiftZero(s)
  <2>2. r[k + 1] = t
    BY <1>2, <2>1
  <2>3. Skipped(s, fn, sn, w, y, z) /\ (fn < sn => s = <<fn, sn>>)
        /\ s[1] \in Nat /\ (Odd(s[1]) \/ s[1] + k <= fn)
    BY <2>1
  <2> HIDE DEF s
  <2>4. /\ Skipped(t, fn, sn, w, y, z) /\ (fn < sn => t = <<fn, sn>>)
        /\ t[1] \in Nat /\ (~ Odd(s[1]) => t[1] < s[1])
    BY <1>1, <2>3, ShiftsZero
  <2>5. Odd(s[1]) => t = s
    BY DEF ShiftZero
  <2> HIDE DEF t
  <2>6. Odd(t[1]) \/ t[1] + (k + 1) <= fn
    BY <1>1, <2>3, <2>4, <2>5
  <2> QED BY <2>2, <2>4, <2>6
<1>5. fn \in T
  <2>1. T \subseteq Nat
    OBVIOUS
  <2> HIDE DEF T
  <2> QED BY <1>1, <1>3, <1>4, <2>1, Induction
<1>6. Q(fn)
  BY <1>1, <1>5
<1>7. r[fn][1] # 0
  BY <1>6 DEF Skipped
<1>8. Odd(r[fn][1])
  BY <1>1, <1>6, <1>7
<1> QED BY <1>2, <1>6, <1>8

\* The outer loop starts at the level where the old tree ends with a node of its own.
LEMMA SkipOnesHolds ==
  ASSUME NEW y \in Nat, NEW z \in Nat, y < z
  PROVE  LET s == SkipOnes(y, z)
         IN \E v \in Powers : At(s[1], y, v) /\ At(s[2], z, v) /\ s[1] < s[2] /\ (s[1] + 1) * v = y + 1
<1>0. PICK r : OnesRounds(y, z, r)
  BY SkipOnesRuns
<1>1. /\ SkipOnes(y, z) = r[y]
      /\ r[0] = <<y, z>> /\ \A k \in 1 .. y : r[k] = ShiftOne(r[k - 1])
  BY <1>0 DEF OnesRounds
<1> DEFINE P(s) == \E v \in Powers : At(s[1], y, v) /\ At(s[2], z, v) /\ s[1] < s[2] /\ (s[1] + 1) * v = y + 1
           T == {k \in Nat : k <= y => P(r[k])}
<1>2. 0 \in T
  <2> DEFINE s == <<y, z>>
  <2>1. s[1] = y /\ s[2] = z
    OBVIOUS
  <2> HIDE DEF s
  <2>2. At(s[1], y, 1) /\ At(s[2], z, 1) /\ s[1] < s[2] /\ (s[1] + 1) * 1 = y + 1
    BY <2>1 DEF At
  <2>3. P(s)
    BY <2>2, PowersDouble
  <2>4. r[0] = s
    BY <1>1 DEF s
  <2> QED BY <2>3, <2>4
<1>3. ASSUME NEW k \in T PROVE k + 1 \in T
  <2> SUFFICES ASSUME k + 1 <= y PROVE P(r[k + 1])
    OBVIOUS
  <2>1. k + 1 \in 1 .. y /\ (k + 1) - 1 = k /\ P(r[k])
    OBVIOUS
  <2> DEFINE s == r[k]
  <2>2. r[k + 1] = ShiftOne(s)
    BY <1>1, <2>1
  <2>3. P(s)
    BY <2>1
  <2> HIDE DEF s
  <2>4. P(ShiftOne(s))
    <3>1. PICK v \in Powers : At(s[1], y, v) /\ At(s[2], z, v) /\ s[1] < s[2] /\ (s[1] + 1) * v = y + 1
      BY <2>3
    <3>2. s[1] \in Nat /\ s[2] \in Nat /\ v \in Nat /\ 2 * v \in Powers
      BY <3>1, PowersDouble DEF At
    <3>3. CASE ~ Odd(s[1])
      <4>1. ShiftOne(s) = s
        BY <3>3 DEF ShiftOne
      <4> QED BY <2>3, <4>1
    <3>4. CASE Odd(s[1])
      <4> DEFINE t == ShiftOne(s)
                 h == Half(s[1])
                 u == 2 * v
      <4>1. t[1] = h /\ t[2] = Half(s[2])
        BY <3>4 DEF ShiftOne
      <4>2. At(h, y, u) /\ At(t[2], z, u)
        <5>1. At(Half(s[1]), y, 2 * v) /\ At(Half(s[2]), z, 2 * v)
          BY <3>1, <3>2, HalfAt
        <5> QED BY <4>1, <5>1
      <4>3. h \in Nat /\ s[1] = 2 * h + 1 /\ h < t[2]
        BY <3>1, <3>2, <3>4, <4>1 DEF Half, Odd
      <4>4. (h + 1) * u = y + 1
        <5>1. (s[1] + 1) * v = y + 1
          BY <3>1
        <5> HIDE DEF h
        <5>2. (h + 1) * (2 * v) = ((2 * h + 1) + 1) * v
          BY <3>2, <4>3
        <5> QED BY <4>3, <5>1, <5>2
      <4>5. u \in Powers
        BY <3>2
      <4> HIDE DEF t, u, h
      <4>6. P(t)
        BY <4>1, <4>2, <4>3, <4>4, <4>5
      <4> QED BY <4>6 DEF t
    <3> QED BY <3>3, <3>4
  <2> QED BY <2>2, <2>4
<1>4. y \in T
  <2>1. T \subseteq Nat
    OBVIOUS
  <2> HIDE DEF T
  <2> QED BY <1>2, <1>3, <2>1, Induction
<1>5. P(r[y])
  BY <1>4
<1> QED BY <1>1, <1>5

\* The comparison of two trees ends where it is done, and goes on from where it is.
LEMMA DescentStays ==
  ASSUME NEW s, s.n = s.size, NEW n \in Nat
  PROVE  Descended(s, n) = s
<1>1. PICK r : Descended(s, n) = r[n] /\ r[0] = s /\ \A k \in 1 .. n : r[k] = Descend(r[k - 1])
  BY DescentRuns
<1>2. Descend(s) = s
  BY DEF Descend
<1> DEFINE T == {k \in Nat : k <= n => r[k] = s}
<1>3. 0 \in T
  BY <1>1
<1>4. ASSUME NEW k \in T PROVE k + 1 \in T
  <2> SUFFICES ASSUME k + 1 <= n PROVE r[k + 1] = s
    OBVIOUS
  <2>1. k + 1 \in 1 .. n /\ (k + 1) - 1 = k /\ r[k] = s
    OBVIOUS
  <2> QED BY <1>1, <1>2, <2>1
<1>5. n \in T
  <2>1. T \subseteq Nat
    OBVIOUS
  <2> HIDE DEF T
  <2> QED BY <1>3, <1>4, <2>1, Induction
<1> QED BY <1>1, <1>5

LEMMA DescentGoesOn ==
  ASSUME NEW s, NEW t, Descend(s) = t, NEW m \in Nat, NEW n \in Nat, m < n, Agrees(Descended(t, m))
  PROVE  Agrees(Descended(s, n))
<1>1. PICK q : Descended(t, m) = q[m] /\ q[0] = t /\ \A k \in 1 .. m : q[k] = Descend(q[k - 1])
  BY DescentRuns
<1>2. PICK r : Descended(s, n) = r[n] /\ r[0] = s /\ \A k \in 1 .. n : r[k] = Descend(r[k - 1])
  BY DescentRuns
<1> DEFINE e == q[m]
           T == {k \in Nat : k + 1 <= n => r[k + 1] = IF k <= m THEN q[k] ELSE e}
<1>3. Descend(e) = e
  BY <1>1 DEF Agrees, Descend
<1>4. 0 \in T
  <2>1. 1 \in 1 .. n /\ 1 - 1 = 0 /\ 0 + 1 = 1
    OBVIOUS
  <2>2. r[1] = Descend(r[0])
    BY <1>2, <2>1
  <2> QED BY <1>1, <1>2, <2>2
<1>5. ASSUME NEW k \in T PROVE k + 1 \in T
  <2> SUFFICES ASSUME (k + 1) + 1 <= n PROVE r[(k + 1) + 1] = IF k + 1 <= m THEN q[k + 1] ELSE e
    OBVIOUS
  <2>1. (k + 1) + 1 \in 1 .. n /\ ((k + 1) + 1) - 1 = k + 1 /\ r[k + 1] = IF k <= m THEN q[k] ELSE e
    OBVIOUS
  <2>2. r[(k + 1) + 1] = Descend(r[k + 1])
    BY <1>2, <2>1
  <2>3. CASE k + 1 <= m
    <3>1. k + 1 \in 1 .. m /\ (k + 1) - 1 = k
      BY <2>3
    <3>2. q[k + 1] = Descend(q[k])
      BY <1>1, <3>1
    <3> QED BY <2>1, <2>2, <2>3, <3>2
  <2>4. CASE ~ (k + 1 <= m)
    <3>1. r[k + 1] = e
      <4>1. k = m \/ ~ (k <= m)
        BY <2>4
      <4> QED BY <2>1, <4>1
    <3> QED BY <1>3, <2>2, <2>4, <3>1
  <2> QED BY <2>3, <2>4
<1>6. n - 1 \in T
  <2>1. T \subseteq Nat
    OBVIOUS
  <2> HIDE DEF T
  <2>2. T = Nat
    BY <1>4, <1>5, <2>1, Induction
  <2> QED BY <2>2
<1>7. r[n] = e
  <2>1. (n - 1) + 1 = n /\ (n - 1 <= m => n - 1 = m)
    OBVIOUS
  <2> QED BY <1>6, <2>1
<1> QED BY <1>1, <1>2, <1>7

LEMMA PieceFields ==
  \A old, new, size, n : LET s == Piece(old, new, size, n)
                         IN s.old = old /\ s.new = new /\ s.size = size /\ s.n = n
BY DEF Piece

LEMMA NodeFields == \A x, y : Node(x, y)[1] = "node" /\ Node(x, y)[2] = x /\ Node(x, y)[3] = y
BY DEF Node

\* A digest is a prefix of a node that it is the left one of, or that it shares the left one with.
LEMMA PrefixOfLeft ==
  ASSUME NEW p \in Powers, NEW q \in 1 .. p, NEW n \in 1 .. p, NEW old, NEW new, NEW x,
         IsPrefixTree(old, new, p, n)
  PROVE  IsPrefixTree(old, Node(new, x), p + q, n)
<1> DEFINE s == Piece(old, Node(new, x), p + q, n)
           t == Piece(old, new, p, n)
<1>1. p \in Nat /\ q \in Nat /\ n \in Nat /\ p + q \in Nat /\ p < p + q /\ n <= p /\ n # p + q
  BY PowersDouble
<1>2. Descend(s) = t
  <2>1. s.old = old /\ s.new = Node(new, x) /\ s.size = p + q /\ s.n = n
    BY PieceFields
  <2>2. s.new[1] = "node" /\ s.new[2] = new
    BY <2>1, NodeFields
  <2>3. LargestPowerOfTwoLessThan(s.size) = p
    BY <2>1, LargestPower
  <2> HIDE DEF s
  <2> QED BY <1>1, <2>1, <2>2, <2>3 DEF Descend
<1>3. Agrees(Descended(t, p))
  BY DEF IsPrefixTree, Descended
<1> HIDE DEF s, t
<1>4. Agrees(Descended(s, p + q))
  BY <1>1, <1>2, <1>3, DescentGoesOn
<1> QED BY <1>4 DEF IsPrefixTree, Descended, s

LEMMA PrefixOfRight ==
  ASSUME NEW p \in Powers, NEW q \in 1 .. p, NEW n \in 1 .. q, NEW old, NEW new, NEW x,
         IsPrefixTree(old, new, q, n)
  PROVE  IsPrefixTree(Node(x, old), Node(x, new), p + q, p + n)
<1> DEFINE s == Piece(Node(x, old), Node(x, new), p + q, p + n)
           t == Piece(old, new, q, n)
<1>1. p \in Nat /\ q \in Nat /\ n \in Nat /\ p + q \in Nat /\ q < p + q /\ ~ (p + n <= p)
      /\ (p + q) - p = q /\ (p + n) - p = n /\ (p + n = p + q <=> n = q)
  BY PowersDouble
<1>2. s.old = Node(x, old) /\ s.new = Node(x, new) /\ s.size = p + q /\ s.n = p + n
  BY PieceFields
<1>3. t.old = old /\ t.new = new /\ t.size = q /\ t.n = n
  BY PieceFields
<1>4. Agrees(Descended(t, q))
  BY DEF IsPrefixTree, Descended
<1>5. CASE n = q
  <2> HIDE DEF s, t
  <2>1. Descended(t, q) = t /\ Descended(s, p + q) = s
    BY <1>1, <1>2, <1>3, <1>5, DescentStays
  <2>2. old = new
    BY <1>3, <1>4, <2>1 DEF Agrees
  <2>3. Agrees(Descended(s, p + q))
    BY <1>2, <1>5, <2>1, <2>2 DEF Agrees
  <2> QED BY <2>3 DEF IsPrefixTree, Descended, s
<1>6. CASE n # q
  <2>1. /\ s.new[1] = "node" /\ s.new[2] = x /\ s.new[3] = new
        /\ s.old[1] = "node" /\ s.old[2] = x /\ s.old[3] = old
    BY <1>2, NodeFields
  <2>2. LargestPowerOfTwoLessThan(s.size) = p
    BY <1>2, LargestPower
  <2>3. Descend(s) = t
    <3> HIDE DEF s
    <3> QED BY <1>1, <1>2, <1>6, <2>1, <2>2 DEF Descend
  <2> HIDE DEF s, t
  <2>4. Agrees(Descended(s, p + q))
    BY <1>1, <1>4, <2>3, DescentGoesOn
  <2> QED BY <2>4 DEF IsPrefixTree, Descended, s
<1> QED BY <1>5, <1>6

LEMMA PrefixOfItself ==
  ASSUME NEW n \in Nat, NEW tree
  PROVE  IsPrefixTree(tree, tree, n, n)
<1> DEFINE s == Piece(tree, tree, n, n)
<1>1. s.old = tree /\ s.new = tree /\ s.size = n /\ s.n = n
  BY PieceFields
<1> HIDE DEF s
<1>2. Descended(s, n) = s
  BY <1>1, DescentStays
<1>3. Agrees(Descended(s, n))
  BY <1>1, <1>2 DEF Agrees
<1> QED BY <1>3 DEF IsPrefixTree, Descended, s

\* What the two digests of verifyRfc6962Consistency() are in every round: the old one is
\* the prefix of the new one that ends with the old tree.
Width(fn, sn, w, z) == IF fn < sn THEN w ELSE z + 1 - fn * w

Covered(s, w, y, z) ==
    /\ At(s.fn, y, w) /\ At(s.sn, z, w) /\ s.fn <= s.sn
    /\ IsPrefixTree(s.old, s.new, Width(s.fn, s.sn, w, z), y + 1 - s.fn * w)

\* Nonlinear facts about a node, its neighbour and their parent.
LEMMA Products ==
  ASSUME NEW h \in Nat, NEW w \in Nat
  PROVE  /\ h * w \in Nat /\ h * (2 * w) = 2 * (h * w) /\ (2 * h) * w = 2 * (h * w)
         /\ (h + 1) * w = h * w + w /\ (2 * h + 1) * w = 2 * (h * w) + w
         /\ (h + 1) * (2 * w) = 2 * (h * w) + 2 * w
OBVIOUS

\* A node that has its sibling on the right: w leaves on the left, and what is there of w.
LEMMA LiftsLeft ==
  ASSUME NEW y \in Nat, NEW z \in Nat, NEW w \in Powers, NEW fn, NEW sn, At(fn, y, w), At(sn, z, w),
         ~ Odd(fn), fn < sn
  PROVE  /\ At(Half(fn), y, 2 * w) /\ At(Half(sn), z, 2 * w) /\ Half(fn) <= Half(sn)
         /\ Half(fn) * (2 * w) = fn * w /\ fn * w \in Nat /\ y + 1 - fn * w \in 1 .. w
         /\ \E q \in 1 .. w : Width(Half(fn), Half(sn), 2 * w, z) = w + q
<1> DEFINE h == Half(fn)
           g == Half(sn)
           a == fn * w
           n == y + 1 - a
<1>1. fn \in Nat /\ sn \in Nat /\ w \in Nat /\ w >= 1 /\ h \in Nat /\ g \in Nat /\ fn = 2 * h /\ h <= g
      /\ (sn = 2 * g \/ sn = 2 * g + 1)
  BY PowersDouble DEF At, Half, Odd
<1>2. At(h, y, 2 * w) /\ At(g, z, 2 * w) /\ h * (2 * w) = a
  BY <1>1, HalfAt
<1>3. a \in Nat /\ (fn + 1) * w = a + w
  BY <1>1, Products
<1>4. n \in 1 .. w
  BY <1>1, <1>3 DEF At
<1>5. CASE h < g
  <2>1. Width(h, g, 2 * w, z) = w + w /\ w \in 1 .. w
    BY <1>1, <1>5 DEF Width
  <2> HIDE DEF h, g, a, n
  <2> QED BY <1>1, <1>2, <1>3, <1>4, <2>1 DEF n, h, g, a
<1>6. CASE ~ (h < g)
  <2>1. h = g /\ sn = fn + 1
    BY <1>1, <1>6
  <2> DEFINE q == z + 1 - (a + w)
  <2>2. (h + 1) * (2 * w) = a + 2 * w
    BY <1>1, <1>2, Products
  <2>3. a + w <= z /\ z < a + 2 * w
    <3> HIDE DEF a
    <3>1. sn * w <= z
      BY DEF At
    <3>2. z < (h + 1) * (2 * w)
      BY <1>2, <2>1 DEF At
    <3> HIDE DEF h
    <3> QED BY <1>3, <2>1, <2>2, <3>1, <3>2
  <2>4. q \in 1 .. w
    <3> HIDE DEF a
    <3> QED BY <1>1, <1>3, <2>3
  <2>5. Width(h, g, 2 * w, z) = w + q
    <3>1. Width(h, g, 2 * w, z) = z + 1 - a
      <4> HIDE DEF h, g, a
      <4> QED BY <1>1, <1>2, <1>6, <2>1 DEF Width
    <3> HIDE DEF a, h, g
    <3> QED BY <1>1, <1>3, <3>1
  <2> HIDE DEF q, h, g, a, n
  <2> QED BY <1>1, <1>2, <1>3, <1>4, <2>4, <2>5 DEF n, h, g, a
<1> QED BY <1>5, <1>6

\* A node that has its sibling on the left: v leaves on the left, and its own.
Lifted(r, v, fn, sn, w, y, z) ==
    /\ At(Half(r[1]), y, 2 * v) /\ At(Half(r[2]), z, 2 * v) /\ Half(r[1]) <= Half(r[2])
    /\ Width(fn, sn, w, z) \in 1 .. v /\ y + 1 - fn * w \in 1 .. Width(fn, sn, w, z)
    /\ Width(Half(r[1]), Half(r[2]), 2 * v, z) = v + Width(fn, sn, w, z)
    /\ y + 1 - Half(r[1]) * (2 * v) = v + (y + 1 - fn * w)

LEMMA LiftsOdd ==
  ASSUME NEW y \in Nat, NEW z \in Nat, y <= z, NEW w \in Powers, NEW fn, NEW sn, At(fn, y, w), At(sn, z, w),
         Odd(fn), fn <= sn
  PROVE  Lifted(<<fn, sn>>, w, fn, sn, w, y, z)
<1> DEFINE h == Half(fn)
           g == Half(sn)
           a == fn * w
           n == y + 1 - a
           q == Width(fn, sn, w, z)
<1>1. fn \in Nat /\ sn \in Nat /\ w \in Nat /\ w >= 1 /\ h \in Nat /\ g \in Nat /\ fn = 2 * h + 1 /\ h <= g
      /\ (fn < sn => h < g) /\ (fn = sn => h = g)
  BY PowersDouble DEF At, Half, Odd
<1>2. At(h, y, 2 * w) /\ At(g, z, 2 * w)
  BY <1>1, HalfAt
<1>3. a \in Nat /\ (fn + 1) * w = a + w
  BY <1>1, Products
<1>4. h * (2 * w) = a - w
  <2> HIDE DEF h
  <2>1. (2 * h + 1) * w = 2 * (h * w) + w /\ h * (2 * w) = 2 * (h * w) /\ h * w \in Nat
    BY <1>1, Products
  <2> QED BY <1>1, <2>1
<1>5. n \in 1 .. w /\ y < a + w
  BY <1>1, <1>3 DEF At
<1>6. q \in 1 .. w /\ n \in 1 .. q /\ Width(h, g, 2 * w, z) = w + q
  <2>1. CASE fn < sn
    <3>1. q = w /\ Width(h, g, 2 * w, z) = 2 * w
      BY <1>1, <2>1 DEF Width
    <3> HIDE DEF q, n, h, g
    <3> QED BY <1>1, <1>5, <3>1
  <2>2. CASE ~ (fn < sn)
    <3>1. fn = sn /\ h = g
      BY <1>1, <2>2
    <3>2. q = z + 1 - a
      <4> HIDE DEF h, g
      <4> QED BY <1>1, <2>2 DEF Width
    <3>3. Width(h, g, 2 * w, z) = z + 1 - (a - w)
      <4>1. ~ (h < g)
        BY <1>1, <3>1
      <4> HIDE DEF h, g, a
      <4> QED BY <1>1, <1>4, <4>1 DEF Width
    <3>4. z < a + w
      <4>1. z < (sn + 1) * w
        BY DEF At
      <4> HIDE DEF a
      <4> QED BY <1>3, <3>1, <4>1
    <3> HIDE DEF q, h, g
    <3>5. n = y + 1 - a
      OBVIOUS
    <3> HIDE DEF n, a
    <3> QED BY <1>1, <1>3, <1>5, <3>2, <3>3, <3>4, <3>5
  <2> QED BY <2>1, <2>2
<1>7. y + 1 - h * (2 * w) = w + n
  <2>1. n = y + 1 - a
    OBVIOUS
  <2> HIDE DEF a, h, n
  <2> QED BY <1>1, <1>3, <1>4, <2>1
<1> QED BY <1>1, <1>2, <1>6, <1>7 DEF Lifted

LEMMA LiftsRight ==
  ASSUME NEW y \in Nat, NEW z \in Nat, y <= z, NEW w \in Powers, NEW fn, NEW sn, At(fn, y, w), At(sn, z, w),
         Odd(fn) \/ fn = sn, fn <= sn, sn # 0
  PROVE  \E v \in Powers : Lifted(SkipZeros(fn, sn), v, fn, sn, w, y, z)
<1> DEFINE r == SkipZeros(fn, sn)
<1>1. fn \in Nat /\ sn \in Nat /\ w \in Nat
  BY PowersDouble DEF At
<1>2. Skipped(r, fn, sn, w, y, z) /\ Odd(r[1])
  BY <1>1, SkipZerosHolds
<1> HIDE DEF r
<1>3. PICK v \in Powers :
         /\ At(r[1], y, v) /\ At(r[2], z, v) /\ r[1] * v = fn * w /\ r[1] # 0
         /\ fn < sn => r[1] < r[2] /\ v = w
         /\ fn = sn => r[1] = r[2]
  BY <1>2 DEF Skipped
<1>4. r[1] \in Nat /\ r[2] \in Nat /\ r[1] <= r[2]
  BY <1>1, <1>3 DEF At
<1>5. Width(r[1], r[2], v, z) = Width(fn, sn, w, z)
  <2>1. CASE fn < sn
    BY <1>3, <2>1 DEF Width
  <2>2. CASE ~ (fn < sn)
    <3>1. fn = sn /\ r[1] = r[2]
      BY <1>1, <1>3, <2>2
    <3>2. ~ (r[1] < r[2])
      BY <1>4, <3>1
    <3> QED BY <1>3, <2>2, <3>2 DEF Width
  <2> QED BY <2>1, <2>2
<1>6. Lifted(<<r[1], r[2]>>, v, r[1], r[2], v, y, z)
  BY <1>2, <1>3, <1>4, LiftsOdd
<1>7. Lifted(r, v, fn, sn, w, y, z)
  BY <1>3, <1>5, <1>6 DEF Lifted
<1> QED BY <1>7 DEF r

LEMMA GrownFields ==
  \A old, new, fn, sn, path : LET s == Grown(old, new, fn, sn, path)
                              IN s.old = old /\ s.new = new /\ s.fn = fn /\ s.sn = sn /\ s.path = path
BY DEF Grown

LEMMA GrowCovers ==
  ASSUME NEW y \in Nat, NEW z \in Nat, y <= z, NEW s, NEW w \in Powers, Covered(s, w, y, z)
  PROVE  \E v \in Powers : Covered(RfcGrow(s), v, y, z)
<1> DEFINE right == Odd(s.fn) \/ s.fn = s.sn
           r == SkipZeros(s.fn, s.sn)
           x == Head(s.path)
<1>1. /\ At(s.fn, y, w) /\ At(s.sn, z, w) /\ s.fn <= s.sn
      /\ IsPrefixTree(s.old, s.new, Width(s.fn, s.sn, w, z), y + 1 - s.fn * w)
  BY DEF Covered
<1>2. s.fn \in Nat /\ s.sn \in Nat /\ w \in Nat
  BY <1>1, PowersDouble DEF At
<1>3. CASE s.sn = 0 \/ s.path = <<>>
  BY <1>3 DEF RfcGrow
<1>4. CASE ~ (s.sn = 0 \/ s.path = <<>>) /\ right
  <2> DEFINE t == Grown(Node(x, s.old), Node(x, s.new), Half(r[1]), Half(r[2]), Tail(s.path))
  <2>1. RfcGrow(s) = t
    BY <1>4 DEF RfcGrow
  <2>2. PICK v \in Powers : Lifted(r, v, s.fn, s.sn, w, y, z)
    BY <1>1, <1>2, <1>4, LiftsRight
  <2>3. IsPrefixTree(Node(x, s.old), Node(x, s.new), v + Width(s.fn, s.sn, w, z), v + (y + 1 - s.fn * w))
    <3> DEFINE q == Width(s.fn, s.sn, w, z)
               n == y + 1 - s.fn * w
    <3>1. q \in 1 .. v /\ n \in 1 .. q /\ IsPrefixTree(s.old, s.new, q, n)
      BY <1>1, <2>2 DEF Lifted
    <3> HIDE DEF q, n
    <3>2. IsPrefixTree(Node(x, s.old), Node(x, s.new), v + q, v + n)
      BY <3>1, PrefixOfRight
    <3> QED BY <3>2 DEF q, n
  <2>4. t.old = Node(x, s.old) /\ t.new = Node(x, s.new) /\ t.fn = Half(r[1]) /\ t.sn = Half(r[2])
    BY GrownFields
  <2> HIDE DEF t, r
  <2>5. Covered(t, 2 * v, y, z)
    BY <2>2, <2>3, <2>4 DEF Covered, Lifted
  <2> QED BY <2>1, <2>5, PowersDouble
<1>5. CASE ~ (s.sn = 0 \/ s.path = <<>>) /\ ~ right
  <2> DEFINE t == Grown(s.old, Node(s.new, x), Half(s.fn), Half(s.sn), Tail(s.path))
             n == y + 1 - s.fn * w
  <2>1. RfcGrow(s) = t
    BY <1>5 DEF RfcGrow
  <2>2. ~ Odd(s.fn) /\ s.fn < s.sn
    BY <1>1, <1>2, <1>5
  <2>3. /\ At(Half(s.fn), y, 2 * w) /\ At(Half(s.sn), z, 2 * w) /\ Half(s.fn) <= Half(s.sn)
        /\ Half(s.fn) * (2 * w) = s.fn * w /\ n \in 1 .. w
    BY <1>1, <2>2, LiftsLeft
  <2>4. PICK q \in 1 .. w : Width(Half(s.fn), Half(s.sn), 2 * w, z) = w + q
    BY <1>1, <2>2, LiftsLeft
  <2>5. IsPrefixTree(s.old, s.new, w, n)
    BY <1>1, <2>2 DEF Width
  <2>6. t.old = s.old /\ t.new = Node(s.new, x) /\ t.fn = Half(s.fn) /\ t.sn = Half(s.sn)
    BY GrownFields
  <2>7. y + 1 - Half(s.fn) * (2 * w) = n
    BY <2>3
  <2> HIDE DEF t, n
  <2>8. IsPrefixTree(s.old, Node(s.new, x), w + q, n)
    BY <2>3, <2>5, PrefixOfLeft
  <2>9. Covered(t, 2 * w, y, z)
    BY <2>3, <2>4, <2>6, <2>7, <2>8 DEF Covered
  <2> QED BY <2>1, <2>9, PowersDouble
<1> QED BY <1>3, <1>4, <1>5

\* Where n digests of a consistency path lead to.
GrownFor(s, n) == Loop(n, RfcGrow, s)

GrowRun(s, w, n) == w = [k \in 0 .. n |-> IF k = 0 THEN s ELSE RfcGrow(w[k - 1])]

LEMMA GrowRuns ==
  ASSUME NEW s, NEW n \in Nat
  PROVE  \E w : /\ GrownFor(s, n) = w[n]
                /\ w[0] = s /\ \A k \in 1 .. n : w[k] = RfcGrow(w[k - 1])
<1> DEFINE start == s
           T == {m \in Nat : \E w : GrowRun(s, w, m)}
<1>1. 0 \in T
  <2>1. GrowRun(s, [k \in 0 .. 0 |-> start], 0)
    BY DEF GrowRun
  <2> QED BY <2>1
<1>2. ASSUME NEW m \in T PROVE m + 1 \in T
  <2>1. PICK w : GrowRun(s, w, m)
    OBVIOUS
  <2> DEFINE v == [k \in 0 .. m + 1 |-> IF k \in 0 .. m THEN w[k] ELSE RfcGrow(w[m])]
  <2>2. \A k \in 0 .. m : w[k] = IF k = 0 THEN start ELSE RfcGrow(w[k - 1])
    BY <2>1 DEF GrowRun
  <2> HIDE DEF start
  <2>3. \A k \in 0 .. m + 1 : v[k] = IF k = 0 THEN start ELSE RfcGrow(v[k - 1])
    BY <2>2
  <2>4. GrowRun(s, v, m + 1)
    BY <2>3 DEF GrowRun, start
  <2> QED BY <2>4
<1>3. n \in T
  <2> HIDE DEF T
  <2>1. T \subseteq Nat
    BY DEF T
  <2> QED BY <1>1, <1>2, <2>1, Induction
<1> DEFINE after == CHOOSE w : GrowRun(s, w, n)
<1>4. GrowRun(s, after, n)
  BY <1>3
<1>5. GrownFor(s, n) = after[n]
  BY DEF GrownFor, Loop, GrowRun
<1> HIDE DEF after
<1>6. \A k \in 0 .. n : after[k] = IF k = 0 THEN start ELSE RfcGrow(after[k - 1])
  BY <1>4 DEF GrowRun
<1> HIDE DEF start
<1>7. after[0] = start /\ \A k \in 1 .. n : after[k] = RfcGrow(after[k - 1])
  BY <1>6
<1> QED BY <1>5, <1>7, Zenon DEF start

Growth(s, n, r) == GrownFor(s, n) = r[n] /\ r[0] = s /\ \A k \in 1 .. n : r[k] = RfcGrow(r[k - 1])

LEMMA GrownForCovers ==
  ASSUME NEW y \in Nat, NEW z \in Nat, y <= z, NEW s, NEW w \in Powers, Covered(s, w, y, z), NEW n \in Nat
  PROVE  \E v \in Powers : Covered(GrownFor(s, n), v, y, z)
<1>1. PICK r : Growth(s, n, r)
  BY GrowRuns DEF Growth
<1>2. GrownFor(s, n) = r[n] /\ r[0] = s /\ \A k \in 1 .. n : r[k] = RfcGrow(r[k - 1])
  BY <1>1 DEF Growth
<1> DEFINE P(k) == \E v \in Powers : Covered(r[k], v, y, z)
           T == {k \in Nat : k <= n => P(k)}
<1>3. 0 \in T
  BY <1>2
<1>4. ASSUME NEW k \in T PROVE k + 1 \in T
  <2> SUFFICES ASSUME k + 1 <= n PROVE P(k + 1)
    OBVIOUS
  <2>1. k \in Nat /\ P(k)
    OBVIOUS
  <2>2. r[k + 1] = RfcGrow(r[k])
    <3>1. k + 1 \in 1 .. n /\ (k + 1) - 1 = k
      BY <2>1
    <3> QED BY <1>2, <3>1
  <2>3. PICK v \in Powers : Covered(r[k], v, y, z)
    BY <2>1
  <2>4. P(k + 1)
    BY <2>2, <2>3, GrowCovers
  <2> QED BY <2>4
<1>5. P(n)
  <2>1. T \subseteq Nat
    OBVIOUS
  <2> HIDE DEF P
  <2>2. n \in T => P(n)
    OBVIOUS
  <2> HIDE DEF T
  <2> QED BY <1>3, <1>4, <2>1, <2>2, Induction
<1> QED BY <1>2, <1>5

\* What a consistency proof shows: the old root is one over the first leaves of the new.
LEMMA ConsistencyShowsPrefix ==
  ASSUME NEW m \in Nat, NEW n \in Nat, NEW old, NEW new, NEW path, Len(path) \in Nat,
         VerifyRfcConsistency(m, n, old, new, path)
  PROVE  IsPrefixTree(old, new, n, m)
<1>1. m > 0 /\ m <= n
  BY DEF VerifyRfcConsistency
<1>2. CASE m = n
  BY <1>2, PrefixOfItself DEF VerifyRfcConsistency
<1>3. CASE m # n
  <2> DEFINE y == m - 1
             z == n - 1
             t == SkipOnes(y, z)
             from == IF t[1] = 0 THEN old ELSE Head(path)
             s == Grown(from, from, t[1], t[2], IF t[1] = 0 THEN path ELSE Tail(path))
             end == GrownFor(s, Len(path))
  <2>1. end.sn = 0 /\ end.old = old /\ end.new = new
    <3>1. end = RfcGrown(m, n, old, path)
      BY DEF GrownFor, RfcGrown
    <3> HIDE DEF end
    <3> QED BY <1>3, <3>1 DEF VerifyRfcConsistency
  <2>2. y \in Nat /\ z \in Nat /\ y < z /\ y + 1 = m /\ z + 1 = n
    BY <1>1, <1>3
  <2>3. s.old = from /\ s.new = from /\ s.fn = t[1] /\ s.sn = t[2]
    BY GrownFields
  <2>4. PICK v \in Powers : At(t[1], y, v) /\ At(t[2], z, v) /\ t[1] < t[2] /\ (t[1] + 1) * v = y + 1
    BY <2>2, SkipOnesHolds
  <2> HIDE DEF y, z, t, from, s
  <2>5. v \in Nat /\ t[1] \in Nat /\ t[2] \in Nat
    BY <2>4, PowersDouble DEF At
  <2>6. Width(t[1], t[2], v, z) = v /\ y + 1 - t[1] * v = v
    <3> DEFINE a == t[1] * v
    <3>1. a \in Nat /\ (t[1] + 1) * v = a + v
      BY <2>5, Products
    <3> HIDE DEF a
    <3>2. a + v = y + 1
      BY <2>4, <3>1
    <3>3. y + 1 - a = v
      BY <2>2, <2>5, <3>1, <3>2
    <3> QED BY <2>4, <3>3 DEF Width, a
  <2>7. Covered(s, v, y, z)
    <3>1. IsPrefixTree(s.old, s.new, v, v)
      BY <2>3, <2>5, PrefixOfItself
    <3> QED BY <2>3, <2>4, <2>5, <2>6, <3>1 DEF Covered
  <2>8. PICK u \in Powers : Covered(end, u, y, z)
    BY <2>2, <2>7, GrownForCovers
  <2> HIDE DEF end
  <2>9. u \in Nat /\ end.fn = 0
    <3>1. end.fn \in Nat /\ end.fn <= 0
      BY <2>1, <2>8 DEF Covered, At
    <3>2. end.fn = 0
      BY <3>1
    <3>3. u \in Nat
      BY PowersDouble
    <3> QED BY <3>2, <3>3
  <2>10. Width(0, 0, u, z) = n /\ y + 1 - 0 * u = m
    <3>1. 0 * u = 0 /\ ~ (0 < 0)
      BY <2>9
    <3>2. Width(0, 0, u, z) = z + 1 - 0 * u
      BY <3>1 DEF Width
    <3> QED BY <2>2, <3>1, <3>2
  <2> QED BY <2>1, <2>8, <2>9, <2>10 DEF Covered
<1> QED BY <1>2, <1>3

\* Append-only, step 17: the tree that a consistency proof says the log has grown from is a
\* prefix of the one that the log signed.
THEOREM VerifierGrownLogIsExtended == Spec => []GrownLogIsExtended
<1>1. ASSUME Progress PROVE GrownLogIsExtended
  <2> SUFFICES ASSUME IsConformant, NEW a \in Elements(Bundle.anchors), a.consistency # None
               PROVE  IsPrefixTree(a.consistency.oldRoot, a.root, a.size, a.consistency.oldSize)
    BY DEF GrownLogIsExtended
  <2>1. Accepted(Bundle)
    BY <1>1, ConformantIsAccepted
  <2> HIDE DEF Bundle
  <2>2. a.consistency.newSize = a.size /\ a.consistency.newRoot = a.root
        /\ VerifyRfcConsistency(a.consistency.oldSize, a.consistency.newSize,
                                a.consistency.oldRoot, a.consistency.newRoot, a.consistency.path)
    BY <2>1, AnchorHolds DEF Consistent
  <2>3. Len(a.consistency.path) \in Nat
    BY <2>1 DEF Accepted, HasArrays, IsArray
  <2>4. a.consistency.oldSize \in Nat /\ a.size \in Nat
    BY <2>1 DEF Accepted, HasIntegers
  <2> QED BY <2>2, <2>3, <2>4, ConsistencyShowsPrefix
<1> QED BY <1>1, ProgressInvariant, PTL

-----------------------------------------------------------------------------
(* The way to a leaf. *)

\* Every size of two or more is a power and at most as much again.
LEMMA SizesSplit ==
  ASSUME NEW n \in Nat, n >= 2
  PROVE  \E p \in Powers, q \in Nat : n = p + q /\ q \in 1 .. p
<1> DEFINE P(k) == \E p \in Powers, q \in Nat : k = p + q /\ q \in 1 .. p
           T == {k \in Nat : k >= 2 => P(k)}
<1>1. 0 \in T
  OBVIOUS
<1>2. ASSUME NEW k \in T PROVE k + 1 \in T
  <2> SUFFICES ASSUME k + 1 >= 2 PROVE P(k + 1)
    OBVIOUS
  <2>1. CASE k = 1
    <3>1. k + 1 = 1 + 1 /\ 1 \in 1 .. 1
      BY <2>1
    <3> QED BY <3>1, PowersDouble
  <2>2. CASE k # 1
    <3>1. PICK p \in Powers, q \in Nat : k = p + q /\ q \in 1 .. p
      BY <2>2
    <3>2. p \in Nat /\ p >= 1 /\ 2 * p \in Powers
      BY PowersDouble
    <3>3. CASE q < p
      <4>1. k + 1 = p + (q + 1) /\ q + 1 \in 1 .. p /\ q + 1 \in Nat
        BY <3>1, <3>2, <3>3
      <4> QED BY <4>1
    <3>4. CASE ~ (q < p)
      <4>1. k + 1 = 2 * p + 1 /\ 1 \in 1 .. 2 * p
        BY <3>1, <3>2, <3>4
      <4> QED BY <3>2, <4>1
    <3> QED BY <3>3, <3>4
  <2> QED BY <2>1, <2>2
<1>3. n \in T
  <2>1. T \subseteq Nat
    OBVIOUS
  <2> HIDE DEF T
  <2> QED BY <1>1, <1>2, <2>1, Induction
<1> QED BY <1>3

\* Where n rounds lead to.
Sunk(s, n) == Loop(n, Seek, s)

SeekRun(s, w, n) == w = [k \in 0 .. n |-> IF k = 0 THEN s ELSE Seek(w[k - 1])]

LEMMA SeekRuns ==
  ASSUME NEW s, NEW n \in Nat
  PROVE  \E w : /\ Sunk(s, n) = w[n]
                /\ w[0] = s /\ \A k \in 1 .. n : w[k] = Seek(w[k - 1])
<1> DEFINE start == s
           T == {m \in Nat : \E w : SeekRun(s, w, m)}
<1>1. 0 \in T
  <2>1. SeekRun(s, [k \in 0 .. 0 |-> start], 0)
    BY DEF SeekRun
  <2> QED BY <2>1
<1>2. ASSUME NEW m \in T PROVE m + 1 \in T
  <2>1. PICK w : SeekRun(s, w, m)
    OBVIOUS
  <2> DEFINE v == [k \in 0 .. m + 1 |-> IF k \in 0 .. m THEN w[k] ELSE Seek(w[m])]
  <2>2. \A k \in 0 .. m : w[k] = IF k = 0 THEN start ELSE Seek(w[k - 1])
    BY <2>1 DEF SeekRun
  <2> HIDE DEF start
  <2>3. \A k \in 0 .. m + 1 : v[k] = IF k = 0 THEN start ELSE Seek(v[k - 1])
    BY <2>2
  <2>4. SeekRun(s, v, m + 1)
    BY <2>3 DEF SeekRun, start
  <2> QED BY <2>4
<1>3. n \in T
  <2> HIDE DEF T
  <2>1. T \subseteq Nat
    BY DEF T
  <2> QED BY <1>1, <1>2, <2>1, Induction
<1> DEFINE after == CHOOSE w : SeekRun(s, w, n)
<1>4. SeekRun(s, after, n)
  BY <1>3
<1>5. Sunk(s, n) = after[n]
  BY DEF Sunk, Loop, SeekRun
<1> HIDE DEF after
<1>6. \A k \in 0 .. n : after[k] = IF k = 0 THEN start ELSE Seek(after[k - 1])
  BY <1>4 DEF SeekRun
<1> HIDE DEF start
<1>7. after[0] = start /\ \A k \in 1 .. n : after[k] = Seek(after[k - 1])
  BY <1>6
<1> QED BY <1>5, <1>7, Zenon DEF start

Sinking(s, n, r) == Sunk(s, n) = r[n] /\ r[0] = s /\ \A k \in 1 .. n : r[k] = Seek(r[k - 1])

\* The rounds are those of a function of their number.
LEMMA SunkSteps ==
  ASSUME NEW s, NEW n \in Nat
  PROVE  Sunk(s, 0) = s /\ Sunk(s, n + 1) = Seek(Sunk(s, n))
<1>1. ASSUME NEW m \in Nat PROVE \E r : Sinking(s, m, r)
  <2>1. PICK r : Sunk(s, m) = r[m] /\ r[0] = s /\ \A k \in 1 .. m : r[k] = Seek(r[k - 1])
    BY SeekRuns
  <2>2. Sinking(s, m, r)
    BY <2>1 DEF Sinking
  <2> QED BY <2>2
<1>2. Sunk(s, 0) = s
  BY <1>1 DEF Sinking
<1>3. PICK r : Sinking(s, n, r)
  BY <1>1
<1>4. PICK q : Sinking(s, n + 1, q)
  BY <1>1
<1> DEFINE T == {k \in Nat : k <= n => r[k] = q[k]}
<1>5. 0 \in T
  BY <1>3, <1>4 DEF Sinking
<1>6. ASSUME NEW k \in T PROVE k + 1 \in T
  <2> SUFFICES ASSUME k + 1 <= n PROVE r[k + 1] = q[k + 1]
    OBVIOUS
  <2>1. k + 1 \in 1 .. n /\ k + 1 \in 1 .. n + 1 /\ (k + 1) - 1 = k /\ r[k] = q[k]
    OBVIOUS
  <2>2. r[k + 1] = Seek(r[k])
    BY <1>3, <2>1 DEF Sinking
  <2>3. q[k + 1] = Seek(q[k])
    BY <1>4, <2>1 DEF Sinking
  <2> QED BY <2>1, <2>2, <2>3
<1>7. n \in T
  <2>1. T \subseteq Nat
    OBVIOUS
  <2> HIDE DEF T
  <2> QED BY <1>5, <1>6, <2>1, Induction
<1>8. q[n + 1] = Seek(q[n])
  <2>1. n + 1 \in 1 .. n + 1 /\ (n + 1) - 1 = n
    OBVIOUS
  <2> QED BY <1>4, <2>1 DEF Sinking
<1>9. r[n] = q[n]
  BY <1>7
<1>10. Sunk(s, n + 1) = q[n + 1] /\ Sunk(s, n) = r[n]
  BY <1>3, <1>4 DEF Sinking
<1> QED BY <1>2, <1>8, <1>9, <1>10

LEMMA SunkFirst ==
  ASSUME NEW s, NEW n \in Nat
  PROVE  Sunk(s, n + 1) = Sunk(Seek(s), n)
<1> DEFINE T == {k \in Nat : Sunk(s, k + 1) = Sunk(Seek(s), k)}
<1>1. 0 \in T
  <2>1. 0 + 1 = 1 /\ Sunk(s, 0 + 1) = Seek(Sunk(s, 0)) /\ Sunk(s, 0) = s /\ Sunk(Seek(s), 0) = Seek(s)
    BY SunkSteps
  <2> QED BY <2>1
<1>2. ASSUME NEW k \in T PROVE k + 1 \in T
  <2>1. Sunk(s, (k + 1) + 1) = Seek(Sunk(s, k + 1)) /\ Sunk(Seek(s), k + 1) = Seek(Sunk(Seek(s), k))
    BY SunkSteps
  <2> QED BY <2>1
<1>3. n \in T
  <2>1. T \subseteq Nat
    OBVIOUS
  <2> HIDE DEF T
  <2> QED BY <1>1, <1>2, <2>1, Induction
<1> QED BY <1>3

LEMMA SunkStays ==
  ASSUME NEW s, Seek(s) = s, NEW n \in Nat
  PROVE  Sunk(s, n) = s
<1> DEFINE T == {k \in Nat : Sunk(s, k) = s}
<1>1. 0 \in T
  BY SunkSteps
<1>2. ASSUME NEW k \in T PROVE k + 1 \in T
  BY SunkSteps
<1>3. n \in T
  <2>1. T \subseteq Nat
    OBVIOUS
  <2> HIDE DEF T
  <2> QED BY <1>1, <1>2, <2>1, Induction
<1> QED BY <1>3

LEMMA PlaceFields ==
  \A tree, size, index : LET s == Place(tree, size, index)
                         IN s.tree = tree /\ s.size = size /\ s.index = index
BY DEF Place

\* A round stays where it is, or goes to a smaller part of the tree.
LEMMA SeekGoes ==
  ASSUME NEW s, s.size \in Nat
  PROVE  Seek(s) = s \/ (Seek(s).size \in Nat /\ Seek(s).size < s.size)
<1>1. CASE s.size <= 1 \/ s.tree[1] # "node"
  BY <1>1 DEF Seek
<1>2. CASE ~ (s.size <= 1 \/ s.tree[1] # "node")
  <2>1. PICK p \in Powers, q \in Nat : s.size = p + q /\ q \in 1 .. p
    BY <1>2, SizesSplit
  <2>2. LargestPowerOfTwoLessThan(s.size) = p
    BY <2>1, LargestPower
  <2>3. p \in Nat /\ p >= 1
    BY PowersDouble
  <2>4. Seek(s) = IF s.index < p THEN Place(s.tree[2], p, s.index) ELSE Place(s.tree[3], s.size - p, s.index - p)
    BY <1>2, <2>2 DEF Seek
  <2>5. Seek(s).size = IF s.index < p THEN p ELSE s.size - p
    BY <2>4, PlaceFields
  <2> QED BY <2>1, <2>3, <2>5
<1> QED BY <1>1, <1>2

\* As many rounds as the size are enough.
LEMMA SunkEnough ==
  ASSUME NEW s, s.size \in Nat, NEW n \in Nat, s.size <= n
  PROVE  Sunk(s, n) = Sunk(s, s.size)
<1> DEFINE P(m) == \A t : t.size \in Nat /\ t.size <= m => Seek(Sunk(t, m)) = Sunk(t, m)
           T == {m \in Nat : P(m)}
<1>1. 0 \in T
  <2> SUFFICES ASSUME NEW t, t.size \in Nat, t.size <= 0 PROVE Seek(Sunk(t, 0)) = Sunk(t, 0)
    OBVIOUS
  <2>1. Seek(t) = t
    BY DEF Seek
  <2> QED BY <2>1, SunkSteps
<1>2. ASSUME NEW m \in T PROVE m + 1 \in T
  <2> SUFFICES ASSUME NEW t, t.size \in Nat, t.size <= m + 1 PROVE Seek(Sunk(t, m + 1)) = Sunk(t, m + 1)
    OBVIOUS
  <2>1. Sunk(t, m + 1) = Sunk(Seek(t), m)
    BY SunkFirst
  <2>2. CASE Seek(t) = t
    BY <2>2, SunkStays
  <2>3. CASE Seek(t).size \in Nat /\ Seek(t).size < t.size
    <3>1. Seek(t).size <= m
      BY <2>3
    <3> QED BY <2>1, <2>3, <3>1
  <2> QED BY <2>2, <2>3, SeekGoes
<1>3. \A m \in Nat : P(m)
  <2>1. T \subseteq Nat
    OBVIOUS
  <2> HIDE DEF P
  <2>2. T = Nat => \A m \in Nat : P(m)
    OBVIOUS
  <2> HIDE DEF T
  <2> QED BY <1>1, <1>2, <2>1, <2>2, Induction
<1> DEFINE U == {k \in Nat : Sunk(s, s.size + k) = Sunk(s, s.size)}
<1>4. 0 \in U
  OBVIOUS
<1>5. ASSUME NEW k \in U PROVE k + 1 \in U
  <2>1. s.size + k \in Nat /\ s.size <= s.size + k /\ s.size + (k + 1) = (s.size + k) + 1
    OBVIOUS
  <2>2. Sunk(s, (s.size + k) + 1) = Seek(Sunk(s, s.size + k))
    BY <2>1, SunkSteps
  <2>3. Seek(Sunk(s, s.size + k)) = Sunk(s, s.size + k)
    BY <1>3, <2>1
  <2> QED BY <2>1, <2>2, <2>3
<1>6. n - s.size \in U
  <2>1. U \subseteq Nat
    OBVIOUS
  <2> HIDE DEF U, T, P
  <2>2. U = Nat
    BY <1>4, <1>5, <2>1, Induction
  <2> QED BY <2>2
<1>7. s.size + (n - s.size) = n
  OBVIOUS
<1> QED BY <1>6, <1>7

LEMMA ArrivedAtOnce ==
  ASSUME NEW tree, NEW n \in Nat, n <= 1 \/ tree[1] # "node", NEW index
  PROVE  Arrived(tree, n, index) = Place(tree, n, index)
<1> DEFINE s == Place(tree, n, index)
<1>1. s.tree = tree /\ s.size = n
  BY PlaceFields
<1> HIDE DEF s
<1>2. Seek(s) = s
  BY <1>1 DEF Seek
<1>3. Sunk(s, n) = s
  BY <1>2, SunkStays
<1> QED BY <1>3 DEF Sunk, Arrived, s

LEMMA ArrivedBelow ==
  ASSUME NEW tree, tree[1] = "node", NEW p \in Powers, NEW q \in 1 .. p, NEW index
  PROVE  Arrived(tree, p + q, index) = IF index < p THEN Arrived(tree[2], p, index)
                                       ELSE Arrived(tree[3], q, index - p)
<1> DEFINE s == Place(tree, p + q, index)
           t == IF index < p THEN Place(tree[2], p, index) ELSE Place(tree[3], q, index - p)
           n == p + q - 1
<1>1. p \in Nat /\ q \in Nat /\ n \in Nat /\ n + 1 = p + q /\ p <= n /\ q <= n /\ ~ (p + q <= 1) /\ (p + q) - p = q
  BY PowersDouble
<1>2. s.tree = tree /\ s.size = p + q /\ s.index = index
  BY PlaceFields
<1>3. Seek(s) = t
  <2>1. LargestPowerOfTwoLessThan(s.size) = p
    BY <1>2, LargestPower
  <2> HIDE DEF s, n
  <2> QED BY <1>1, <1>2, <2>1 DEF Seek
<1>4. t.size \in Nat /\ t.size <= n
  <2>1. t.size = IF index < p THEN p ELSE q
    BY PlaceFields
  <2> HIDE DEF t, n
  <2> QED BY <1>1, <2>1
<1>5. Sunk(s, n + 1) = Sunk(t, t.size)
  <2> HIDE DEF s, t, n
  <2> QED BY <1>1, <1>3, <1>4, SunkFirst, SunkEnough
<1>6. Arrived(tree, p + q, index) = Sunk(s, n + 1)
  <2> HIDE DEF n
  <2> QED BY <1>1 DEF Sunk, Arrived
<1>7. CASE index < p
  <2>1. t = Place(tree[2], p, index) /\ t.size = p
    BY <1>7, PlaceFields
  <2>2. Arrived(tree[2], p, index) = Sunk(t, t.size)
    <3> HIDE DEF t
    <3> QED BY <2>1 DEF Sunk, Arrived
  <2> HIDE DEF s, t, n
  <2> QED BY <1>5, <1>6, <1>7, <2>2
<1>8. CASE ~ (index < p)
  <2>1. t = Place(tree[3], q, index - p) /\ t.size = q
    BY <1>8, PlaceFields
  <2>2. Arrived(tree[3], q, index - p) = Sunk(t, t.size)
    <3> HIDE DEF t
    <3> QED BY <2>1 DEF Sunk, Arrived
  <2> HIDE DEF s, t, n
  <2> QED BY <1>5, <1>6, <1>8, <2>2
<1> QED BY <1>7, <1>8

LEMMA LeafOfOne ==
  ASSUME NEW tree, NEW index, NEW leaf
  PROVE  HasLeafAt(tree, 1, index, leaf) <=> tree = leaf
<1> DEFINE one == 1
<1>0. one \in Nat /\ one <= 1
  OBVIOUS
<1> HIDE DEF one
<1>1. Arrived(tree, one, index) = Place(tree, one, index)
  BY <1>0, ArrivedAtOnce
<1> QED BY <1>1, PlaceFields DEF HasLeafAt, one

LEMMA LeafBelow ==
  ASSUME NEW x, NEW y, NEW p \in Powers, NEW q \in 1 .. p, NEW index, NEW leaf
  PROVE  /\ index < p => (HasLeafAt(Node(x, y), p + q, index, leaf) <=> HasLeafAt(x, p, index, leaf))
         /\ ~ (index < p) => (HasLeafAt(Node(x, y), p + q, index, leaf) <=> HasLeafAt(y, q, index - p, leaf))
<1> DEFINE tree == Node(x, y)
<1>1. tree[1] = "node" /\ tree[2] = x /\ tree[3] = y
  BY NodeFields
<1> HIDE DEF tree
<1>2. Arrived(tree, p + q, index) = IF index < p THEN Arrived(x, p, index) ELSE Arrived(y, q, index - p)
  BY <1>1, ArrivedBelow
<1>3. CASE index < p
  BY <1>2, <1>3 DEF HasLeafAt, tree
<1>4. CASE ~ (index < p)
  BY <1>2, <1>4 DEF HasLeafAt, tree
<1> QED BY <1>3, <1>4

-----------------------------------------------------------------------------
(* The sizes that a tree does not have at once. *)

\* A power is a multiple of a smaller one.
LEMMA PowersDivide ==
  ASSUME NEW p \in Powers, NEW q \in Powers, q <= p
  PROVE  \E k \in Nat : k >= 1 /\ p = k * q /\ (q < p => k >= 2)
<1> DEFINE P(x, y) == \E k \in Nat : k >= 1 /\ x = k * y
           S == {x \in Powers : \A y \in Powers : y <= x => P(x, y)}
<1>1. 1 \in S
  <2> SUFFICES ASSUME NEW y \in Powers, y <= 1 PROVE P(1, y)
    BY PowersDouble
  <2>1. y = 1 /\ 1 \in Nat /\ 1 >= 1 /\ 1 = 1 * 1
    BY PowersDouble
  <2> QED BY <2>1
<1>2. ASSUME NEW x \in S PROVE 2 * x \in S
  <2> SUFFICES ASSUME NEW y \in Powers, y <= 2 * x PROVE P(2 * x, y)
    BY PowersDouble
  <2>1. x \in Nat /\ y \in Nat /\ 2 * x \in Powers
    BY PowersDouble
  <2>2. CASE y = 2 * x
    <3>1. 1 \in Nat /\ 1 >= 1 /\ 2 * x = 1 * y
      BY <2>1, <2>2
    <3> QED BY <3>1
  <2>3. CASE y # 2 * x
    <3>1. y < 2 * x
      BY <2>1, <2>3
    <3>2. 2 * y <= 2 * x
      BY <2>1, <3>1, PowersApart
    <3>3. y <= x
      BY <2>1, <3>2
    <3>4. PICK k \in Nat : k >= 1 /\ x = k * y
      BY <3>3
    <3>5. 2 * k \in Nat /\ 2 * k >= 1 /\ 2 * x = (2 * k) * y
      BY <2>1, <3>4, Products
    <3> QED BY <3>5
  <2> QED BY <2>2, <2>3
<1> HIDE DEF P
<1>3. S \subseteq Nat
  BY PowersDouble
<1> HIDE DEF S
<1>4. Powers \subseteq S
  BY <1>1, <1>2, <1>3, PowersInduction
<1>5. P(p, q)
  BY <1>4 DEF S
<1>6. PICK k \in Nat : k >= 1 /\ p = k * q
  BY <1>5 DEF P
<1>7. q \in Nat /\ (k = 1 => p = q)
  BY <1>6, PowersDouble
<1> QED BY <1>6, <1>7

LEMMA Associates == \A a, b, c \in Nat : (a * b) * c = a * (b * c) /\ a * b \in Nat
OBVIOUS

\* A size that is greater than another by full parts of at least the other.
Longer(n, m) == \E w \in Powers, c \in Nat : n = m + (c + 1) * w /\ m \in 1 .. w

LEMMA LongerOfRight ==
  ASSUME NEW p \in Powers, NEW q \in 1 .. p
  PROVE  Longer(p + q, q)
<1>1. p + q = q + (0 + 1) * p
  BY PowersDouble
<1> QED BY <1>1 DEF Longer

LEMMA LongerOfParts ==
  ASSUME NEW a \in Powers, NEW b \in 1 .. a, NEW p \in Powers, NEW q \in 1 .. p, Longer(a + b, p + q)
  PROVE  Longer(a, p) /\ Longer(b, q) /\ Longer(a + b, q)
<1>1. a \in Nat /\ b \in Nat /\ p \in Nat /\ q \in Nat /\ a >= 1 /\ b >= 1 /\ p >= 1 /\ q >= 1 /\ b <= a /\ q <= p
  BY PowersDouble
<1>2. PICK w \in Powers, c \in Nat : a + b = (p + q) + (c + 1) * w /\ p + q \in 1 .. w
  BY DEF Longer
<1>3. w \in Nat /\ (c + 1) * w = c * w + w /\ c * w \in Nat /\ p < w
  BY <1>1, <1>2, PowersDouble, Products
<1>4. w <= a
  <2>1. CASE a < w
    <3>1. 2 * a <= w
      BY <2>1, PowersApart
    <3> QED BY <1>1, <1>2, <1>3, <3>1
  <2> QED BY <1>1, <1>3, <2>1
<1>5. PICK k \in Nat : k >= 1 /\ w = k * p
  BY <1>1, <1>3, PowersDivide
<1>6. PICK j \in Nat : j >= 1 /\ a = j * w
  BY <1>4, PowersDivide
<1>7. Longer(a, p)
  <2>1. p < a
    BY <1>1, <1>3, <1>4
  <2>2. PICK i \in Nat : i >= 2 /\ a = i * p
    BY <1>1, <2>1, PowersDivide
  <2> DEFINE e == i - 2
  <2>3. e \in Nat /\ i = (e + 1) + 1
    BY <2>2
  <2> HIDE DEF e
  <2>4. (e + 1) + 1 \in Nat /\ ((e + 1) + 1) * p = (e + 1) * p + p /\ (e + 1) * p \in Nat
    BY <1>1, <2>3, Products
  <2>5. a = p + (e + 1) * p /\ p \in 1 .. p
    BY <1>1, <2>2, <2>3, <2>4
  <2> QED BY <2>3, <2>5 DEF Longer
<1>8. Longer(b, q)
  <2>1. j <= c + 1
    <3> SUFFICES ASSUME j >= c + 2 PROVE FALSE
      OBVIOUS
    <3> DEFINE e == j - (c + 2)
    <3>1. e \in Nat /\ j = (c + 1) + 1 + e
      OBVIOUS
    <3> HIDE DEF e
    <3>2. ((c + 1) + 1 + e) * w = ((c + 1) * w + w) + e * w /\ e * w \in Nat
      BY <1>3, <3>1
    <3> DEFINE cw == (c + 1) * w
               ew == e * w
    <3>3. a = cw + w + ew /\ cw \in Nat /\ ew \in Nat
      BY <1>3, <1>6, <3>1, <3>2
    <3>4. a + b = (p + q) + cw /\ p + q <= w
      BY <1>2
    <3> HIDE DEF cw, ew
    <3> QED BY <1>1, <1>3, <3>3, <3>4
  <2> DEFINE d == (c + 1) - j
  <2>2. d \in Nat /\ c + 1 = j + d
    BY <2>1
  <2> HIDE DEF d
  <2>3. (j + d) * w = j * w + d * w /\ d * w \in Nat /\ j * w \in Nat
    BY <1>3, <2>2
  <2>4. (d * k) * p = d * w /\ d * k \in Nat
    BY <1>1, <1>5, <2>2, Associates
  <2>5. ((d * k) + 1) * p = (d * k) * p + p
    BY <1>1, <2>4, Products
  <2>6. b = q + ((d * k) + 1) * p
    <3> DEFINE dw == d * w
               cw == (c + 1) * w
    <3>1. cw = a + dw /\ dw \in Nat /\ ((d * k) + 1) * p = dw + p /\ a + b = (p + q) + cw
      BY <1>2, <1>6, <2>2, <2>3, <2>4, <2>5
    <3> HIDE DEF dw, cw
    <3> QED BY <1>1, <3>1
  <2> QED BY <2>4, <2>6 DEF Longer
<1>9. Longer(a + b, q)
  <2> DEFINE e == c + 1
  <2>1. e \in Nat
    OBVIOUS
  <2>2. a + b = (p + q) + e * w
    BY <1>2
  <2> HIDE DEF e
  <2>3. (e * k) * p = e * w /\ e * k \in Nat
    BY <1>1, <1>5, <2>1, Associates
  <2>4. ((e * k) + 1) * p = (e * k) * p + p
    BY <1>1, <2>3, Products
  <2>5. e * w \in Nat
    BY <1>3, <2>1
  <2>6. a + b = q + ((e * k) + 1) * p
    BY <1>1, <2>2, <2>3, <2>4, <2>5
  <2> QED BY <2>3, <2>6 DEF Longer
<1> QED BY <1>7, <1>8, <1>9

\* The two parts of a tree are trees.
LEMMA PartsAreTrees ==
  ASSUME NEW p \in Powers, NEW q \in 1 .. p, NEW tree, IsTree(tree, p + q)
  PROVE  tree[1] = "node" /\ IsTree(tree[2], p) /\ IsTree(tree[3], q)
<1>1. p \in Nat /\ q \in Nat /\ p >= 1 /\ p + q \in Nat /\ p + q # 1
  BY PowersDouble
<1>2. \A i \in 0 .. (p + q) - 1 : Arrived(tree, p + q, i).size = 1 /\ Arrived(tree, p + q, i).tree[1] = "leaf"
  BY DEF IsTree
<1>3. tree[1] = "node"
  <2> SUFFICES ASSUME tree[1] # "node" PROVE FALSE
    OBVIOUS
  <2> DEFINE n == p + q
  <2>1. n \in Nat /\ 0 \in 0 .. n - 1 /\ n # 1
    BY <1>1
  <2>2. Arrived(tree, n, 0).size = 1
    BY <1>2, <2>1
  <2> HIDE DEF n
  <2>3. Arrived(tree, n, 0) = Place(tree, n, 0)
    BY <2>1, ArrivedAtOnce
  <2> QED BY <2>1, <2>2, <2>3, PlaceFields
<1>4. ASSUME NEW i \in 0 .. p - 1 PROVE Arrived(tree[2], p, i).size = 1 /\ Arrived(tree[2], p, i).tree[1] = "leaf"
  <2>1. i \in 0 .. (p + q) - 1 /\ i < p
    BY <1>1
  <2>2. Arrived(tree, p + q, i) = Arrived(tree[2], p, i)
    BY <1>3, <2>1, ArrivedBelow
  <2> QED BY <1>2, <2>1, <2>2
<1>5. ASSUME NEW i \in 0 .. q - 1 PROVE Arrived(tree[3], q, i).size = 1 /\ Arrived(tree[3], q, i).tree[1] = "leaf"
  <2>1. p + i \in 0 .. (p + q) - 1 /\ ~ (p + i < p) /\ (p + i) - p = i
    BY <1>1
  <2>2. Arrived(tree, p + q, p + i) = Arrived(tree[3], q, i)
    BY <1>3, <2>1, ArrivedBelow
  <2> QED BY <1>2, <2>1, <2>2
<1> QED BY <1>3, <1>4, <1>5 DEF IsTree

LEMMA OneIsALeaf ==
  ASSUME NEW tree, IsTree(tree, 1)
  PROVE  tree[1] = "leaf"
<1> DEFINE one == 1
<1>1. one \in Nat /\ one <= 1 /\ 0 \in 0 .. one - 1
  OBVIOUS
<1>2. Arrived(tree, one, 0).tree[1] = "leaf"
  BY <1>1 DEF IsTree
<1> HIDE DEF one
<1>3. Arrived(tree, one, 0) = Place(tree, one, 0)
  BY <1>1, ArrivedAtOnce
<1> QED BY <1>2, <1>3, PlaceFields

\* There is no way to a leaf in a tree that has fewer of them.
LEMMA TreeOfFewer ==
  ASSUME NEW m \in Nat, NEW n \in Nat, Longer(n, m), NEW tree, IsTree(tree, m), NEW index
  PROVE  Arrived(tree, n, index).size # 1
<1> DEFINE P(k) == \A l \in Nat : \A t, i : Longer(l, k) /\ IsTree(t, k) => Arrived(t, l, i).size # 1
           T == {j \in Nat : \A k \in Nat : k <= j => P(k)}
<1>1. 0 \in T
  <2> SUFFICES ASSUME NEW k \in Nat, k <= 0, NEW l, Longer(l, k) PROVE FALSE
    OBVIOUS
  <2>1. PICK w \in Powers : k \in 1 .. w
    BY DEF Longer
  <2> QED BY <2>1
<1>2. ASSUME NEW j \in T PROVE j + 1 \in T
  <2> SUFFICES ASSUME NEW k \in Nat, k <= j + 1 PROVE P(k)
    OBVIOUS
  <2>1. CASE k <= j
    BY <2>1
  <2>2. CASE ~ (k <= j)
    <3> SUFFICES ASSUME NEW l \in Nat, NEW t, NEW i, Longer(l, k), IsTree(t, k) PROVE Arrived(t, l, i).size # 1
      OBVIOUS
    <3>1. k = j + 1 /\ k >= 1 /\ \A x \in Nat : x < k => P(x)
      BY <2>2
    <3> HIDE DEF T, P
    <3>2. PICK w \in Powers, c \in Nat : l = k + (c + 1) * w /\ k \in 1 .. w
      BY DEF Longer
    <3>3. w \in Nat /\ (c + 1) * w = c * w + w /\ c * w \in Nat
      BY <3>2, PowersDouble, Products
    <3>4. l >= 2
      <4> DEFINE cw == c * w
      <4>1. l = k + cw + w /\ cw \in Nat
        BY <3>2, <3>3
      <4> HIDE DEF cw
      <4> QED BY <3>1, <3>2, <3>3, <4>1
    <3>5. CASE k = 1
      <4>1. t[1] = "leaf"
        BY <3>5, OneIsALeaf
      <4>2. Arrived(t, l, i) = Place(t, l, i)
        BY <4>1, ArrivedAtOnce
      <4> QED BY <3>4, <4>2, PlaceFields
    <3>6. CASE k # 1
      <4>1. PICK p \in Powers, q \in Nat : k = p + q /\ q \in 1 .. p
        BY <3>1, <3>6, SizesSplit
      <4>2. PICK a \in Powers, b \in Nat : l = a + b /\ b \in 1 .. a
        BY <3>4, SizesSplit
      <4>3. t[1] = "node" /\ IsTree(t[2], p) /\ IsTree(t[3], q)
        BY <4>1, PartsAreTrees
      <4>4. Longer(a, p) /\ Longer(b, q)
        BY <4>1, <4>2, LongerOfParts
      <4>5. a \in Nat /\ p \in Nat /\ p < k /\ q < k
        BY <4>1, <4>2, PowersDouble
      <4>6. Arrived(t, l, i) = IF i < a THEN Arrived(t[2], a, i) ELSE Arrived(t[3], b, i - a)
        BY <4>2, <4>3, ArrivedBelow
      <4>7. Arrived(t[2], a, i).size # 1
        BY <3>1, <4>3, <4>4, <4>5 DEF P
      <4>8. Arrived(t[3], b, i - a).size # 1
        BY <3>1, <4>1, <4>2, <4>3, <4>4, <4>5 DEF P
      <4> QED BY <4>6, <4>7, <4>8
    <3> QED BY <3>5, <3>6
  <2> QED BY <2>1, <2>2
<1>3. m \in T
  <2>1. T \subseteq Nat
    OBVIOUS
  <2> HIDE DEF T
  <2> QED BY <1>1, <1>2, <2>1, Induction
<1>4. P(m)
  BY <1>3
<1> QED BY <1>4

\* A node over what is too long for trees of these sizes is too long for them.
LEMMA TooLong ==
  ASSUME NEW n \in Nat, n >= 1, NEW tree, NEW x, \A m \in Nat : Longer(n, m) => ~ IsTree(tree, m)
  PROVE  /\ ~ IsTree(Node(x, tree), n)
         /\ \A m \in Nat : Longer(n, m) => ~ IsTree(Node(x, tree), m)
<1> DEFINE over == Node(x, tree)
<1>1. over[1] = "node" /\ over[3] = tree
  BY NodeFields
<1> HIDE DEF over
<1>2. ASSUME NEW m \in Nat, m = n \/ Longer(n, m), IsTree(over, m) PROVE FALSE
  <2>1. m >= 1
    <3>1. CASE m = n
      BY <3>1
    <3>2. CASE Longer(n, m)
      BY <3>2 DEF Longer
    <3> QED BY <1>2, <3>1, <3>2
  <2>2. CASE m = 1
    BY <1>1, <1>2, <2>2, OneIsALeaf
  <2>3. CASE m # 1
    <3>1. PICK p \in Powers, q \in Nat : m = p + q /\ q \in 1 .. p
      BY <2>1, <2>3, SizesSplit
    <3>2. IsTree(tree, q)
      BY <1>1, <1>2, <3>1, PartsAreTrees
    <3>3. CASE m = n
      BY <3>1, <3>2, <3>3, LongerOfRight
    <3>4. CASE Longer(n, m)
      <4>1. n >= 2
        <5>1. PICK w \in Powers, c \in Nat : n = m + (c + 1) * w
          BY <3>4 DEF Longer
        <5>2. (c + 1) * w = c * w + w /\ c * w \in Nat /\ w \in Nat
          BY PowersDouble, Products
        <5> DEFINE cw == c * w
        <5>3. n = m + cw + w /\ cw \in Nat
          BY <5>1, <5>2
        <5> HIDE DEF cw
        <5> QED BY <2>1, <2>3, <5>2, <5>3
      <4>2. PICK a \in Powers, b \in Nat : n = a + b /\ b \in 1 .. a
        BY <4>1, SizesSplit
      <4>3. Longer(n, q)
        BY <3>1, <3>4, <4>2, LongerOfParts
      <4> QED BY <3>1, <3>2, <4>3
    <3> QED BY <1>2, <3>3, <3>4
  <2> QED BY <2>2, <2>3
<1> QED BY <1>2 DEF over

-----------------------------------------------------------------------------
(* The place that an inclusion proof shows. *)

\* What the digest of a round is: a tree with the leaf at its place, of w leaves or if it is
\* the last at its level of what there is.
LeafWithin(digest, fn, sn, w, y, z, leaf) ==
    /\ At(fn, y, w) /\ At(sn, z, w) /\ fn <= sn
    /\ HasLeafAt(digest, Width(fn, sn, w, z), y - fn * w, leaf)

LEMMA WithinLeaf ==
  ASSUME NEW y \in Nat, NEW z \in Nat, y <= z, NEW leaf
  PROVE  LeafWithin(leaf, y, z, 1, y, z, leaf)
<1>1. At(y, y, 1) /\ At(z, z, 1) /\ y - y * 1 = 0
  BY DEF At
<1>2. Width(y, z, 1, z) = 1
  <2>1. y < z \/ z + 1 - y * 1 = 1
    OBVIOUS
  <2> QED BY <2>1 DEF Width
<1>3. HasLeafAt(leaf, 1, 0, leaf)
  BY LeafOfOne
<1> QED BY <1>1, <1>2, <1>3 DEF LeafWithin

LEMMA WithinRoot ==
  ASSUME NEW y \in Nat, NEW z \in Nat, NEW leaf, NEW digest, NEW fn, NEW w \in Powers,
         LeafWithin(digest, fn, 0, w, y, z, leaf)
  PROVE  fn = 0 /\ HasLeafAt(digest, z + 1, y, leaf)
<1>1. w \in Nat /\ fn = 0
  BY PowersDouble DEF LeafWithin, At
<1>2. Width(0, 0, w, z) = z + 1 /\ y - 0 * w = y
  <2>1. 0 * w = 0
    BY <1>1
  <2> QED BY <2>1 DEF Width
<1> QED BY <1>1, <1>2 DEF LeafWithin

LEMMA WithinLeft ==
  ASSUME NEW y \in Nat, NEW z \in Nat, NEW leaf, NEW digest, NEW fn, NEW sn, NEW w \in Powers, ~ Odd(fn), fn < sn,
         LeafWithin(digest, fn, sn, w, y, z, leaf), NEW x
  PROVE  LeafWithin(Node(digest, x), Half(fn), Half(sn), 2 * w, y, z, leaf)
<1> DEFINE i == y - fn * w
<1>1. At(fn, y, w) /\ At(sn, z, w) /\ HasLeafAt(digest, w, i, leaf)
  BY DEF LeafWithin, Width
<1>2. /\ At(Half(fn), y, 2 * w) /\ At(Half(sn), z, 2 * w) /\ Half(fn) <= Half(sn)
      /\ Half(fn) * (2 * w) = fn * w /\ fn * w \in Nat /\ y + 1 - fn * w \in 1 .. w
  BY <1>1, LiftsLeft
<1>3. PICK q \in 1 .. w : Width(Half(fn), Half(sn), 2 * w, z) = w + q
  BY <1>1, LiftsLeft
<1>4. i < w /\ i = y - Half(fn) * (2 * w)
  <2>1. w \in Nat
    BY PowersDouble
  <2> QED BY <1>2, <2>1
<1> HIDE DEF i
<1>5. HasLeafAt(Node(digest, x), w + q, i, leaf)
  BY <1>1, <1>4, LeafBelow
<1> QED BY <1>2, <1>3, <1>4, <1>5 DEF LeafWithin

LEMMA WithinLifted ==
  ASSUME NEW y \in Nat, NEW z \in Nat, NEW leaf, NEW digest, NEW fn, NEW sn, NEW w \in Powers,
         LeafWithin(digest, fn, sn, w, y, z, leaf), NEW r, NEW v \in Powers, Lifted(r, v, fn, sn, w, y, z), NEW x
  PROVE  LeafWithin(Node(x, digest), Half(r[1]), Half(r[2]), 2 * v, y, z, leaf)
<1> DEFINE q == Width(fn, sn, w, z)
           a == fn * w
           b == Half(r[1]) * (2 * v)
           i == y - a
           j == y - b
<1>1. q \in 1 .. v /\ HasLeafAt(digest, q, i, leaf)
  BY DEF Lifted, LeafWithin
<1>2. a \in Nat /\ b \in Int /\ v \in Nat
  <2>1. fn \in Nat /\ w \in Nat /\ Half(r[1]) \in Nat /\ v \in Nat /\ 2 * v \in Nat
    BY PowersDouble DEF Lifted, LeafWithin, At
  <2> DEFINE h == Half(r[1])
  <2> HIDE DEF h
  <2> QED BY <2>1 DEF h
<1>3. y + 1 - b = v + (y + 1 - a) /\ y + 1 - a \in 1 .. q
  BY DEF Lifted
<1>4. ~ (j < v) /\ j - v = i
  <2>1. i = y - a /\ j = y - b
    OBVIOUS
  <2> HIDE DEF a, b, i, j, q
  <2> QED BY <1>1, <1>2, <1>3, <2>1
<1>5. HasLeafAt(Node(x, digest), v + q, j, leaf)
  <2> HIDE DEF i, j, q
  <2> QED BY <1>1, <1>4, LeafBelow
<1> HIDE DEF i
<1> QED BY <1>5 DEF LeafWithin, Lifted

\* Once the path goes on past the root, the digest is no tree of the declared size.
Overlong(s, n) ==
    /\ s.fn = 0 /\ s.sn = 0 /\ ~ IsTree(s.digest, n)
    /\ \A m \in Nat : Longer(n, m) => ~ IsTree(s.digest, m)

LEMMA RisesTo ==
  ASSUME NEW s
  PROVE  LET right == Odd(s.fn) \/ s.fn = s.sn
             x == Head(s.proof)
             r == IF right THEN SkipZeros(s.fn, s.sn) ELSE <<s.fn, s.sn>>
             t == RfcRise(s)
         IN /\ t.digest = IF right THEN Node(x, s.digest) ELSE Node(s.digest, x)
            /\ t.fn = Half(r[1]) /\ t.sn = Half(r[2])
<1> DEFINE right == Odd(s.fn) \/ s.fn = s.sn
           r == IF right THEN SkipZeros(s.fn, s.sn) ELSE <<s.fn, s.sn>>
           d == IF right THEN Node(Head(s.proof), s.digest) ELSE Node(s.digest, Head(s.proof))
<1>1. RfcRise(s) = [digest |-> d, fn |-> Half(r[1]), sn |-> Half(r[2]), proof |-> Tail(s.proof)]
  BY DEF RfcRise
<1> HIDE DEF r, d
<1>2. RfcRise(s).digest = d /\ RfcRise(s).fn = Half(r[1]) /\ RfcRise(s).sn = Half(r[2])
  BY <1>1
<1> QED BY <1>2 DEF r, d

LEMMA RiseIncludes ==
  ASSUME NEW y \in Nat, NEW z \in Nat, y <= z, NEW leaf, NEW s, NEW w \in Powers,
         LeafWithin(s.digest, s.fn, s.sn, w, y, z, leaf), s.sn # 0
  PROVE  \E v \in Powers : LeafWithin(RfcRise(s).digest, RfcRise(s).fn, RfcRise(s).sn, v, y, z, leaf)
<1> DEFINE right == Odd(s.fn) \/ s.fn = s.sn
           r == SkipZeros(s.fn, s.sn)
           x == Head(s.proof)
           t == RfcRise(s)
<1>1. At(s.fn, y, w) /\ At(s.sn, z, w) /\ s.fn <= s.sn /\ s.fn \in Nat /\ s.sn \in Nat
  BY DEF LeafWithin, At
<1>2. CASE right
  <2>1. t.digest = Node(x, s.digest) /\ t.fn = Half(r[1]) /\ t.sn = Half(r[2])
    BY <1>2, RisesTo
  <2>2. PICK v \in Powers : Lifted(r, v, s.fn, s.sn, w, y, z)
    BY <1>1, <1>2, LiftsRight
  <2> HIDE DEF t, r
  <2>3. LeafWithin(t.digest, t.fn, t.sn, 2 * v, y, z, leaf)
    BY <2>1, <2>2, WithinLifted
  <2> QED BY <2>3, PowersDouble DEF t
<1>3. CASE ~ right
  <2>1. t.digest = Node(s.digest, x) /\ t.fn = Half(s.fn) /\ t.sn = Half(s.sn)
    BY <1>3, RisesTo
  <2>2. ~ Odd(s.fn) /\ s.fn < s.sn
    BY <1>1, <1>3
  <2> HIDE DEF t
  <2>3. LeafWithin(t.digest, t.fn, t.sn, 2 * w, y, z, leaf)
    BY <2>1, <2>2, WithinLeft
  <2> QED BY <2>3, PowersDouble DEF t
<1> QED BY <1>2, <1>3

\* Past the root there is only the left to add to.
LEMMA RisesPastRoot ==
  ASSUME NEW s, s.fn = 0, s.sn = 0, NEW n \in Nat, n >= 1, \A m \in Nat : Longer(n, m) => ~ IsTree(s.digest, m)
  PROVE  Overlong(RfcRise(s), n)
<1> DEFINE t == RfcRise(s)
           r == SkipZeros(s.fn, s.sn)
<1>1. r = <<0, 0>>
  <2> DEFINE zero == 0
  <2>1. zero \in Nat /\ zero = 0
    OBVIOUS
  <2> HIDE DEF zero
  <2>2. PICK u : ZerosRounds(zero, zero, u)
    BY <2>1, SkipZerosRuns
  <2>3. SkipZeros(zero, zero) = <<zero, zero>>
    BY <2>1, <2>2 DEF ZerosRounds
  <2> QED BY <2>1, <2>3
<1>2. t.digest = Node(Head(s.proof), s.digest) /\ t.fn = Half(r[1]) /\ t.sn = Half(r[2])
  BY RisesTo
<1>3. t.fn = 0 /\ t.sn = 0
  BY <1>1, <1>2 DEF Half
<1> HIDE DEF t
<1>4. ~ IsTree(t.digest, n) /\ \A m \in Nat : Longer(n, m) => ~ IsTree(t.digest, m)
  BY <1>2, TooLong
<1>5. Overlong(t, n)
  BY <1>3, <1>4 DEF Overlong
<1> QED BY <1>5 DEF t

\* One round.
Shows(s, y, z, leaf) ==
    (\E w \in Powers : LeafWithin(s.digest, s.fn, s.sn, w, y, z, leaf)) \/ Overlong(s, z + 1)

LEMMA RiseShows ==
  ASSUME NEW y \in Nat, NEW z \in Nat, y <= z, NEW leaf, NEW s, Shows(s, y, z, leaf)
  PROVE  Shows(RfcRise(s), y, z, leaf)
<1>1. CASE \E w \in Powers : LeafWithin(s.digest, s.fn, s.sn, w, y, z, leaf)
  <2>1. PICK w \in Powers : LeafWithin(s.digest, s.fn, s.sn, w, y, z, leaf)
    BY <1>1
  <2>2. CASE s.sn # 0
    BY <2>1, <2>2, RiseIncludes DEF Shows
  <2>3. CASE s.sn = 0
    <3> DEFINE n == z + 1
    <3>1. s.fn = 0 /\ n \in Nat /\ n >= 1 /\ HasLeafAt(s.digest, n, y, leaf)
      BY <2>1, <2>3, WithinRoot
    <3> HIDE DEF n
    <3>2. \A m \in Nat : Longer(n, m) => ~ IsTree(s.digest, m)
      BY <3>1, TreeOfFewer DEF HasLeafAt
    <3>3. Overlong(RfcRise(s), n)
      BY <2>3, <3>1, <3>2, RisesPastRoot
    <3> QED BY <3>3 DEF Shows, n
  <2> QED BY <2>2, <2>3
<1>2. CASE Overlong(s, z + 1)
  <2> DEFINE n == z + 1
  <2>1. n \in Nat /\ n >= 1 /\ Overlong(s, n)
    BY <1>2
  <2> HIDE DEF n
  <2>2. Overlong(RfcRise(s), n)
    BY <2>1, RisesPastRoot DEF Overlong
  <2> QED BY <2>2 DEF Shows, n
<1> QED BY <1>1, <1>2 DEF Shows

\* Where n siblings lead to.
ClimbedFor(s, n) == Loop(n, RfcRise, s)

ClimbRun(s, w, n) == w = [k \in 0 .. n |-> IF k = 0 THEN s ELSE RfcRise(w[k - 1])]

LEMMA ClimbRuns ==
  ASSUME NEW s, NEW n \in Nat
  PROVE  \E w : /\ ClimbedFor(s, n) = w[n]
                /\ w[0] = s /\ \A k \in 1 .. n : w[k] = RfcRise(w[k - 1])
<1> DEFINE start == s
           T == {m \in Nat : \E w : ClimbRun(s, w, m)}
<1>1. 0 \in T
  <2>1. ClimbRun(s, [k \in 0 .. 0 |-> start], 0)
    BY DEF ClimbRun
  <2> QED BY <2>1
<1>2. ASSUME NEW m \in T PROVE m + 1 \in T
  <2>1. PICK w : ClimbRun(s, w, m)
    OBVIOUS
  <2> DEFINE v == [k \in 0 .. m + 1 |-> IF k \in 0 .. m THEN w[k] ELSE RfcRise(w[m])]
  <2>2. \A k \in 0 .. m : w[k] = IF k = 0 THEN start ELSE RfcRise(w[k - 1])
    BY <2>1 DEF ClimbRun
  <2> HIDE DEF start
  <2>3. \A k \in 0 .. m + 1 : v[k] = IF k = 0 THEN start ELSE RfcRise(v[k - 1])
    BY <2>2
  <2>4. ClimbRun(s, v, m + 1)
    BY <2>3 DEF ClimbRun, start
  <2> QED BY <2>4
<1>3. n \in T
  <2> HIDE DEF T
  <2>1. T \subseteq Nat
    BY DEF T
  <2> QED BY <1>1, <1>2, <2>1, Induction
<1> DEFINE after == CHOOSE w : ClimbRun(s, w, n)
<1>4. ClimbRun(s, after, n)
  BY <1>3
<1>5. ClimbedFor(s, n) = after[n]
  BY DEF ClimbedFor, Loop, ClimbRun
<1> HIDE DEF after
<1>6. \A k \in 0 .. n : after[k] = IF k = 0 THEN start ELSE RfcRise(after[k - 1])
  BY <1>4 DEF ClimbRun
<1> HIDE DEF start
<1>7. after[0] = start /\ \A k \in 1 .. n : after[k] = RfcRise(after[k - 1])
  BY <1>6
<1> QED BY <1>5, <1>7, Zenon DEF start

Climb(s, n, r) == ClimbedFor(s, n) = r[n] /\ r[0] = s /\ \A k \in 1 .. n : r[k] = RfcRise(r[k - 1])

LEMMA ClimbShows ==
  ASSUME NEW y \in Nat, NEW z \in Nat, y <= z, NEW leaf, NEW s, Shows(s, y, z, leaf), NEW n \in Nat
  PROVE  Shows(ClimbedFor(s, n), y, z, leaf)
<1>1. PICK r : Climb(s, n, r)
  BY ClimbRuns DEF Climb
<1>2. ClimbedFor(s, n) = r[n] /\ r[0] = s /\ \A k \in 1 .. n : r[k] = RfcRise(r[k - 1])
  BY <1>1 DEF Climb
<1> DEFINE T == {k \in Nat : k <= n => Shows(r[k], y, z, leaf)}
<1>3. 0 \in T
  BY <1>2
<1>4. ASSUME NEW k \in T PROVE k + 1 \in T
  <2> SUFFICES ASSUME k + 1 <= n PROVE Shows(r[k + 1], y, z, leaf)
    OBVIOUS
  <2>1. k + 1 \in 1 .. n /\ (k + 1) - 1 = k /\ Shows(r[k], y, z, leaf)
    OBVIOUS
  <2>2. r[k + 1] = RfcRise(r[k])
    BY <1>2, <2>1
  <2> QED BY <2>1, <2>2, RiseShows
<1>5. n \in T
  <2>1. T \subseteq Nat
    OBVIOUS
  <2> HIDE DEF T
  <2> QED BY <1>3, <1>4, <2>1, Induction
<1> QED BY <1>2, <1>5

\* What an inclusion proof shows of the root of a tree of the declared size.
LEMMA InclusionShowsPlace ==
  ASSUME NEW leaf, NEW index \in Nat, NEW size \in Nat, index < size, NEW proof, Len(proof) \in Nat, NEW root,
         IsTree(root, size), VerifyRfcInclusion(leaf, index, size, proof, root)
  PROVE  HasLeafAt(root, size, index, leaf)
<1> DEFINE z == size - 1
           s == RfcStart(leaf, index, size, proof)
           end == ClimbedFor(s, Len(proof))
<1>1. z \in Nat /\ index <= z /\ z + 1 = size
  OBVIOUS
<1>2. end.sn = 0 /\ end.digest = root
  BY DEF ClimbedFor, VerifyRfcInclusion, RfcClimb, RfcStart
<1>3. s.digest = leaf /\ s.fn = index /\ s.sn = z
  BY DEF RfcStart
<1> HIDE DEF s, z
<1>4. LeafWithin(leaf, index, z, 1, index, z, leaf)
  BY <1>1, WithinLeaf
<1>5. Shows(s, index, z, leaf)
  BY <1>3, <1>4, PowersDouble DEF Shows
<1>6. Shows(end, index, z, leaf)
  BY <1>1, <1>5, ClimbShows
<1> HIDE DEF end
<1>7. ~ Overlong(end, z + 1)
  BY <1>1, <1>2 DEF Overlong
<1>8. PICK w \in Powers : LeafWithin(end.digest, end.fn, end.sn, w, index, z, leaf)
  BY <1>6, <1>7 DEF Shows
<1> QED BY <1>1, <1>2, <1>8, WithinRoot

-----------------------------------------------------------------------------
(* The place that a membership proof shows. *)

\* One level up in a promoted tree.
Promotes(next, digest, fn, sn) ==
    /\ Odd(fn) => \E x : next = Node(x, digest)
    /\ ~ Odd(fn) /\ fn < sn => \E x : next = Node(digest, x)
    /\ ~ Odd(fn) /\ fn = sn => next = digest

LEMMA WithinPromoted ==
  ASSUME NEW y \in Nat, NEW z \in Nat, y <= z, NEW leaf, NEW digest, NEW fn, NEW sn, NEW w \in Powers,
         LeafWithin(digest, fn, sn, w, y, z, leaf), NEW next, Promotes(next, digest, fn, sn)
  PROVE  LeafWithin(next, Half(fn), Half(sn), 2 * w, y, z, leaf)
<1>1. At(fn, y, w) /\ At(sn, z, w) /\ fn <= sn /\ fn \in Nat /\ sn \in Nat /\ w \in Nat
  BY PowersDouble DEF LeafWithin, At
<1>2. CASE Odd(fn)
  <2>1. PICK x : next = Node(x, digest)
    BY <1>2 DEF Promotes
  <2> DEFINE r == <<fn, sn>>
  <2>2. Lifted(r, w, fn, sn, w, y, z) /\ r[1] = fn /\ r[2] = sn
    BY <1>1, <1>2, LiftsOdd
  <2> HIDE DEF r
  <2> QED BY <2>1, <2>2, WithinLifted
<1>3. CASE ~ Odd(fn) /\ fn < sn
  <2>1. PICK x : next = Node(digest, x)
    BY <1>3 DEF Promotes
  <2> QED BY <1>3, <2>1, WithinLeft
<1>4. CASE ~ Odd(fn) /\ fn = sn
  <2>1. next = digest
    BY <1>4 DEF Promotes
  <2>2. At(Half(fn), y, 2 * w) /\ At(Half(sn), z, 2 * w) /\ Half(fn) * (2 * w) = fn * w
    BY <1>1, <1>4, HalfAt
  <2>3. Half(fn) = Half(sn) /\ Half(fn) \in Nat
    BY <1>4, <2>2 DEF At
  <2>4. Width(Half(fn), Half(sn), 2 * w, z) = Width(fn, sn, w, z)
    <3>1. ~ (Half(fn) < Half(sn)) /\ ~ (fn < sn)
      BY <1>1, <1>4, <2>3
    <3> QED BY <2>2, <3>1 DEF Width
  <2> QED BY <2>1, <2>2, <2>3, <2>4 DEF LeafWithin
<1> QED BY <1>1, <1>2, <1>3, <1>4

LEMMA HalvesOfWidth ==
  ASSUME NEW width \in Nat, width >= 1
  PROVE  /\ RoundedHalf(width) \in Nat /\ RoundedHalf(width) >= 1 /\ RoundedHalf(width) - 1 = Half(width - 1)
         /\ width >= 2 => RoundedHalf(width) < width
BY DEF RoundedHalf, Half

\* One round of verifyPromotedProof(): it stays, or goes one level up.
LEMMA PromotedRises ==
  ASSUME NEW s, s.position \in Nat, s.width \in Nat, s.width >= 1
  PROVE  LET t == PromotedRise(s)
         IN \/ t = s
            \/ /\ t.position = Half(s.position) /\ t.width = RoundedHalf(s.width)
               /\ IF Odd(s.position) THEN \E x : t.digest = Node(x, s.digest)
                  ELSE IF s.position < s.width - 1 THEN \E x : t.digest = Node(s.digest, x)
                  ELSE t.digest = s.digest
<1> DEFINE t == PromotedRise(s)
           paired == Paired(s.position, s.width)
           x == Head(s.siblings)
           d == IF ~ paired THEN s.digest ELSE IF Odd(s.position) THEN Node(x, s.digest) ELSE Node(s.digest, x)
<1>1. CASE s.width <= 1 \/ (paired /\ s.siblings = <<>>)
  BY <1>1 DEF PromotedRise
<1>2. CASE ~ (s.width <= 1 \/ (paired /\ s.siblings = <<>>))
  <2>1. t = [digest |-> d, position |-> Half(s.position), width |-> RoundedHalf(s.width),
             siblings |-> IF paired THEN Tail(s.siblings) ELSE s.siblings]
    BY <1>2 DEF PromotedRise
  <2>2. paired <=> Odd(s.position) \/ s.position < s.width - 1
    BY DEF Paired
  <2> HIDE DEF d, paired
  <2>3. t.digest = d /\ t.position = Half(s.position) /\ t.width = RoundedHalf(s.width)
    BY <2>1
  <2> HIDE DEF t
  <2>4. CASE Odd(s.position)
    <3>1. d = Node(x, s.digest)
      BY <2>2, <2>4 DEF d
    <3> QED BY <2>3, <2>4, <3>1 DEF t
  <2>5. CASE ~ Odd(s.position) /\ s.position < s.width - 1
    <3>1. d = Node(s.digest, x)
      BY <2>2, <2>5 DEF d
    <3> QED BY <2>3, <2>5, <3>1 DEF t
  <2>6. CASE ~ Odd(s.position) /\ ~ (s.position < s.width - 1)
    <3>1. d = s.digest
      BY <2>2, <2>6 DEF d
    <3> QED BY <2>3, <2>6, <3>1 DEF t
  <2> QED BY <2>4, <2>5, <2>6
<1> QED BY <1>1, <1>2

\* The right end of a tree, whatever its size.
RightEnd(tree, w, leaf) == HasLeafAt(tree, w, w, leaf)

LEMMA RightEndBelow ==
  ASSUME NEW tree, tree[1] = "node", NEW w \in Powers, NEW leaf
  PROVE  RightEnd(tree, 2 * w, leaf) <=> RightEnd(tree[3], w, leaf)
<1>1. w \in Nat /\ w >= 1 /\ w \in 1 .. w /\ w + w = 2 * w /\ ~ (2 * w < w) /\ 2 * w - w = w
  BY PowersDouble
<1>2. Arrived(tree, w + w, 2 * w) = Arrived(tree[3], w, 2 * w - w)
  BY <1>1, ArrivedBelow
<1> QED BY <1>1, <1>2 DEF RightEnd, HasLeafAt

LEMMA RightEndOfLeaf ==
  ASSUME NEW tree, tree[1] # "node", NEW w \in Powers, NEW leaf, RightEnd(tree, w, leaf)
  PROVE  tree = leaf
<1>1. Arrived(tree, w, w) = Place(tree, w, w)
  BY PowersDouble, ArrivedAtOnce
<1> QED BY <1>1, PlaceFields DEF RightEnd, HasLeafAt

\* A tree has one.
LEMMA RightEndIsOne ==
  ASSUME NEW tree, NEW v \in Powers, NEW w \in Powers, NEW x, NEW y,
         RightEnd(tree, v, Leaf(x)), RightEnd(tree, w, Leaf(y))
  PROVE  x = y
<1> DEFINE P(u) == \A p \in Powers : \A t : RightEnd(t, u, Leaf(x)) /\ RightEnd(t, p, Leaf(y)) => Leaf(x) = Leaf(y)
           S == {u \in Powers : P(u)}
<1>0. \A a : Leaf(a)[1] = "leaf" /\ Leaf(a)[2] = a
  BY DEF Leaf
<1>1. ASSUME NEW u \in Powers, NEW p \in Powers, NEW t, RightEnd(t, u, Leaf(x)), RightEnd(t, p, Leaf(y)),
             t[1] # "node"
      PROVE  Leaf(x) = Leaf(y)
  BY <1>1, RightEndOfLeaf
<1>2. ASSUME NEW t, NEW a, RightEnd(t, 1, Leaf(a)) PROVE t[1] # "node"
  <2>1. t = Leaf(a)
    BY <1>2, LeafOfOne DEF RightEnd
  <2> QED BY <1>0, <2>1
<1>3. 1 \in S
  BY <1>1, <1>2, PowersDouble
<1>4. ASSUME NEW u \in S PROVE 2 * u \in S
  <2> SUFFICES ASSUME NEW p \in Powers, NEW t, RightEnd(t, 2 * u, Leaf(x)), RightEnd(t, p, Leaf(y)), t[1] = "node"
               PROVE  Leaf(x) = Leaf(y)
    BY <1>1, PowersDouble
  <2>1. p # 1
    BY <1>2
  <2>2. PICK q \in Powers : p = 2 * q
    BY <2>1, PowersHalve
  <2>3. RightEnd(t[3], u, Leaf(x)) /\ RightEnd(t[3], q, Leaf(y))
    BY <2>2, RightEndBelow
  <2> QED BY <2>3
<1>5. S \subseteq Nat
  BY PowersDouble
<1> HIDE DEF P
<1>6. v \in S => P(v)
  OBVIOUS
<1> HIDE DEF S
<1>7. P(v)
  BY <1>3, <1>4, <1>5, <1>6, PowersInduction
<1>8. Leaf(x) = Leaf(y)
  BY <1>7 DEF P
<1> QED BY <1>0, <1>8

\* The last leaf of a tree is at its right end.
LEMMA LastIsRightEnd ==
  ASSUME NEW n \in Nat, n >= 1, NEW tree, NEW leaf, HasLeafAt(tree, n, n - 1, leaf)
  PROVE  \E w \in Powers : RightEnd(tree, w, leaf)
<1> DEFINE P(k) == \A t : HasLeafAt(t, k, k - 1, leaf) => \E w \in Powers : RightEnd(t, w, leaf)
           T == {j \in Nat : \A k \in Nat : k <= j /\ k >= 1 => P(k)}
<1>1. 0 \in T
  OBVIOUS
<1>2. ASSUME NEW j \in T PROVE j + 1 \in T
  <2> SUFFICES ASSUME NEW k \in Nat, k <= j + 1, k >= 1 PROVE P(k)
    OBVIOUS
  <2>1. \A i \in Nat : i < k /\ i >= 1 => P(i)
    OBVIOUS
  <2> HIDE DEF T, P
  <2>2. SUFFICES ASSUME NEW t, HasLeafAt(t, k, k - 1, leaf) PROVE \E w \in Powers : RightEnd(t, w, leaf)
    BY DEF P
  <2>3. CASE k = 1
    <3>1. t = leaf
      BY <2>2, <2>3, LeafOfOne
    <3>2. RightEnd(t, 1, leaf)
      BY <3>1, LeafOfOne DEF RightEnd
    <3> QED BY <3>2, PowersDouble
  <2>4. CASE k # 1
    <3>1. t[1] = "node"
      <4> SUFFICES ASSUME t[1] # "node" PROVE FALSE
        OBVIOUS
      <4>1. Arrived(t, k, k - 1) = Place(t, k, k - 1)
        BY ArrivedAtOnce
      <4> QED BY <2>2, <2>4, <4>1, PlaceFields DEF HasLeafAt
    <3>2. PICK p \in Powers, q \in Nat : k = p + q /\ q \in 1 .. p
      BY <2>4, SizesSplit
    <3>3. p \in Nat /\ p >= 1 /\ ~ (k - 1 < p) /\ (k - 1) - p = q - 1 /\ q < k /\ q >= 1
      BY <3>2, PowersDouble
    <3>4. Arrived(t, p + q, k - 1) = Arrived(t[3], q, (k - 1) - p)
      BY <3>1, <3>2, <3>3, ArrivedBelow
    <3>5. HasLeafAt(t[3], q, q - 1, leaf)
      BY <2>2, <3>2, <3>3, <3>4 DEF HasLeafAt
    <3>6. PICK w \in Powers : RightEnd(t[3], w, leaf)
      BY <2>1, <3>3, <3>5 DEF P
    <3> QED BY <3>1, <3>6, RightEndBelow, PowersDouble
  <2> QED BY <2>3, <2>4
<1>3. n \in T
  <2>1. T \subseteq Nat
    OBVIOUS
  <2> HIDE DEF T
  <2> QED BY <1>1, <1>2, <2>1, Induction
<1>4. P(n)
  BY <1>3
<1> QED BY <1>4

\* What the digest of verifyPromotedProof() is in every round: with its leaf at its place, or
\* at its right end if the place is one past the last.
Placed(s, index, z, leaf) ==
    /\ s.position \in Nat /\ s.width \in Nat /\ s.width >= 1
    /\ index <= z => \E w \in Powers : LeafWithin(s.digest, s.position, s.width - 1, w, index, z, leaf)
    /\ index > z => s.position >= s.width - 1 /\ \E w \in Powers : RightEnd(s.digest, w, leaf)

LEMMA RisePlaces ==
  ASSUME NEW index \in Nat, NEW z \in Nat, NEW leaf, NEW s, Placed(s, index, z, leaf)
  PROVE  Placed(PromotedRise(s), index, z, leaf)
<1> DEFINE t == PromotedRise(s)
<1>1. s.position \in Nat /\ s.width \in Nat /\ s.width >= 1
  BY DEF Placed
<1> DEFINE Up(e) == /\ e.position = Half(s.position) /\ e.width = RoundedHalf(s.width)
                    /\ IF Odd(s.position) THEN \E x : e.digest = Node(x, s.digest)
                       ELSE IF s.position < s.width - 1 THEN \E x : e.digest = Node(s.digest, x)
                       ELSE e.digest = s.digest
<1>2. t = s \/ Up(t)
  BY <1>1, PromotedRises
<1> HIDE DEF t
<1>3. CASE t = s
  BY <1>3 DEF t
<1>4. CASE Up(t)
  <2>1. t.position \in Nat /\ t.width \in Nat /\ t.width >= 1 /\ t.width - 1 = Half(s.width - 1)
    <3>1. Half(s.position) \in Nat
      BY <1>1 DEF Half
    <3> QED BY <1>1, <1>4, <3>1, HalvesOfWidth
  <2>2. ASSUME index <= z PROVE \E w \in Powers : LeafWithin(t.digest, t.position, t.width - 1, w, index, z, leaf)
    <3>1. PICK w \in Powers : LeafWithin(s.digest, s.position, s.width - 1, w, index, z, leaf)
      BY <2>2 DEF Placed
    <3>2. Promotes(t.digest, s.digest, s.position, s.width - 1)
      <4> DEFINE sn == s.width - 1
      <4>1. sn \in Nat
        BY <1>1
      <4>2. IF Odd(s.position) THEN \E x : t.digest = Node(x, s.digest)
            ELSE IF s.position < sn THEN \E x : t.digest = Node(s.digest, x)
            ELSE t.digest = s.digest
        BY <1>4
      <4> HIDE DEF sn
      <4>3. ~ Odd(s.position) /\ s.position = sn => ~ (s.position < sn)
        BY <1>1, <4>1
      <4>4. Promotes(t.digest, s.digest, s.position, sn)
        BY <4>2, <4>3 DEF Promotes
      <4> QED BY <4>4 DEF sn
    <3>3. LeafWithin(t.digest, Half(s.position), Half(s.width - 1), 2 * w, index, z, leaf)
      BY <2>2, <3>1, <3>2, WithinPromoted
    <3>4. 2 * w \in Powers
      BY PowersDouble
    <3> QED BY <1>4, <2>1, <3>3, <3>4
  <2>3. ASSUME index > z PROVE t.position >= t.width - 1 /\ \E w \in Powers : RightEnd(t.digest, w, leaf)
    <3>1. s.position >= s.width - 1
      BY <2>3 DEF Placed
    <3>2. PICK w \in Powers : RightEnd(s.digest, w, leaf)
      BY <2>3 DEF Placed
    <3>3. t.position >= t.width - 1
      <4>1. Half(s.position) >= Half(s.width - 1)
        BY <1>1, <3>1 DEF Half
      <4> QED BY <1>4, <2>1, <4>1
    <3>4. CASE Odd(s.position)
      <4>1. PICK x : t.digest = Node(x, s.digest)
        BY <1>4, <3>4
      <4>2. t.digest[1] = "node" /\ t.digest[3] = s.digest
        BY <4>1, NodeFields
      <4>3. RightEnd(t.digest, 2 * w, leaf) /\ 2 * w \in Powers
        BY <3>2, <4>2, RightEndBelow, PowersDouble
      <4> QED BY <3>3, <4>3
    <3>5. CASE ~ Odd(s.position)
      <4>1. t.digest = s.digest
        <5>1. ~ (s.position < s.width - 1)
          BY <1>1, <3>1
        <5> QED BY <1>4, <3>5, <5>1
      <4> QED BY <3>2, <3>3, <4>1
    <3> QED BY <3>4, <3>5
  <2> HIDE DEF Up
  <2>4. Placed(t, index, z, leaf)
    BY <2>1, <2>2, <2>3 DEF Placed
  <2> QED BY <2>4 DEF t
<1> QED BY <1>2, <1>3, <1>4

\* Where n levels lead to.
PromotedFor(s, n) == Loop(n, PromotedRise, s)

PromotedForRun(s, w, n) == w = [k \in 0 .. n |-> IF k = 0 THEN s ELSE PromotedRise(w[k - 1])]

LEMMA PromotedRuns ==
  ASSUME NEW s, NEW n \in Nat
  PROVE  \E w : /\ PromotedFor(s, n) = w[n]
                /\ w[0] = s /\ \A k \in 1 .. n : w[k] = PromotedRise(w[k - 1])
<1> DEFINE start == s
           T == {m \in Nat : \E w : PromotedForRun(s, w, m)}
<1>1. 0 \in T
  <2>1. PromotedForRun(s, [k \in 0 .. 0 |-> start], 0)
    BY DEF PromotedForRun
  <2> QED BY <2>1
<1>2. ASSUME NEW m \in T PROVE m + 1 \in T
  <2>1. PICK w : PromotedForRun(s, w, m)
    OBVIOUS
  <2> DEFINE v == [k \in 0 .. m + 1 |-> IF k \in 0 .. m THEN w[k] ELSE PromotedRise(w[m])]
  <2>2. \A k \in 0 .. m : w[k] = IF k = 0 THEN start ELSE PromotedRise(w[k - 1])
    BY <2>1 DEF PromotedForRun
  <2> HIDE DEF start
  <2>3. \A k \in 0 .. m + 1 : v[k] = IF k = 0 THEN start ELSE PromotedRise(v[k - 1])
    BY <2>2
  <2>4. PromotedForRun(s, v, m + 1)
    BY <2>3 DEF PromotedForRun, start
  <2> QED BY <2>4
<1>3. n \in T
  <2> HIDE DEF T
  <2>1. T \subseteq Nat
    BY DEF T
  <2> QED BY <1>1, <1>2, <2>1, Induction
<1> DEFINE after == CHOOSE w : PromotedForRun(s, w, n)
<1>4. PromotedForRun(s, after, n)
  BY <1>3
<1>5. PromotedFor(s, n) = after[n]
  BY DEF PromotedFor, Loop, PromotedForRun
<1> HIDE DEF after
<1>6. \A k \in 0 .. n : after[k] = IF k = 0 THEN start ELSE PromotedRise(after[k - 1])
  BY <1>4 DEF PromotedForRun
<1> HIDE DEF start
<1>7. after[0] = start /\ \A k \in 1 .. n : after[k] = PromotedRise(after[k - 1])
  BY <1>6
<1> QED BY <1>5, <1>7, Zenon DEF start

Promotion(s, n, r) == PromotedFor(s, n) = r[n] /\ r[0] = s /\ \A k \in 1 .. n : r[k] = PromotedRise(r[k - 1])

LEMMA PromotedPlaces ==
  ASSUME NEW index \in Nat, NEW z \in Nat, NEW leaf, NEW s, Placed(s, index, z, leaf), NEW n \in Nat
  PROVE  Placed(PromotedFor(s, n), index, z, leaf)
<1>1. PICK r : Promotion(s, n, r)
  BY PromotedRuns DEF Promotion
<1>2. PromotedFor(s, n) = r[n] /\ r[0] = s /\ \A k \in 1 .. n : r[k] = PromotedRise(r[k - 1])
  BY <1>1 DEF Promotion
<1> DEFINE T == {k \in Nat : k <= n => Placed(r[k], index, z, leaf)}
<1>3. 0 \in T
  BY <1>2
<1>4. ASSUME NEW k \in T PROVE k + 1 \in T
  <2> SUFFICES ASSUME k + 1 <= n PROVE Placed(r[k + 1], index, z, leaf)
    OBVIOUS
  <2>1. k + 1 \in 1 .. n /\ (k + 1) - 1 = k /\ Placed(r[k], index, z, leaf)
    OBVIOUS
  <2>2. r[k + 1] = PromotedRise(r[k])
    BY <1>2, <2>1
  <2> QED BY <2>1, <2>2, RisePlaces
<1>5. n \in T
  <2>1. T \subseteq Nat
    OBVIOUS
  <2> HIDE DEF T
  <2> QED BY <1>3, <1>4, <2>1, Induction
<1> QED BY <1>2, <1>5

\* What a membership proof shows.
LEMMA MembershipShowsPlace ==
  ASSUME NEW leaf, NEW index \in Nat, NEW size \in Nat, size >= 1, NEW siblings, NEW root,
         VerifyPromotedProof(leaf, index, size, siblings, root)
  PROVE  /\ index < size => HasLeafAt(root, size, index, leaf)
         /\ index >= size => \E w \in Powers : RightEnd(root, w, leaf)
<1> DEFINE z == size - 1
           s == PromotedStart(leaf, index, size, siblings)
           end == PromotedFor(s, size)
<1>1. z \in Nat /\ z + 1 = size /\ (index < size <=> index <= z) /\ (index >= size <=> index > z)
  OBVIOUS
<1>2. end.width <= 1 /\ end.digest = root
  BY DEF PromotedFor, VerifyPromotedProof, PromotedStart
<1>3. s.digest = leaf /\ s.position = index /\ s.width = size
  BY DEF PromotedStart
<1> HIDE DEF s
<1>4. Placed(s, index, z, leaf)
  <2>1. ASSUME index <= z PROVE LeafWithin(leaf, index, z, 1, index, z, leaf)
    BY <1>1, <2>1, WithinLeaf
  <2>2. RightEnd(leaf, 1, leaf)
    BY LeafOfOne DEF RightEnd
  <2> QED BY <1>1, <1>3, <2>1, <2>2, PowersDouble DEF Placed
<1> HIDE DEF z
<1>5. Placed(end, index, z, leaf)
  BY <1>1, <1>4, PromotedPlaces
<1> HIDE DEF end
<1>6. end.width - 1 = 0
  BY <1>2, <1>5 DEF Placed
<1>7. ASSUME index <= z PROVE HasLeafAt(root, size, index, leaf)
  <2>1. PICK w \in Powers : LeafWithin(end.digest, end.position, end.width - 1, w, index, z, leaf)
    BY <1>5, <1>7 DEF Placed
  <2> QED BY <1>1, <1>2, <1>6, <2>1, WithinRoot
<1>8. ASSUME index > z PROVE \E w \in Powers : RightEnd(root, w, leaf)
  BY <1>2, <1>5, <1>8 DEF Placed
<1> QED BY <1>1, <1>7, <1>8

-----------------------------------------------------------------------------
(* The promoted tree of a sequence. *)

LEMMA EagerIsTheSame ==
  ASSUME NEW k \in Nat, NEW f, f = [i \in 1 .. k |-> f[i]]
  PROVE  f \o <<>> = f /\ Len(f) = k /\ DOMAIN f = 1 .. k
<1> DEFINE S == {f[i] : i \in 1 .. k}
<1>1. f \in [1 .. k -> S]
  OBVIOUS
<1> HIDE DEF S
<1>2. f \in Seq(S)
  BY <1>1
<1>3. f \o <<>> = f
  BY <1>2
<1>4. DOMAIN f = 1 .. k
  BY <1>1
<1>5. Len(f) = k
  BY <1>2, <1>4
<1> QED BY <1>3, <1>4, <1>5

LEMMA PromotedLevelIs ==
  ASSUME NEW level, Len(level) \in Nat
  PROVE  /\ Len(PromotedLevel(level)) = RoundedHalf(Len(level))
         /\ \A i \in 1 .. RoundedHalf(Len(level)) :
               PromotedLevel(level)[i] = IF 2 * i <= Len(level) THEN Node(level[2 * i - 1], level[2 * i])
                                         ELSE level[2 * i - 1]
<1> DEFINE k == RoundedHalf(Len(level))
           f == [i \in 1 .. k |-> IF 2 * i <= Len(level) THEN Node(level[2 * i - 1], level[2 * i])
                                  ELSE level[2 * i - 1]]
<1>1. k \in Nat
  BY DEF RoundedHalf
<1>2. PromotedLevel(level) = f \o <<>>
  BY DEF PromotedLevel
<1> HIDE DEF k
<1>3. f = [i \in 1 .. k |-> f[i]]
  OBVIOUS
<1>4. \A i \in 1 .. k : f[i] = IF 2 * i <= Len(level) THEN Node(level[2 * i - 1], level[2 * i])
                               ELSE level[2 * i - 1]
  OBVIOUS
<1> HIDE DEF f
<1>5. f \o <<>> = f /\ Len(f) = k
  BY <1>1, <1>3, EagerIsTheSame
<1> QED BY <1>2, <1>4, <1>5 DEF k

\* A level has every leaf in one of its digests.
Levelled(level, w, leaves) ==
    /\ Len(level) \in Nat /\ Len(level) >= 1
    /\ \A i \in 0 .. Len(leaves) - 1 :
          \E fn : LeafWithin(level[fn + 1], fn, Len(level) - 1, w, i, Len(leaves) - 1, leaves[i + 1])

LEMMA PromotedLevelled ==
  ASSUME NEW leaves, Len(leaves) \in Nat, NEW level, NEW w \in Powers, Levelled(level, w, leaves)
  PROVE  Levelled(PromotedLevel(level), 2 * w, leaves)
<1> DEFINE next == PromotedLevel(level)
           z == Len(leaves) - 1
           sn == Len(level) - 1
<1>1. Len(level) \in Nat /\ Len(level) >= 1 /\ sn \in Nat
  BY DEF Levelled
<1>2. Len(next) = RoundedHalf(Len(level)) /\ Len(next) \in Nat /\ Len(next) >= 1 /\ Len(next) - 1 = Half(sn)
  BY <1>1, PromotedLevelIs, HalvesOfWidth
<1>3. ASSUME NEW i \in 0 .. z
      PROVE  \E fn : LeafWithin(next[fn + 1], fn, Len(next) - 1, 2 * w, i, z, leaves[i + 1])
  <2>1. z \in Nat /\ i \in Nat /\ i <= z
    OBVIOUS
  <2>2. PICK fn : LeafWithin(level[fn + 1], fn, sn, w, i, z, leaves[i + 1])
    BY DEF Levelled
  <2>3. fn \in Nat /\ fn <= sn
    BY <2>2 DEF LeafWithin, At
  <2> DEFINE h == Half(fn)
             j == h + 1
  <2>4. h \in Nat /\ (Odd(fn) => fn = 2 * h + 1) /\ (~ Odd(fn) => fn = 2 * h)
    BY <2>3 DEF Half, Odd
  <2>5. j \in 1 .. RoundedHalf(Len(level))
    <3>1. h <= Half(sn)
      BY <1>1, <2>3 DEF Half
    <3> HIDE DEF h
    <3> QED BY <1>1, <1>2, <2>4, <3>1
  <2>6. next[j] = IF 2 * j <= Len(level) THEN Node(level[2 * j - 1], level[2 * j]) ELSE level[2 * j - 1]
    BY <1>1, <2>5, PromotedLevelIs
  <2> HIDE DEF next, h
  <2>7. 2 * j - 1 = 2 * h + 1 /\ 2 * j = 2 * h + 2 /\ j \in Nat
    BY <2>4
  <2> HIDE DEF j
  <2>8. Promotes(next[j], level[fn + 1], fn, sn)
    <3>1. CASE Odd(fn)
      <4>1. fn + 1 = 2 * j /\ 2 * j <= Len(level)
        BY <1>1, <2>3, <2>4, <2>7, <3>1
      <4>2. next[j] = Node(level[2 * j - 1], level[fn + 1])
        BY <2>6, <4>1
      <4> QED BY <3>1, <4>2 DEF Promotes
    <3>2. CASE ~ Odd(fn) /\ fn < sn
      <4>1. fn + 1 = 2 * j - 1 /\ 2 * j <= Len(level)
        BY <1>1, <2>3, <2>4, <2>7, <3>2
      <4>2. next[j] = Node(level[fn + 1], level[2 * j])
        BY <2>6, <4>1
      <4>3. fn # sn
        BY <1>1, <2>3, <3>2
      <4> QED BY <3>2, <4>2, <4>3 DEF Promotes
    <3>3. CASE ~ Odd(fn) /\ fn = sn
      <4>1. fn + 1 = 2 * j - 1 /\ ~ (2 * j <= Len(level)) /\ ~ (fn < sn)
        BY <1>1, <2>3, <2>4, <2>7, <3>3
      <4>2. next[j] = level[fn + 1]
        BY <2>6, <4>1
      <4> QED BY <3>3, <4>1, <4>2 DEF Promotes
    <3> QED BY <1>1, <2>3, <3>1, <3>2, <3>3
  <2> HIDE DEF z, sn
  <2>9. LeafWithin(next[j], h, Half(sn), 2 * w, i, z, leaves[i + 1])
    BY <2>1, <2>2, <2>8, WithinPromoted DEF h
  <2>10. LeafWithin(next[h + 1], h, Len(next) - 1, 2 * w, i, z, leaves[i + 1])
    BY <1>2, <2>9 DEF j, next
  <2> QED BY <2>10
<1> HIDE DEF next
<1>4. Levelled(next, 2 * w, leaves)
  BY <1>2, <1>3 DEF Levelled
<1> QED BY <1>4 DEF next

\* The level after n rounds.
LevelAfter(leaves, n) == Loop(n, PromotedLevel, leaves)

LevelRun(leaves, w, n) == w = [k \in 0 .. n |-> IF k = 0 THEN leaves ELSE PromotedLevel(w[k - 1])]

LEMMA LevelRuns ==
  ASSUME NEW leaves, NEW n \in Nat
  PROVE  \E w : /\ LevelAfter(leaves, n) = w[n]
                /\ w[0] = leaves /\ \A k \in 1 .. n : w[k] = PromotedLevel(w[k - 1])
<1> DEFINE start == leaves
           T == {m \in Nat : \E w : LevelRun(leaves, w, m)}
<1>1. 0 \in T
  <2>1. LevelRun(leaves, [k \in 0 .. 0 |-> start], 0)
    BY DEF LevelRun
  <2> QED BY <2>1
<1>2. ASSUME NEW m \in T PROVE m + 1 \in T
  <2>1. PICK w : LevelRun(leaves, w, m)
    OBVIOUS
  <2> DEFINE v == [k \in 0 .. m + 1 |-> IF k \in 0 .. m THEN w[k] ELSE PromotedLevel(w[m])]
  <2>2. \A k \in 0 .. m : w[k] = IF k = 0 THEN start ELSE PromotedLevel(w[k - 1])
    BY <2>1 DEF LevelRun
  <2> HIDE DEF start
  <2>3. \A k \in 0 .. m + 1 : v[k] = IF k = 0 THEN start ELSE PromotedLevel(v[k - 1])
    BY <2>2
  <2>4. LevelRun(leaves, v, m + 1)
    BY <2>3 DEF LevelRun, start
  <2> QED BY <2>4
<1>3. n \in T
  <2> HIDE DEF T
  <2>1. T \subseteq Nat
    BY DEF T
  <2> QED BY <1>1, <1>2, <2>1, Induction
<1> DEFINE after == CHOOSE w : LevelRun(leaves, w, n)
<1>4. LevelRun(leaves, after, n)
  BY <1>3
<1>5. LevelAfter(leaves, n) = after[n]
  BY DEF LevelAfter, Loop, LevelRun
<1> HIDE DEF after
<1>6. \A k \in 0 .. n : after[k] = IF k = 0 THEN start ELSE PromotedLevel(after[k - 1])
  BY <1>4 DEF LevelRun
<1> HIDE DEF start
<1>7. after[0] = start /\ \A k \in 1 .. n : after[k] = PromotedLevel(after[k - 1])
  BY <1>6
<1> QED BY <1>5, <1>7, Zenon DEF start

Levels(leaves, n, r) ==
    LevelAfter(leaves, n) = r[n] /\ r[0] = leaves /\ \A k \in 1 .. n : r[k] = PromotedLevel(r[k - 1])

LEMMA LevelsFollow ==
  ASSUME NEW leaves, NEW n \in Nat
  PROVE  \E r : Levels(leaves, n, r)
<1>1. PICK w : LevelAfter(leaves, n) = w[n] /\ w[0] = leaves /\ \A k \in 1 .. n : w[k] = PromotedLevel(w[k - 1])
  BY LevelRuns
<1>2. Levels(leaves, n, w)
  BY <1>1 DEF Levels
<1> QED BY <1>2

\* There are fewer levels than leaves.
Narrows(level, k, leaves) ==
    /\ \E w \in Powers : Levelled(level, w, leaves)
    /\ Len(level) = 1 \/ Len(level) + k <= Len(leaves)

LEMMA PromotedNarrows ==
  ASSUME NEW leaves, Len(leaves) \in Nat, NEW level, NEW k \in Nat, k + 1 <= Len(leaves), Narrows(level, k, leaves)
  PROVE  Narrows(PromotedLevel(level), k + 1, leaves)
<1> DEFINE n == Len(leaves)
           width == Len(level)
           half == RoundedHalf(width)
<1>1. PICK w \in Powers : Levelled(level, w, leaves)
  BY DEF Narrows
<1>2. width \in Nat /\ width >= 1
  BY <1>1 DEF Levelled
<1>3. Len(PromotedLevel(level)) = half
  BY <1>2, PromotedLevelIs
<1>4. Levelled(PromotedLevel(level), 2 * w, leaves) /\ 2 * w \in Powers
  BY <1>1, PromotedLevelled, PowersDouble
<1>5. width = 1 \/ width + k <= n
  BY DEF Narrows
<1>6. half \in Nat /\ (width >= 2 => half < width) /\ (width = 1 => half = 1)
  <2> HIDE DEF width
  <2> QED BY <1>2 DEF RoundedHalf
<1>7. half = 1 \/ half + (k + 1) <= n
  <2> HIDE DEF half, width, n
  <2>1. n \in Nat
    BY DEF n
  <2> QED BY <1>2, <1>5, <1>6, <2>1
<1> QED BY <1>3, <1>4, <1>7 DEF Narrows

\* A promoted tree has every leaf at its place.
LEMMA PromotedRootPlaces ==
  ASSUME NEW leaves, Len(leaves) \in Nat, NEW i \in 0 .. Len(leaves) - 1
  PROVE  HasLeafAt(PromotedRoot(leaves), Len(leaves), i, leaves[i + 1])
<1> DEFINE n == Len(leaves)
           z == n - 1
<1>1. n \in Nat /\ z \in Nat /\ i \in Nat /\ i <= z /\ z + 1 = n /\ n >= 1
  OBVIOUS
<1>2. PICK r : Levels(leaves, n, r)
  <2> HIDE DEF n
  <2> QED BY <1>1, LevelsFollow
<1>3. LevelAfter(leaves, n) = r[n] /\ r[0] = leaves /\ \A k \in 1 .. n : r[k] = PromotedLevel(r[k - 1])
  BY <1>2 DEF Levels
<1> DEFINE T == {k \in Nat : k <= n => Narrows(r[k], k, leaves)}
<1>4. 0 \in T
  <2>1. ASSUME NEW j \in 0 .. z PROVE LeafWithin(leaves[j + 1], j, z, 1, j, z, leaves[j + 1])
    BY <1>1, WithinLeaf
  <2>2. Levelled(leaves, 1, leaves)
    BY <1>1, <2>1 DEF Levelled
  <2>3. Narrows(leaves, 0, leaves)
    BY <1>1, <2>2, PowersDouble DEF Narrows
  <2> QED BY <1>3, <2>3
<1>5. ASSUME NEW k \in T PROVE k + 1 \in T
  <2> SUFFICES ASSUME k + 1 <= n PROVE Narrows(r[k + 1], k + 1, leaves)
    OBVIOUS
  <2>1. k + 1 \in 1 .. n /\ (k + 1) - 1 = k /\ k \in Nat /\ Narrows(r[k], k, leaves)
    BY <1>1
  <2>2. r[k + 1] = PromotedLevel(r[k])
    BY <1>3, <2>1
  <2> QED BY <2>1, <2>2, PromotedNarrows
<1>6. Narrows(r[n], n, leaves)
  <2>1. T \subseteq Nat
    OBVIOUS
  <2>2. n \in T => Narrows(r[n], n, leaves)
    BY <1>1
  <2> HIDE DEF T
  <2> QED BY <1>1, <1>4, <1>5, <2>1, <2>2, Induction
<1>7. PICK w \in Powers : Levelled(r[n], w, leaves)
  BY <1>6 DEF Narrows
<1>8. Len(r[n]) = 1
  <2>1. Len(r[n]) \in Nat /\ Len(r[n]) >= 1
    BY <1>7 DEF Levelled
  <2>2. Len(r[n]) = 1 \/ Len(r[n]) + n <= n
    BY <1>6 DEF Narrows
  <2> DEFINE width == Len(r[n])
  <2> HIDE DEF width, n
  <2> QED BY <1>1, <2>1, <2>2 DEF width
<1>9. PICK fn : LeafWithin(r[n][fn + 1], fn, 0, w, i, z, leaves[i + 1])
  BY <1>7, <1>8 DEF Levelled
<1>10. fn = 0 /\ HasLeafAt(r[n][fn + 1], z + 1, i, leaves[i + 1])
  <2> HIDE DEF z
  <2> QED BY <1>1, <1>9, WithinRoot
<1>11. PromotedRoot(leaves) = r[n][1]
  BY <1>3 DEF LevelAfter, PromotedRoot
<1> HIDE DEF n, z
<1>12. HasLeafAt(PromotedRoot(leaves), n, i, leaves[i + 1])
  BY <1>1, <1>10, <1>11
<1> QED BY <1>12 DEF n

\* What a membership proof against the tree of a sequence shows: the entry at its place, if
\* there is one there, or else the last entry.
LEMMA MembershipShowsEntry ==
  ASSUME NEW entries, IsArray(entries), Len(entries) >= 1, NEW index \in Nat, NEW siblings, NEW entry,
         VerifyPromotedProof(Leaf(entry), index, Len(entries), siblings, IndexRoot(entries))
  PROVE  entry = entries[IF index < Len(entries) THEN index + 1 ELSE Len(entries)]
<1> DEFINE n == Len(entries)
           leaves == Mapped(entries, Leaf)
           f == [i \in 1 .. n |-> Leaf(entries[i])]
<1>1. n \in Nat /\ DOMAIN entries = 1 .. n
  BY DEF IsArray
<1>2. leaves = f \o <<>>
  BY <1>1 DEF Mapped
<1> HIDE DEF n
<1>3. f = [i \in 1 .. n |-> f[i]] /\ \A i \in 1 .. n : f[i] = Leaf(entries[i])
  OBVIOUS
<1> HIDE DEF f, leaves
<1>4. Len(leaves) = n /\ \A i \in 1 .. n : leaves[i] = Leaf(entries[i])
  BY <1>1, <1>2, <1>3, EagerIsTheSame
<1> DEFINE root == IndexRoot(entries)
<1>5. ASSUME NEW i \in 0 .. n - 1 PROVE HasLeafAt(root, n, i, Leaf(entries[i + 1]))
  <2>1. i + 1 \in 1 .. n /\ i \in 0 .. Len(leaves) - 1 /\ Len(leaves) \in Nat
    BY <1>1, <1>4
  <2>2. HasLeafAt(PromotedRoot(leaves), Len(leaves), i, leaves[i + 1])
    BY <2>1, PromotedRootPlaces
  <2> QED BY <1>4, <2>1, <2>2 DEF IndexRoot, leaves
<1>6. n >= 1 /\ VerifyPromotedProof(Leaf(entry), index, n, siblings, root)
  BY DEF n
<1> HIDE DEF root
<1>7. \A x, y : Leaf(x) = Leaf(y) => x = y
  BY DEF Leaf
<1>8. CASE index < n
  <2>1. index \in 0 .. n - 1
    BY <1>1, <1>8
  <2>2. HasLeafAt(root, n, index, Leaf(entries[index + 1])) /\ HasLeafAt(root, n, index, Leaf(entry))
    BY <1>1, <1>5, <1>6, <1>8, <2>1, MembershipShowsPlace
  <2> QED BY <1>7, <1>8, <2>2 DEF HasLeafAt, n
<1>9. CASE ~ (index < n)
  <2>1. index >= n /\ n - 1 \in 0 .. n - 1 /\ (n - 1) + 1 = n
    BY <1>1, <1>6, <1>9
  <2>2. PICK v \in Powers : RightEnd(root, v, Leaf(entry))
    BY <1>1, <1>6, <2>1, MembershipShowsPlace
  <2>3. HasLeafAt(root, n, n - 1, Leaf(entries[n]))
    BY <1>5, <2>1
  <2>4. PICK w \in Powers : RightEnd(root, w, Leaf(entries[n]))
    BY <1>1, <1>6, <2>3, LastIsRightEnd
  <2>5. entry = entries[n]
    BY <2>2, <2>4, RightEndIsOne
  <2> QED BY <1>9, <2>5 DEF n
<1> QED BY <1>8, <1>9

\* What a range proves of an entry: an entry past the last would have the place of the last.
LEMMA InIndexAtPlace ==
  ASSUME NEW b, Accepted(b), NEW m \in Elements(b.manifests), NEW item, InIndex(m, item), item.index \in Nat
  PROVE  /\ Holds(m.index.root, m.index.count, Leaf(item.entry))
         /\ m.index.count > 0 => item.index < m.index.count /\ item.entry = m.index.entries[item.index + 1]
<1> DEFINE entries == m.index.entries
           n == Len(entries)
<1>1. /\ item.size = m.index.count /\ item.index = item.entry.leaf
      /\ VerifyPromotedProof(Leaf(item.entry), item.index, item.size, item.siblings, m.index.root)
  BY DEF InIndex
<1>2. m.index.count \in Nat /\ m.index.count = n /\ IsArray(entries)
  BY IndexCounted DEF Accepted, HasArrays
<1>3. Holds(m.index.root, m.index.count, Leaf(item.entry))
  BY <1>1, <1>2, PromotedIsHeld
<1>4. ASSUME m.index.count > 0
      PROVE  item.index < m.index.count /\ item.entry = entries[item.index + 1]
  <2>1. entries # <<>> /\ n >= 1 /\ DOMAIN entries = 1 .. n
    BY <1>2, <1>4 DEF IsArray
  <2>2. m.index.root = IndexRoot(entries) /\ \A i \in 1 .. n : entries[i].leaf = i - 1
    BY <2>1, IndexHolds
  <2>3. item.entry = entries[IF item.index < n THEN item.index + 1 ELSE n]
    BY <1>1, <1>2, <2>1, <2>2, MembershipShowsEntry
  <2>4. item.index < n
    <3> SUFFICES ASSUME ~ (item.index < n) PROVE FALSE
      OBVIOUS
    <3>1. item.entry = entries[n] /\ n \in 1 .. n
      BY <1>2, <2>1, <2>3
    <3>2. item.index = n - 1
      BY <1>1, <2>2, <3>1
    <3> HIDE DEF n
    <3> QED BY <1>2, <3>2
  <2> QED BY <1>2, <2>3, <2>4
<1> QED BY <1>3, <1>4

\* What a Merkle proof is said to show is in its tree, at its place: steps 15 to 18.
THEOREM VerifierProofsShowWhatTheyClaim == Spec => []ProofsShowWhatTheyClaim
<1>1. ASSUME Progress PROVE ProofsShowWhatTheyClaim
  <2> SUFFICES ASSUME IsConformant
               PROVE  /\ \A a \in Elements(Bundle.anchors) : \E m \in Elements(Bundle.manifests) :
                            LET leaf == Leaf(<<m.tenant, m.site, m.epoch, m.id, m.id>>)
                            IN /\ m.id = a.manifest /\ Holds(a.root, Len(a.inclusion.siblings), leaf)
                               /\ IsTree(a.root, a.size) /\ a.index < a.size /\ a.size <= MaxShifted =>
                                     HasLeafAt(a.root, a.size, a.index, leaf)
                      /\ \A p \in Elements(Bundle.proofs) : \E batch \in Elements(Bundle.batches) :
                            /\ batch.id = p.batch /\ Holds(batch.root, batch.size, Leaf(p.leaf))
                            /\ p.index < batch.size => HasLeafAt(batch.root, batch.size, p.index, Leaf(p.leaf))
                      /\ \A range \in Elements(Bundle.ranges) : \E m \in Elements(Bundle.manifests) :
                            m.id = range.manifest
                            /\ \A item \in Elements(range.entries) \cup ({range.left, range.right} \ {None}) :
                                  /\ Holds(m.index.root, m.index.count, Leaf(item.entry))
                                  /\ m.index.count > 0 =>
                                        /\ item.index < m.index.count
                                        /\ item.entry = m.index.entries[item.index + 1]
    BY DEF ProofsShowWhatTheyClaim
  <2>1. Accepted(Bundle)
    BY <1>1, ConformantIsAccepted
  <2> HIDE DEF Bundle
  <2>2. ASSUME NEW a \in Elements(Bundle.anchors)
        PROVE  \E m \in Elements(Bundle.manifests) :
                  LET leaf == Leaf(<<m.tenant, m.site, m.epoch, m.id, m.id>>)
                  IN /\ m.id = a.manifest /\ Holds(a.root, Len(a.inclusion.siblings), leaf)
                     /\ IsTree(a.root, a.size) /\ a.index < a.size /\ a.size <= MaxShifted =>
                           HasLeafAt(a.root, a.size, a.index, leaf)
    <3> DEFINE m == Find(Bundle.manifests, a.manifest)
    <3>1. Planned(Bundle, a) /\ Included(a) /\ BindsManifest(Bundle, a)
      BY <2>1, AnchorHolds
    <3>2. m \in Elements(Bundle.manifests) /\ m.id = a.manifest
      BY <3>1, Found DEF Planned, Elements
    <3>3. /\ a.inclusion.index = a.index /\ a.inclusion.size = a.size
          /\ VerifyRfcInclusion(AnchorLeaf(a), a.inclusion.index, a.inclusion.size, a.inclusion.siblings, a.root)
      BY <3>1 DEF Included
    <3>4. Len(a.inclusion.siblings) \in Nat /\ a.index \in Nat /\ a.size \in Nat
      BY <2>1 DEF Accepted, HasArrays, IsArray, HasIntegers
    <3>5. Holds(a.root, Len(a.inclusion.siblings), AnchorLeaf(a))
      BY <3>3, <3>4, RfcIsHeld
    <3>6. ASSUME IsTree(a.root, a.size), a.index < a.size PROVE HasLeafAt(a.root, a.size, a.index, AnchorLeaf(a))
      BY <3>3, <3>4, <3>6, InclusionShowsPlace
    <3>7. a.tenant = m.tenant /\ a.site = m.site /\ a.epoch = m.epoch /\ a.digest = m.id
      BY <3>1 DEF BindsManifest
    <3>8. AnchorLeaf(a) = Leaf(<<m.tenant, m.site, m.epoch, m.id, m.id>>)
      <4> HIDE DEF m
      <4> QED BY <3>2, <3>7 DEF AnchorLeaf
    <3> HIDE DEF m
    <3> QED BY <3>2, <3>5, <3>6, <3>8
  <2>3. ASSUME NEW p \in Elements(Bundle.proofs)
        PROVE  \E batch \in Elements(Bundle.batches) :
                  /\ batch.id = p.batch /\ Holds(batch.root, batch.size, Leaf(p.leaf))
                  /\ p.index < batch.size => HasLeafAt(batch.root, batch.size, p.index, Leaf(p.leaf))
    <3> DEFINE batch == Find(Bundle.batches, p.batch)
    <3>1. /\ BatchBound(Bundle, p)
          /\ VerifyPromotedProof(Leaf(p.leaf), p.index, p.size, p.siblings, batch.root)
      BY <2>1, MerkleHolds
    <3>2. batch \in Elements(Bundle.batches) /\ batch.id = p.batch
      BY <3>1, Found DEF BatchBound, Elements
    <3>3. p.size = batch.size
      BY <3>1 DEF BatchBound
    <3>4. batch.size \in Nat /\ p.index \in Nat
      BY <2>1, <3>2 DEF Accepted, HasIntegers
    <3> HIDE DEF batch
    <3>5. Holds(batch.root, batch.size, Leaf(p.leaf))
      BY <3>1, <3>3, <3>4, PromotedIsHeld
    <3>6. ASSUME p.index < batch.size PROVE HasLeafAt(batch.root, batch.size, p.index, Leaf(p.leaf))
      <4>1. batch.size >= 1
        BY <3>4, <3>6
      <4> QED BY <3>1, <3>3, <3>4, <3>6, <4>1, MembershipShowsPlace
    <3> QED BY <3>2, <3>5, <3>6
  <2>4. ASSUME NEW range \in Elements(Bundle.ranges)
        PROVE  \E m \in Elements(Bundle.manifests) :
                  m.id = range.manifest
                  /\ \A item \in Elements(range.entries) \cup ({range.left, range.right} \ {None}) :
                        /\ Holds(m.index.root, m.index.count, Leaf(item.entry))
                        /\ m.index.count > 0 =>
                              item.index < m.index.count /\ item.entry = m.index.entries[item.index + 1]
    <3>1. PICK n \in DOMAIN Bundle.ranges : range = Bundle.ranges[n]
      BY DEF Elements
    <3> DEFINE m == Find(Bundle.manifests, range.manifest)
    <3>2. /\ m \in Elements(Bundle.manifests) /\ m.id = range.manifest
          /\ \A item \in Elements(range.entries) \cup ({range.left, range.right} \ {None}) : InIndex(m, item)
      BY <2>1, <3>1, RangeHolds
    <3> HIDE DEF m
    <3>3. ASSUME NEW item \in Elements(range.entries) \cup ({range.left, range.right} \ {None})
          PROVE  /\ Holds(m.index.root, m.index.count, Leaf(item.entry))
                 /\ m.index.count > 0 =>
                       item.index < m.index.count /\ item.entry = m.index.entries[item.index + 1]
      <4>1. item.index \in Nat
        BY <2>1 DEF Accepted, HasIntegers
      <4> QED BY <2>1, <3>2, <3>3, <4>1, InIndexAtPlace
    <3> QED BY <3>2, <3>3
  <2> QED BY <2>2, <2>3, <2>4
<1> QED BY <1>1, ProgressInvariant, PTL

-----------------------------------------------------------------------------
(* The RFC 6962 tree of a sequence. *)

\* What rfc6962RootFromDigests() makes of a part, from what it makes of smaller ones.
RootOfPart(leaves, root, part) ==
    LET from == part[1]
        n == part[2]
        split == LargestPowerOfTwoLessThan(n)
    IN IF n = 0 THEN EmptyTree
       ELSE IF n = 1 THEN leaves[from + 1]
       ELSE Node(root[<<from, split>>], root[<<from + split, n - split>>])

PartsUpTo(leaves, m) == {part \in Parts(leaves) : part[2] <= m}

RootRun(leaves, w, m) == w = [part \in PartsUpTo(leaves, m) |-> RootOfPart(leaves, w, part)]

LEMMA SplitIsWithin ==
  ASSUME NEW n \in Nat, n >= 2
  PROVE  \E p \in Powers : /\ LargestPowerOfTwoLessThan(n) = p /\ p \in 1 .. n - 1
                           /\ n - p \in 1 .. p /\ n = p + (n - p)
<1>1. PICK p \in Powers, q \in Nat : n = p + q /\ q \in 1 .. p
  BY SizesSplit
<1>2. LargestPowerOfTwoLessThan(n) = p
  BY <1>1, LargestPower
<1>3. p \in Nat /\ p >= 1
  BY PowersDouble
<1>4. p \in 1 .. n - 1 /\ n - p \in 1 .. p /\ n = p + (n - p)
  BY <1>1, <1>3
<1> QED BY <1>2, <1>4

LEMMA RootRuns ==
  ASSUME NEW leaves, Len(leaves) \in Nat, NEW m \in Nat
  PROVE  \E w : RootRun(leaves, w, m)
<1> DEFINE T == {k \in Nat : \E w : RootRun(leaves, w, k)}
<1>1. 0 \in T
  <2> DEFINE w == [part \in PartsUpTo(leaves, 0) |-> EmptyTree]
  <2>1. \A part \in PartsUpTo(leaves, 0) : RootOfPart(leaves, w, part) = EmptyTree
    BY DEF PartsUpTo, Parts, RootOfPart
  <2>2. RootRun(leaves, w, 0)
    BY <2>1 DEF RootRun
  <2> QED BY <2>2
<1>2. ASSUME NEW k \in T PROVE k + 1 \in T
  <2>1. PICK w : RootRun(leaves, w, k)
    OBVIOUS
  <2> DEFINE v == [part \in PartsUpTo(leaves, k + 1) |->
                      IF part \in PartsUpTo(leaves, k) THEN w[part] ELSE RootOfPart(leaves, w, part)]
  <2>2. PartsUpTo(leaves, k) \subseteq PartsUpTo(leaves, k + 1)
    BY DEF PartsUpTo, Parts
  <2>3. \A part \in PartsUpTo(leaves, k) : w[part] = RootOfPart(leaves, w, part)
    BY <2>1 DEF RootRun
  <2>4. \A part \in PartsUpTo(leaves, k) : v[part] = w[part]
    BY <2>2
  <2>5. \A part \in PartsUpTo(leaves, k + 1) : v[part] = RootOfPart(leaves, w, part)
    BY <2>3
  <2> HIDE DEF v
  <2>6. ASSUME NEW part \in PartsUpTo(leaves, k + 1) PROVE RootOfPart(leaves, w, part) = RootOfPart(leaves, v, part)
    <3> DEFINE from == part[1]
               n == part[2]
    <3>1. from \in Nat /\ n \in Nat /\ from + n <= Len(leaves) /\ n <= k + 1
      BY DEF PartsUpTo, Parts
    <3>2. CASE n < 2
      BY <3>1, <3>2 DEF RootOfPart
    <3>3. CASE ~ (n < 2)
      <4> DEFINE p == LargestPowerOfTwoLessThan(n)
      <4>1. p \in 1 .. n - 1
        <5>1. n \in Nat /\ n >= 2
          BY <3>1, <3>3
        <5> HIDE DEF n
        <5> QED BY <5>1, SplitIsWithin
      <4>2. <<from, p>> \in PartsUpTo(leaves, k) /\ <<from + p, n - p>> \in PartsUpTo(leaves, k)
        <5> HIDE DEF p, from, n
        <5> QED BY <3>1, <4>1 DEF PartsUpTo, Parts
      <4>3. w[<<from, p>>] = v[<<from, p>>] /\ w[<<from + p, n - p>>] = v[<<from + p, n - p>>]
        BY <2>4, <4>2
      <4> QED BY <4>3 DEF RootOfPart
    <3> QED BY <3>2, <3>3
  <2>7. v = [part \in PartsUpTo(leaves, k + 1) |-> v[part]]
    BY DEF v
  <2>8. RootRun(leaves, v, k + 1)
    BY <2>5, <2>6, <2>7 DEF RootRun
  <2> QED BY <2>8
<1>3. T = Nat
  <2>1. T \subseteq Nat
    OBVIOUS
  <2> HIDE DEF T
  <2> QED BY <1>1, <1>2, <2>1, Induction
<1> QED BY <1>3

\* The roots of all the parts of a sequence.
PartRoots(leaves, root) ==
    \A from, n \in Nat : from + n <= Len(leaves) =>
        /\ n = 1 => root[<<from, n>>] = leaves[from + 1]
        /\ n >= 2 => LET split == LargestPowerOfTwoLessThan(n)
                     IN root[<<from, n>>] = Node(root[<<from, split>>], root[<<from + split, n - split>>])

LEMMA RfcRootIsOfParts ==
  ASSUME NEW leaves, Len(leaves) \in Nat
  PROVE  \E root : PartRoots(leaves, root) /\ RfcRoot(leaves) = root[<<0, Len(leaves)>>]
<1> DEFINE root == CHOOSE w : w = [part \in Parts(leaves) |-> RootOfPart(leaves, w, part)]
<1>1. PartsUpTo(leaves, Len(leaves)) = Parts(leaves)
  BY DEF PartsUpTo, Parts
<1>2. \E w : w = [part \in Parts(leaves) |-> RootOfPart(leaves, w, part)]
  BY <1>1, RootRuns DEF RootRun
<1>3. root = [part \in Parts(leaves) |-> RootOfPart(leaves, root, part)]
  BY <1>2
<1>4. RfcRoot(leaves) = root[<<0, Len(leaves)>>]
  BY DEF RfcRoot, RootOfPart
<1> HIDE DEF root
<1>5. \A part \in Parts(leaves) : root[part] = RootOfPart(leaves, root, part)
  BY <1>3
<1>6. PartRoots(leaves, root)
  <2> SUFFICES ASSUME NEW from \in Nat, NEW n \in Nat, from + n <= Len(leaves)
               PROVE  /\ n = 1 => root[<<from, n>>] = leaves[from + 1]
                      /\ n >= 2 => LET split == LargestPowerOfTwoLessThan(n)
                                   IN root[<<from, n>>] = Node(root[<<from, split>>], root[<<from + split, n - split>>])
    BY DEF PartRoots
  <2>1. <<from, n>> \in Parts(leaves)
    BY DEF Parts
  <2>2. root[<<from, n>>] = RootOfPart(leaves, root, <<from, n>>)
    BY <1>5, <2>1
  <2> QED BY <2>2 DEF RootOfPart
<1> QED BY <1>4, <1>6

\* Each part has its leaves at their places.
PartPlaces(leaves, root, from, n) ==
    from + n <= Len(leaves) =>
        \A i \in 0 .. n - 1 : HasLeafAt(root[<<from, n>>], n, i, leaves[from + i + 1])

LEMMA PartRootsPlace ==
  ASSUME NEW leaves, Len(leaves) \in Nat, NEW root, PartRoots(leaves, root), NEW n \in Nat
  PROVE  \A from \in Nat : PartPlaces(leaves, root, from, n)
<1> DEFINE T == {m \in Nat : \A k \in 0 .. m : \A f \in Nat : PartPlaces(leaves, root, f, k)}
<1>1. 0 \in T
  BY DEF PartPlaces
<1>2. ASSUME NEW m \in T PROVE m + 1 \in T
  <2>1. \A k \in 0 .. m : \A f \in Nat : PartPlaces(leaves, root, f, k)
    OBVIOUS
  <2>2. ASSUME NEW f \in Nat PROVE PartPlaces(leaves, root, f, m + 1)
    <3> DEFINE k == m + 1
    <3>1. k \in Nat /\ k >= 1 /\ \A j \in 1 .. k - 1 : j \in 0 .. m
      OBVIOUS
    <3> HIDE DEF k
    <3> SUFFICES ASSUME f + k <= Len(leaves), NEW i \in 0 .. k - 1
                 PROVE  HasLeafAt(root[<<f, k>>], k, i, leaves[f + i + 1])
      BY DEF PartPlaces, k
    <3>2. CASE k = 1
      <4>1. i = 0 /\ f + i + 1 = f + 1 /\ f + 1 <= Len(leaves) /\ 1 \in Nat
        BY <3>1, <3>2
      <4> DEFINE one == 1
      <4>2. one \in Nat /\ one = 1 /\ f + one <= Len(leaves)
        BY <4>1
      <4> HIDE DEF one
      <4>3. root[<<f, one>>] = leaves[f + 1]
        BY <4>2 DEF PartRoots
      <4>4. HasLeafAt(root[<<f, 1>>], 1, i, leaves[f + i + 1])
        BY <4>1, <4>3, LeafOfOne DEF one
      <4> QED BY <3>2, <4>4
    <3>3. CASE k # 1
      <4>1. k >= 2
        BY <3>1, <3>3
      <4>2. PICK p \in Powers : /\ LargestPowerOfTwoLessThan(k) = p /\ p \in 1 .. k - 1
                                /\ k - p \in 1 .. p /\ k = p + (k - p)
        BY <3>1, <4>1, SplitIsWithin
      <4> DEFINE q == k - p
      <4>3. root[<<f, k>>] = Node(root[<<f, p>>], root[<<f + p, q>>])
        BY <3>1, <4>1, <4>2 DEF PartRoots
      <4>4. p \in Nat /\ q \in 1 .. p /\ q \in 1 .. k - 1 /\ k = p + q
        BY <3>1, <4>2
      <4> HIDE DEF q
      <4> DEFINE leaf == leaves[f + i + 1]
      <4>5. CASE i < p
        <5>1. i \in 0 .. p - 1 /\ f + p <= Len(leaves) /\ p \in 0 .. m
          BY <3>1, <4>2, <4>5
        <5>2. HasLeafAt(root[<<f, p>>], p, i, leaf)
          BY <2>1, <5>1 DEF PartPlaces
        <5> HIDE DEF leaf
        <5>3. HasLeafAt(Node(root[<<f, p>>], root[<<f + p, q>>]), p + q, i, leaf)
          BY <4>4, <4>5, <5>2, LeafBelow
        <5> QED BY <4>3, <4>4, <5>3 DEF leaf
      <4>6. CASE ~ (i < p)
        <5>1. i - p \in 0 .. q - 1 /\ f + p \in Nat /\ (f + p) + q <= Len(leaves) /\ q \in 0 .. m
              /\ (f + p) + (i - p) + 1 = f + i + 1
          BY <3>1, <4>4, <4>6
        <5>2. HasLeafAt(root[<<f + p, q>>], q, i - p, leaves[(f + p) + (i - p) + 1])
          BY <2>1, <5>1 DEF PartPlaces
        <5>3. HasLeafAt(root[<<f + p, q>>], q, i - p, leaf)
          BY <5>1, <5>2
        <5> HIDE DEF leaf
        <5>4. HasLeafAt(Node(root[<<f, p>>], root[<<f + p, q>>]), p + q, i, leaf)
          BY <4>4, <4>6, <5>3, LeafBelow
        <5> QED BY <4>3, <4>4, <5>4 DEF leaf
      <4> QED BY <4>5, <4>6
    <3> QED BY <3>2, <3>3
  <2>3. \A k \in 0 .. m + 1 : k \in 0 .. m \/ k = m + 1
    OBVIOUS
  <2> QED BY <2>1, <2>2, <2>3
<1>3. n \in T
  <2>1. T \subseteq Nat
    OBVIOUS
  <2> HIDE DEF T
  <2> QED BY <1>1, <1>2, <2>1, Induction
<1> QED BY <1>3

\* rfc6962RootFromDigests() makes a tree, with every digest at its place.
LEMMA RfcRootPlaces ==
  ASSUME NEW leaves, Len(leaves) \in Nat, NEW i \in 0 .. Len(leaves) - 1
  PROVE  HasLeafAt(RfcRoot(leaves), Len(leaves), i, leaves[i + 1])
<1>1. PICK root : PartRoots(leaves, root) /\ RfcRoot(leaves) = root[<<0, Len(leaves)>>]
  BY RfcRootIsOfParts
<1>2. PartPlaces(leaves, root, 0, Len(leaves))
  BY <1>1, PartRootsPlace
<1>3. 0 + Len(leaves) <= Len(leaves) /\ 0 + i + 1 = i + 1
  OBVIOUS
<1> QED BY <1>1, <1>2, <1>3 DEF PartPlaces

\* The digests of a log are those of its leaves.
AreLeaves(leaves) == \A i \in 1 .. Len(leaves) : leaves[i][1] = "leaf"

LEMMA RfcRootIsATree ==
  ASSUME NEW leaves, Len(leaves) \in Nat, AreLeaves(leaves)
  PROVE  IsTree(RfcRoot(leaves), Len(leaves))
<1> SUFFICES ASSUME NEW i \in 0 .. Len(leaves) - 1
             PROVE  LET end == Arrived(RfcRoot(leaves), Len(leaves), i) IN end.size = 1 /\ end.tree[1] = "leaf"
  BY DEF IsTree
<1>1. HasLeafAt(RfcRoot(leaves), Len(leaves), i, leaves[i + 1])
  BY RfcRootPlaces
<1>2. i + 1 \in 1 .. Len(leaves)
  OBVIOUS
<1> QED BY <1>1, <1>2 DEF HasLeafAt, AreLeaves

\* What verifyRfc6962Inclusion() takes, whatever the proof: against the tree of a log, the leaf of
\* the log at the place that it is given, and no other.  Here as below the shifts are those of
\* integers, which are the source's for logs of up to MaxShifted leaves.
THEOREM InclusionIsOfTheLog ==
  ASSUME NEW leaves, Len(leaves) \in Nat, AreLeaves(leaves), NEW index \in 0 .. Len(leaves) - 1,
         NEW proof, Len(proof) \in Nat, NEW leaf,
         VerifyRfcInclusion(leaf, index, Len(leaves), proof, RfcRoot(leaves))
  PROVE  leaf = leaves[index + 1]
<1> DEFINE root == RfcRoot(leaves)
           n == Len(leaves)
<1>1. IsTree(root, n) /\ HasLeafAt(root, n, index, leaves[index + 1])
  BY RfcRootPlaces, RfcRootIsATree
<1>2. n \in Nat /\ index \in Nat /\ index < n
  OBVIOUS
<1>3. VerifyRfcInclusion(leaf, index, n, proof, root)
  OBVIOUS
<1> HIDE DEF root, n
<1>4. HasLeafAt(root, n, index, leaf)
  BY <1>1, <1>2, <1>3, InclusionShowsPlace
<1> QED BY <1>1, <1>4 DEF HasLeafAt

\* The descent that compares two trees finds the same leaves in both, at the same places.
SameLeaves(s) ==
    \A i \in 0 .. s.n - 1 : Arrived(s.old, s.n, i) = Arrived(s.new, s.size, i)

Comparable(s) == s.n \in Nat /\ s.size \in Nat /\ 1 <= s.n /\ s.n <= s.size

LEMMA DescentKeepsLeaves ==
  ASSUME NEW s, Comparable(s)
  PROVE  Comparable(Descend(s)) /\ (SameLeaves(Descend(s)) => SameLeaves(s))
<1> DEFINE n == s.n
           size == s.size
<1>1. n \in Nat /\ size \in Nat /\ 1 <= n /\ n <= size
  BY DEF Comparable
<1>2. CASE n = size \/ s.new[1] # "node"
  <2>1. Descend(s) = s
    BY <1>2 DEF Descend
  <2> QED BY <2>1
<1>3. CASE ~ (n = size \/ s.new[1] # "node")
  <2>1. size >= 2
    <3> HIDE DEF n, size
    <3> QED BY <1>1, <1>3
  <2>2. PICK p \in Powers : /\ LargestPowerOfTwoLessThan(size) = p /\ p \in 1 .. size - 1
                            /\ size - p \in 1 .. p /\ size = p + (size - p)
    <3> HIDE DEF size
    <3> QED BY <1>1, <2>1, SplitIsWithin
  <2> DEFINE q == size - p
  <2>3. p \in Nat /\ q \in 1 .. p /\ q \in Nat /\ size = p + q
    <3> HIDE DEF size
    <3> QED BY <1>1, <2>2
  <2>4. ASSUME NEW i PROVE Arrived(s.new, size, i) = IF i < p THEN Arrived(s.new[2], p, i) ELSE Arrived(s.new[3], q, i - p)
    <3>1. s.new[1] = "node"
      BY <1>3
    <3> HIDE DEF q, size
    <3> QED BY <2>3, <3>1, ArrivedBelow
  <2>5. CASE n <= p
    <3> DEFINE t == Piece(s.old, s.new[2], p, n)
    <3>1. Descend(s) = t
      BY <1>3, <2>2, <2>5 DEF Descend
    <3>2. t.old = s.old /\ t.new = s.new[2] /\ t.size = p /\ t.n = n
      BY PieceFields
    <3> HIDE DEF t
    <3>3. Comparable(t)
      BY <1>1, <2>3, <2>5, <3>2 DEF Comparable
    <3>4. ASSUME SameLeaves(t), NEW i \in 0 .. n - 1 PROVE Arrived(s.old, n, i) = Arrived(s.new, size, i)
      <4>1. i < p
        <5> HIDE DEF n
        <5> QED BY <1>1, <2>3, <2>5
      <4>2. Arrived(s.old, n, i) = Arrived(s.new[2], p, i)
        BY <3>2, <3>4 DEF SameLeaves
      <4> QED BY <2>4, <4>1, <4>2
    <3> QED BY <3>1, <3>3, <3>4 DEF SameLeaves
  <2>6. CASE ~ (n <= p) /\ (s.old[1] # "node" \/ s.old[2] # s.new[2])
    <3>1. Descend(s) = s
      BY <1>3, <2>2, <2>6 DEF Descend
    <3> QED BY <3>1
  <2>7. CASE ~ (n <= p) /\ ~ (s.old[1] # "node" \/ s.old[2] # s.new[2])
    <3> DEFINE m == n - p
               t == Piece(s.old[3], s.new[3], q, m)
    <3>1. Descend(s) = t
      BY <1>3, <2>2, <2>7 DEF Descend
    <3>2. t.old = s.old[3] /\ t.new = s.new[3] /\ t.size = q /\ t.n = m
      BY PieceFields
    <3>3. m \in 1 .. q /\ m \in 1 .. p /\ m \in Nat /\ n = p + m
      <4> HIDE DEF q, n, size
      <4> QED BY <1>1, <2>3, <2>7
    <3> HIDE DEF t, m, q
    <3>4. Comparable(t)
      BY <2>3, <3>2, <3>3 DEF Comparable
    <3>5. ASSUME NEW i PROVE Arrived(s.old, n, i) = IF i < p THEN Arrived(s.old[2], p, i) ELSE Arrived(s.old[3], m, i - p)
      <4>1. s.old[1] = "node"
        BY <2>7
      <4> HIDE DEF n
      <4> QED BY <3>3, <4>1, ArrivedBelow
    <3>6. ASSUME SameLeaves(t), NEW i \in 0 .. n - 1 PROVE Arrived(s.old, n, i) = Arrived(s.new, size, i)
      <4>1. CASE i < p
        BY <2>4, <2>7, <3>5, <4>1
      <4>2. CASE ~ (i < p)
        <5>1. i - p \in 0 .. m - 1
          <6> HIDE DEF n
          <6> QED BY <1>1, <2>3, <3>3, <4>2
        <5>2. Arrived(s.old[3], m, i - p) = Arrived(s.new[3], q, i - p)
          BY <3>2, <3>6, <5>1 DEF SameLeaves
        <5> QED BY <2>4, <3>5, <4>2, <5>2
      <4> QED BY <4>1, <4>2
    <3> QED BY <3>1, <3>4, <3>6 DEF SameLeaves
  <2> QED BY <2>5, <2>6, <2>7
<1> QED BY <1>2, <1>3

LEMMA PrefixHasSameLeaves ==
  ASSUME NEW m \in Nat, NEW n \in Nat, 1 <= m, m <= n, NEW old, NEW new, IsPrefixTree(old, new, n, m),
         NEW i \in 0 .. m - 1
  PROVE  Arrived(old, m, i) = Arrived(new, n, i)
<1> DEFINE s == Piece(old, new, n, m)
<1>1. s.old = old /\ s.new = new /\ s.size = n /\ s.n = m
  BY PieceFields
<1>2. Agrees(Descended(s, n))
  BY DEF IsPrefixTree, Descended
<1> HIDE DEF s
<1>3. PICK r : Descended(s, n) = r[n] /\ r[0] = s /\ \A k \in 1 .. n : r[k] = Descend(r[k - 1])
  BY DescentRuns
<1> DEFINE T == {k \in Nat : k <= n => Comparable(r[k])}
           U == {k \in Nat : k <= n => SameLeaves(r[n - k])}
<1>4. 0 \in T
  BY <1>1, <1>3 DEF Comparable
<1>5. ASSUME NEW k \in T PROVE k + 1 \in T
  <2> SUFFICES ASSUME k + 1 <= n PROVE Comparable(r[k + 1])
    OBVIOUS
  <2>1. k + 1 \in 1 .. n /\ (k + 1) - 1 = k /\ Comparable(r[k])
    OBVIOUS
  <2> QED BY <1>3, <2>1, DescentKeepsLeaves
<1>6. \A k \in 0 .. n : Comparable(r[k])
  <2>1. T \subseteq Nat /\ (T = Nat => \A k \in 0 .. n : Comparable(r[k]))
    OBVIOUS
  <2> HIDE DEF T
  <2> QED BY <1>4, <1>5, <2>1, Induction
<1>7. 0 \in U
  <2>1. r[n].n = r[n].size /\ r[n].old = r[n].new
    BY <1>2, <1>3 DEF Agrees
  <2>2. SameLeaves(r[n])
    BY <2>1 DEF SameLeaves
  <2> QED BY <2>2
<1>8. ASSUME NEW k \in U PROVE k + 1 \in U
  <2> SUFFICES ASSUME k + 1 <= n PROVE SameLeaves(r[n - (k + 1)])
    OBVIOUS
  <2>1. n - k \in 1 .. n /\ (n - k) - 1 = n - (k + 1) /\ n - (k + 1) \in 0 .. n /\ SameLeaves(r[n - k])
    OBVIOUS
  <2>2. r[n - k] = Descend(r[n - (k + 1)])
    BY <1>3, <2>1
  <2> QED BY <1>6, <2>1, <2>2, DescentKeepsLeaves
<1>9. SameLeaves(r[0])
  <2>1. U \subseteq Nat
    OBVIOUS
  <2>2. n \in U
    <3> HIDE DEF U
    <3> QED BY <1>7, <1>8, <2>1, Induction
  <2>3. SameLeaves(r[n - n])
    BY <2>2
  <2> QED BY <2>3
<1> QED BY <1>1, <1>3, <1>9 DEF SameLeaves

\* What verifyRfc6962Consistency() takes, whatever the path: of the two logs whose trees it
\* connects, the newer one has all the leaves of the older one, at their places.
THEOREM ConsistencyIsAppendOnly ==
  ASSUME NEW older, NEW newer, Len(older) \in Nat, Len(newer) \in Nat, NEW path, Len(path) \in Nat,
         VerifyRfcConsistency(Len(older), Len(newer), RfcRoot(older), RfcRoot(newer), path)
  PROVE  Len(older) <= Len(newer) /\ \A i \in 1 .. Len(older) : newer[i] = older[i]
<1> DEFINE m == Len(older)
           n == Len(newer)
<1>1. m \in Nat /\ n \in Nat /\ 1 <= m /\ m <= n
  BY DEF VerifyRfcConsistency
<1>2. IsPrefixTree(RfcRoot(older), RfcRoot(newer), n, m)
  BY ConsistencyShowsPrefix
<1>3. ASSUME NEW i \in 1 .. m PROVE newer[i] = older[i]
  <2> DEFINE k == i - 1
  <2>1. k \in 0 .. m - 1 /\ k \in 0 .. n - 1 /\ k + 1 = i
    <3> HIDE DEF m, n
    <3> QED BY <1>1
  <2> HIDE DEF k
  <2>2. HasLeafAt(RfcRoot(older), m, k, older[i]) /\ HasLeafAt(RfcRoot(newer), n, k, newer[i])
    BY <2>1, RfcRootPlaces
  <2> HIDE DEF m, n
  <2>3. Arrived(RfcRoot(older), m, k) = Arrived(RfcRoot(newer), n, k)
    BY <1>1, <1>2, <2>1, PrefixHasSameLeaves
  <2> QED BY <2>2, <2>3 DEF HasLeafAt
<1> QED BY <1>1, <1>3

-----------------------------------------------------------------------------
(* The proofs that a promoted tree is made with. *)

\* One level of promotedProof().
Neighbour(position) == IF Odd(position) THEN position - 1 ELSE position + 1

ProofRise(s) ==
    LET sibling == IF Odd(s.position) THEN s.position - 1 ELSE s.position + 1
    IN [level |-> PromotedLevel(s.level), position |-> Half(s.position),
        path |-> s.path \o (IF sibling \in 0 .. Len(s.level) - 1 THEN <<s.level[sibling + 1]>> ELSE <<>>)]

ProofStart(leaves, position) == [level |-> leaves, position |-> position, path |-> <<>>]

ProofFor(s, n) == Loop(n, ProofRise, s)

ProofRun(s, w, n) == w = [k \in 0 .. n |-> IF k = 0 THEN s ELSE ProofRise(w[k - 1])]

LEMMA ProofRuns ==
  ASSUME NEW s, NEW n \in Nat
  PROVE  \E w : /\ ProofFor(s, n) = w[n]
                /\ w[0] = s /\ \A k \in 1 .. n : w[k] = ProofRise(w[k - 1])
<1> DEFINE start == s
           T == {m \in Nat : \E w : ProofRun(s, w, m)}
<1>1. 0 \in T
  <2>1. ProofRun(s, [k \in 0 .. 0 |-> start], 0)
    BY DEF ProofRun
  <2> QED BY <2>1
<1>2. ASSUME NEW m \in T PROVE m + 1 \in T
  <2>1. PICK w : ProofRun(s, w, m)
    OBVIOUS
  <2> DEFINE v == [k \in 0 .. m + 1 |-> IF k \in 0 .. m THEN w[k] ELSE ProofRise(w[m])]
  <2>2. \A k \in 0 .. m : w[k] = IF k = 0 THEN start ELSE ProofRise(w[k - 1])
    BY <2>1 DEF ProofRun
  <2> HIDE DEF start
  <2>3. \A k \in 0 .. m + 1 : v[k] = IF k = 0 THEN start ELSE ProofRise(v[k - 1])
    BY <2>2
  <2>4. ProofRun(s, v, m + 1)
    BY <2>3 DEF ProofRun, start
  <2> QED BY <2>4
<1>3. n \in T
  <2> HIDE DEF T
  <2>1. T \subseteq Nat
    BY DEF T
  <2> QED BY <1>1, <1>2, <2>1, Induction
<1> DEFINE after == CHOOSE w : ProofRun(s, w, n)
<1>4. ProofRun(s, after, n)
  BY <1>3
<1>5. ProofFor(s, n) = after[n]
  BY DEF ProofFor, Loop, ProofRun
<1> HIDE DEF after
<1>6. \A k \in 0 .. n : after[k] = IF k = 0 THEN start ELSE ProofRise(after[k - 1])
  BY <1>4 DEF ProofRun
<1> HIDE DEF start
<1>7. after[0] = start /\ \A k \in 1 .. n : after[k] = ProofRise(after[k - 1])
  BY <1>6
<1> QED BY <1>5, <1>7, Zenon DEF start

\* One level of expectedPromotedSiblings().
CountRise(s) ==
    IF s.width <= 1 THEN s
    ELSE [position |-> Half(s.position), width |-> RoundedHalf(s.width),
          count |-> s.count + (IF Paired(s.position, s.width) THEN 1 ELSE 0)]

CountFor(s, n) == Loop(n, CountRise, s)

CountRun(s, w, n) == w = [k \in 0 .. n |-> IF k = 0 THEN s ELSE CountRise(w[k - 1])]

LEMMA CountRuns ==
  ASSUME NEW s, NEW n \in Nat
  PROVE  \E w : /\ CountFor(s, n) = w[n]
                /\ w[0] = s /\ \A k \in 1 .. n : w[k] = CountRise(w[k - 1])
<1> DEFINE start == s
           T == {m \in Nat : \E w : CountRun(s, w, m)}
<1>1. 0 \in T
  <2>1. CountRun(s, [k \in 0 .. 0 |-> start], 0)
    BY DEF CountRun
  <2> QED BY <2>1
<1>2. ASSUME NEW m \in T PROVE m + 1 \in T
  <2>1. PICK w : CountRun(s, w, m)
    OBVIOUS
  <2> DEFINE v == [k \in 0 .. m + 1 |-> IF k \in 0 .. m THEN w[k] ELSE CountRise(w[m])]
  <2>2. \A k \in 0 .. m : w[k] = IF k = 0 THEN start ELSE CountRise(w[k - 1])
    BY <2>1 DEF CountRun
  <2> HIDE DEF start
  <2>3. \A k \in 0 .. m + 1 : v[k] = IF k = 0 THEN start ELSE CountRise(v[k - 1])
    BY <2>2
  <2>4. CountRun(s, v, m + 1)
    BY <2>3 DEF CountRun, start
  <2> QED BY <2>4
<1>3. n \in T
  <2> HIDE DEF T
  <2>1. T \subseteq Nat
    BY DEF T
  <2> QED BY <1>1, <1>2, <2>1, Induction
<1> DEFINE after == CHOOSE w : CountRun(s, w, n)
<1>4. CountRun(s, after, n)
  BY <1>3
<1>5. CountFor(s, n) = after[n]
  BY DEF CountFor, Loop, CountRun
<1> HIDE DEF after
<1>6. \A k \in 0 .. n : after[k] = IF k = 0 THEN start ELSE CountRise(after[k - 1])
  BY <1>4 DEF CountRun
<1> HIDE DEF start
<1>7. after[0] = start /\ \A k \in 1 .. n : after[k] = CountRise(after[k - 1])
  BY <1>6
<1> QED BY <1>5, <1>7, Zenon DEF start

\* The digest of the place that is proved, one level up.
NextDigest(s) ==
    LET own == s.level[s.position + 1]
        other == s.level[Neighbour(s.position) + 1]
    IN IF ~ Paired(s.position, Len(s.level)) THEN own
       ELSE IF Odd(s.position) THEN Node(other, own) ELSE Node(own, other)

NextPath(s) ==
    s.path \o (IF Paired(s.position, Len(s.level)) THEN <<s.level[Neighbour(s.position) + 1]>> ELSE <<>>)

LEMMA ProofRiseIs ==
  ASSUME NEW s, Len(s.level) \in Nat, s.position \in 0 .. Len(s.level) - 1
  PROVE  LET t == ProofRise(s)
         IN /\ t.level = PromotedLevel(s.level) /\ Len(t.level) = RoundedHalf(Len(s.level))
            /\ t.position = Half(s.position) /\ t.position \in 0 .. Len(t.level) - 1
            /\ t.path = NextPath(s) /\ t.level[t.position + 1] = NextDigest(s)
<1> DEFINE t == ProofRise(s)
           width == Len(s.level)
           position == s.position
           half == Half(position)
           other == Neighbour(position)
           next == PromotedLevel(s.level)
<1>1. width \in Nat /\ position \in Nat /\ position < width
  OBVIOUS
<1>2. t.level = next /\ t.position = half
      /\ t.path = s.path \o (IF other \in 0 .. width - 1 THEN <<s.level[other + 1]>> ELSE <<>>)
  BY DEF ProofRise, Neighbour
<1>3. Len(next) = RoundedHalf(width)
      /\ \A i \in 1 .. RoundedHalf(width) :
            next[i] = IF 2 * i <= width THEN Node(s.level[2 * i - 1], s.level[2 * i]) ELSE s.level[2 * i - 1]
  BY PromotedLevelIs
<1> HIDE DEF t, width, position, next
<1>4. other \in 0 .. width - 1 <=> Paired(position, width)
  BY <1>1 DEF Neighbour, Paired, Odd
<1>5. half \in 0 .. RoundedHalf(width) - 1 /\ half + 1 \in 1 .. RoundedHalf(width)
  BY <1>1 DEF Half, RoundedHalf
<1>6. IF Odd(position) THEN position = 2 * half + 1 /\ other = 2 * half ELSE position = 2 * half /\ other = 2 * half + 1
  BY <1>1 DEF Half, Odd, Neighbour
<1> HIDE DEF half, other
<1> DEFINE i == half + 1
<1>7. next[i] = IF 2 * i <= width THEN Node(s.level[2 * i - 1], s.level[2 * i]) ELSE s.level[2 * i - 1]
  BY <1>3, <1>5
<1>8. half \in Nat /\ 2 * i - 1 = 2 * half + 1 /\ 2 * i = 2 * half + 2
  BY <1>5
<1> DEFINE digest == IF ~ Paired(position, width) THEN s.level[position + 1]
                     ELSE IF Odd(position) THEN Node(s.level[other + 1], s.level[position + 1])
                     ELSE Node(s.level[position + 1], s.level[other + 1])
<1> HIDE DEF i
<1>9. next[i] = digest
  <2>1. CASE Odd(position)
    <3>1. Paired(position, width) /\ 2 * i <= width /\ position + 1 = 2 * i /\ other + 1 = 2 * i - 1
      BY <1>1, <1>6, <1>8, <2>1 DEF Paired
    <3> QED BY <1>7, <2>1, <3>1
  <2>2. CASE ~ Odd(position) /\ position + 1 < width
    <3>1. Paired(position, width) /\ 2 * i <= width /\ position + 1 = 2 * i - 1 /\ other + 1 = 2 * i
      BY <1>1, <1>6, <1>8, <2>2 DEF Paired
    <3> QED BY <1>7, <2>2, <3>1
  <2>3. CASE ~ Odd(position) /\ ~ (position + 1 < width)
    <3>1. ~ Paired(position, width) /\ ~ (2 * i <= width) /\ position + 1 = 2 * i - 1
      BY <1>1, <1>6, <1>8, <2>3 DEF Paired
    <3> QED BY <1>7, <3>1
  <2> QED BY <2>1, <2>2, <2>3
<1>10. digest = NextDigest(s)
  BY DEF NextDigest, other, position, width
<1>11. t.path = NextPath(s)
  BY <1>2, <1>4 DEF NextPath, other, position, width
<1> HIDE DEF digest
<1>12. t.level = PromotedLevel(s.level) /\ Len(t.level) = RoundedHalf(Len(s.level)) /\ t.position = Half(s.position)
  BY <1>2, <1>3 DEF next, half, width, position
<1>13. t.position \in 0 .. Len(t.level) - 1 /\ t.level[t.position + 1] = NextDigest(s)
  BY <1>2, <1>3, <1>5, <1>9, <1>10 DEF i
<1> QED BY <1>11, <1>12, <1>13 DEF t

\* What is left of a path from one of its elements on.
LEMMA RestOfPath ==
  ASSUME NEW S, NEW path \in Seq(S), NEW m \in 1 .. Len(path)
  PROVE  LET rest == SubSeq(path, m, Len(path))
         IN rest # <<>> /\ Head(rest) = path[m] /\ Tail(rest) = SubSeq(path, m + 1, Len(path))
<1> DEFINE n == Len(path)
           rest == SubSeq(path, m, n)
           next == SubSeq(path, m + 1, n)
<1>1. n \in Nat /\ m \in Nat /\ 1 <= m /\ m <= n /\ \A i \in 1 .. n : path[i] \in S
  OBVIOUS
<1> HIDE DEF n
<1>2. rest = [i \in 1 .. n - m + 1 |-> path[i + m - 1]] /\ Len(rest) = n - m + 1
  BY <1>1
<1>3. next = [i \in 1 .. n - m |-> path[i + m]] /\ Len(next) = n - m
  BY <1>1
<1>4. rest \in Seq(S)
  BY <1>1, <1>2
<1> HIDE DEF rest, next
<1>5. rest # <<>> /\ Head(rest) = rest[1] /\ rest[1] = path[m]
  BY <1>1, <1>2, <1>4
<1> DEFINE tail == Tail(rest)
           k == n - m
<1>6. tail \in Seq(S) /\ Len(tail) = Len(rest) - 1 /\ \A i \in 1 .. Len(rest) - 1 : tail[i] = rest[i + 1]
  BY <1>4, <1>5
<1>7. k \in Nat /\ Len(rest) - 1 = k /\ \A i \in 1 .. k : rest[i + 1] = path[i + m]
  BY <1>1, <1>2
<1>8. tail = [i \in 1 .. k |-> tail[i]] /\ next = [i \in 1 .. k |-> next[i]]
      /\ \A i \in 1 .. k : tail[i] = path[i + m] /\ next[i] = path[i + m]
  <2>1. \A i \in 1 .. k : next[i] = path[i + m]
    BY <1>3
  <2>2. tail \in Seq(S) /\ Len(tail) = k
    BY <1>6, <1>7
  <2>3. tail = [i \in 1 .. k |-> tail[i]]
    <3> HIDE DEF tail, k
    <3> QED BY <2>2
  <2>4. next = [i \in 1 .. k |-> next[i]]
    BY <1>3, <2>1
  <2> HIDE DEF tail, k
  <2> QED BY <1>6, <1>7, <2>1, <2>3, <2>4
<1> HIDE DEF tail, k
<1>9. tail = next
  BY <1>8
<1> QED BY <1>5, <1>9 DEF rest, next, n, tail

\* How promotedProof() goes on: it keeps what it has, and ends with a level of one digest.
Rising(s, k, n, S) ==
    /\ Len(s.level) \in Nat /\ s.position \in 0 .. Len(s.level) - 1 /\ s.path \in Seq(S)
    /\ Len(s.level) = 1 \/ Len(s.level) + k <= n

Begins(path, all) == Len(path) <= Len(all) /\ \A i \in 1 .. Len(path) : all[i] = path[i]

LEMMA ProofRisesOn ==
  ASSUME NEW k \in Nat, NEW n \in Nat, k + 1 <= n, NEW S, NEW s, Rising(s, k, n, S),
         \A i \in 1 .. Len(s.level) : s.level[i] \in S
  PROVE  /\ Rising(ProofRise(s), k + 1, n, S) /\ Begins(s.path, ProofRise(s).path)
         /\ IF Paired(s.position, Len(s.level))
            THEN /\ Len(ProofRise(s).path) = Len(s.path) + 1
                 /\ ProofRise(s).path[Len(s.path) + 1] = s.level[Neighbour(s.position) + 1]
            ELSE ProofRise(s).path = s.path
<1> DEFINE t == ProofRise(s)
           width == Len(s.level)
           other == s.level[Neighbour(s.position) + 1]
<1>1. width \in Nat /\ s.position \in 0 .. width - 1 /\ s.path \in Seq(S) /\ (width = 1 \/ width + k <= n)
  BY DEF Rising
<1>2. /\ Len(t.level) = RoundedHalf(width) /\ t.position \in 0 .. Len(t.level) - 1
      /\ t.path = NextPath(s)
  BY <1>1, ProofRiseIs
<1>3. t.path = s.path \o (IF Paired(s.position, width) THEN <<other>> ELSE <<>>)
  BY <1>2 DEF NextPath
<1>4. RoundedHalf(width) \in Nat /\ (RoundedHalf(width) = 1 \/ RoundedHalf(width) + (k + 1) <= n)
  <2> HIDE DEF width
  <2>1. width = 0 \/ width = 1 \/ (RoundedHalf(width) \in Nat /\ RoundedHalf(width) < width)
    BY <1>1 DEF RoundedHalf
  <2>2. width # 0
    BY <1>1
  <2>3. width = 1 => RoundedHalf(width) = 1
    BY DEF RoundedHalf
  <2> QED BY <1>1, <2>1, <2>2, <2>3
<1>5. CASE Paired(s.position, width)
  <2>1. Neighbour(s.position) \in 0 .. width - 1
    <3> HIDE DEF width
    <3> QED BY <1>1, <1>5 DEF Neighbour, Paired, Odd
  <2>2. other \in S
    BY <2>1
  <2> DEFINE path == s.path
  <2>3. t.path = path \o <<other>> /\ path \in Seq(S)
    BY <1>1, <1>3, <1>5
  <2> HIDE DEF t, other, path
  <2>4. t.path \in Seq(S) /\ Len(t.path) = Len(path) + 1 /\ t.path[Len(path) + 1] = other
        /\ \A i \in 1 .. Len(path) : t.path[i] = path[i]
    BY <2>2, <2>3
  <2>5. Begins(path, t.path)
    BY <2>3, <2>4 DEF Begins
  <2>6. Rising(t, k + 1, n, S)
    BY <1>2, <1>4, <2>4 DEF Rising
  <2> QED BY <1>5, <2>4, <2>5, <2>6 DEF t, path, other
<1>6. CASE ~ Paired(s.position, width)
  <2> DEFINE path == s.path
  <2>1. t.path = path \o <<>> /\ path \in Seq(S)
    BY <1>1, <1>3, <1>6
  <2> HIDE DEF t, path
  <2>2. t.path = path
    BY <2>1
  <2>3. Begins(path, t.path)
    BY <2>1, <2>2 DEF Begins
  <2>4. Rising(t, k + 1, n, S)
    BY <1>2, <1>4, <2>1, <2>2 DEF Rising
  <2> QED BY <1>6, <2>2, <2>3, <2>4 DEF t, path
<1> QED BY <1>5, <1>6

\* verifyPromotedProof() goes up with the digest of the place that was proved.
ClimbsWith(v, s, all) ==
    /\ v.digest = s.level[s.position + 1] /\ v.position = s.position /\ v.width = Len(s.level)
    /\ v.siblings = SubSeq(all, Len(s.path) + 1, Len(all))

CountsWith(c, s) == c.position = s.position /\ c.width = Len(s.level) /\ c.count = Len(s.path)

LEMMA RiseFollows ==
  ASSUME NEW k \in Nat, NEW n \in Nat, k + 1 <= n, NEW S, NEW s, Rising(s, k, n, S),
         \A i \in 1 .. Len(s.level) : s.level[i] \in S,
         NEW all \in Seq(S), Begins(ProofRise(s).path, all), NEW v, ClimbsWith(v, s, all), NEW c, CountsWith(c, s)
  PROVE  ClimbsWith(PromotedRise(v), ProofRise(s), all) /\ CountsWith(CountRise(c), ProofRise(s))
<1> DEFINE t == ProofRise(s)
           u == PromotedRise(v)
           d == CountRise(c)
           width == Len(s.level)
           paired == Paired(s.position, width)
           other == s.level[Neighbour(s.position) + 1]
           own == s.level[s.position + 1]
           m == Len(s.path) + 1
<1>1. width \in Nat /\ s.position \in 0 .. width - 1 /\ s.path \in Seq(S) /\ m \in Nat /\ m >= 1
  BY DEF Rising
<1>2. /\ Len(t.level) = RoundedHalf(width) /\ t.position = Half(s.position)
      /\ t.level[t.position + 1] = NextDigest(s)
  BY <1>1, ProofRiseIs
<1>3. IF paired THEN Len(t.path) = m /\ t.path[m] = other ELSE t.path = s.path
  BY ProofRisesOn
<1>4. v.digest = own /\ v.position = s.position /\ v.width = width /\ v.siblings = SubSeq(all, m, Len(all))
  BY DEF ClimbsWith
<1>5. c.position = s.position /\ c.width = width /\ c.count = Len(s.path)
  BY DEF CountsWith
<1>6. CASE width <= 1
  <2>1. width = 1 /\ s.position = 0
    <3> HIDE DEF width
    <3> QED BY <1>1, <1>6
  <2>2. ~ paired /\ RoundedHalf(width) = 1 /\ Half(s.position) = 0
    BY <2>1 DEF Paired, Odd, RoundedHalf, Half
  <2>3. u = v /\ d = c
    BY <1>4, <1>5, <1>6 DEF PromotedRise, CountRise
  <2>4. NextDigest(s) = own
    BY <2>2 DEF NextDigest
  <2>5. ClimbsWith(u, t, all)
    BY <1>2, <1>3, <1>4, <2>1, <2>2, <2>3, <2>4 DEF ClimbsWith
  <2>6. CountsWith(d, t)
    BY <1>2, <1>3, <1>5, <2>1, <2>2, <2>3 DEF CountsWith
  <2> QED BY <2>5, <2>6
<1>7. CASE ~ (width <= 1) /\ paired
  <2>1. Len(t.path) <= Len(all) /\ all[m] = other /\ Len(t.path) = m
    BY <1>1, <1>3, <1>7 DEF Begins
  <2>2. m \in 1 .. Len(all)
    <3> HIDE DEF m
    <3>1. Len(all) \in Nat
      OBVIOUS
    <3> QED BY <1>1, <2>1, <3>1
  <2> DEFINE rest == SubSeq(all, m, Len(all))
  <2>3. rest # <<>> /\ Head(rest) = other /\ Tail(rest) = SubSeq(all, m + 1, Len(all))
    BY <2>1, <2>2, RestOfPath
  <2> HIDE DEF rest
  <2> DEFINE digest == IF Odd(s.position) THEN Node(other, own) ELSE Node(own, other)
  <2>4. NextDigest(s) = digest
    BY <1>7 DEF NextDigest
  <2>5. u = [digest |-> digest, position |-> Half(s.position), width |-> RoundedHalf(width),
             siblings |-> SubSeq(all, m + 1, Len(all))]
    <3>1. v.siblings = rest /\ Paired(v.position, v.width)
      BY <1>4, <1>7 DEF rest
    <3> HIDE DEF own, other, width, m
    <3> QED BY <1>4, <1>7, <2>3, <3>1 DEF PromotedRise
  <2> HIDE DEF digest
  <2>6. u.digest = digest /\ u.position = Half(s.position) /\ u.width = RoundedHalf(width)
        /\ u.siblings = SubSeq(all, m + 1, Len(all))
    BY <2>5
  <2>7. ClimbsWith(u, t, all)
    <3> HIDE DEF t, u
    <3> QED BY <1>2, <2>1, <2>4, <2>6 DEF ClimbsWith
  <2>8. CountsWith(d, t)
    <3>1. d.position = Half(s.position) /\ d.width = RoundedHalf(width) /\ d.count = Len(s.path) + 1
      BY <1>5, <1>7 DEF CountRise
    <3> QED BY <1>2, <2>1, <3>1 DEF CountsWith
  <2> QED BY <2>7, <2>8
<1>8. CASE ~ (width <= 1) /\ ~ paired
  <2>1. NextDigest(s) = own
    BY <1>8 DEF NextDigest
  <2>2. u.digest = own /\ u.position = Half(s.position) /\ u.width = RoundedHalf(width)
        /\ u.siblings = SubSeq(all, m, Len(all))
    BY <1>4, <1>8 DEF PromotedRise
  <2>3. ClimbsWith(u, t, all)
    <3> HIDE DEF t, u
    <3> QED BY <1>2, <1>3, <1>8, <2>1, <2>2 DEF ClimbsWith
  <2>4. CountsWith(d, t)
    <3>1. d.position = Half(s.position) /\ d.width = RoundedHalf(width) /\ d.count = Len(s.path) + 0
      BY <1>5, <1>8 DEF CountRise
    <3> QED BY <1>1, <1>2, <1>3, <1>8, <3>1 DEF CountsWith
  <2> QED BY <2>3, <2>4
<1> QED BY <1>6, <1>7, <1>8

ProofRounds(s, n, r) == ProofFor(s, n) = r[n] /\ r[0] = s /\ \A k \in 1 .. n : r[k] = ProofRise(r[k - 1])
CountRounds(s, n, r) == CountFor(s, n) = r[n] /\ r[0] = s /\ \A k \in 1 .. n : r[k] = CountRise(r[k - 1])

\* The digests of all levels.
Digests(r, n) == UNION {{r[k].level[i] : i \in 1 .. Len(r[k].level)} : k \in 0 .. n}

LEMMA RoundsRise ==
  ASSUME NEW leaves, NEW n \in Nat, Len(leaves) = n, NEW index \in 0 .. n - 1,
         NEW r, ProofRounds(ProofStart(leaves, index), n, r)
  PROVE  /\ \A k \in 0 .. n : Rising(r[k], k, n, Digests(r, n)) /\ \A i \in 1 .. Len(r[k].level) : r[k].level[i] \in Digests(r, n)
         /\ \A k \in 0 .. n : Begins(r[k].path, r[n].path)
         /\ PromotedProof(leaves, index) = r[n].path /\ PromotedRoot(leaves) = r[n].level[1] /\ Len(r[n].level) = 1
<1> DEFINE s == ProofStart(leaves, index)
           S == Digests(r, n)
<1>1. ProofFor(s, n) = r[n] /\ r[0] = s /\ \A k \in 1 .. n : r[k] = ProofRise(r[k - 1])
  BY DEF ProofRounds
<1>2. s.level = leaves /\ s.position = index /\ s.path = <<>>
  BY DEF ProofStart
<1>3. PromotedProof(leaves, index) = r[n].path
  BY <1>1 DEF PromotedProof, ProofFor, ProofStart, ProofRise
<1>4. ASSUME NEW k \in 0 .. n PROVE \A i \in 1 .. Len(r[k].level) : r[k].level[i] \in S
  BY DEF Digests
<1> HIDE DEF s, S
<1> DEFINE T == {k \in Nat : k <= n => Rising(r[k], k, n, S)}
<1>5. 0 \in T
  <2>1. <<>> \in Seq(S) /\ n + 0 <= n
    OBVIOUS
  <2> QED BY <1>1, <1>2, <2>1 DEF Rising
<1>6. ASSUME NEW k \in T PROVE k + 1 \in T
  <2> SUFFICES ASSUME k + 1 <= n PROVE Rising(r[k + 1], k + 1, n, S)
    OBVIOUS
  <2>1. k + 1 \in 1 .. n /\ (k + 1) - 1 = k /\ k \in 0 .. n /\ Rising(r[k], k, n, S)
    OBVIOUS
  <2>2. r[k + 1] = ProofRise(r[k])
    BY <1>1, <2>1
  <2> QED BY <1>4, <2>1, <2>2, ProofRisesOn
<1>7. \A k \in 0 .. n : Rising(r[k], k, n, S)
  <2>1. T \subseteq Nat /\ (T = Nat => \A k \in 0 .. n : Rising(r[k], k, n, S))
    OBVIOUS
  <2> HIDE DEF T
  <2> QED BY <1>5, <1>6, <2>1, Induction
<1> DEFINE all == r[n].path
           U == {k \in Nat : k <= n => Begins(r[n - k].path, all)}
<1>8. all \in Seq(S)
  BY <1>7 DEF Rising
<1>9. 0 \in U
  <2>1. n - 0 = n
    OBVIOUS
  <2> HIDE DEF all
  <2>2. Begins(all, all)
    BY <1>8 DEF Begins
  <2> QED BY <2>1, <2>2 DEF all
<1>10. ASSUME NEW k \in U PROVE k + 1 \in U
  <2> DEFINE m == n - (k + 1)
  <2> SUFFICES ASSUME k + 1 <= n PROVE Begins(r[m].path, all)
    OBVIOUS
  <2>1. m \in Nat /\ m \in 0 .. n /\ m + 1 \in 1 .. n /\ (m + 1) - 1 = m /\ n - k = m + 1 /\ m + 1 <= n
    OBVIOUS
  <2>2. Begins(r[m + 1].path, all)
    BY <2>1
  <2> HIDE DEF m, all
  <2>3. r[m + 1] = ProofRise(r[m])
    BY <1>1, <2>1
  <2>4. Begins(r[m].path, r[m + 1].path)
    BY <1>4, <1>7, <2>1, <2>3, ProofRisesOn
  <2>5. r[m].path \in Seq(S) /\ r[m + 1].path \in Seq(S)
    BY <1>7, <2>1 DEF Rising
  <2> QED BY <1>8, <2>2, <2>4, <2>5 DEF Begins
<1>11. \A k \in 0 .. n : Begins(r[k].path, all)
  <2> SUFFICES ASSUME NEW k \in 0 .. n PROVE Begins(r[k].path, all)
    OBVIOUS
  <2>1. n - k \in Nat /\ n - k <= n /\ n - (n - k) = k
    OBVIOUS
  <2>2. U \subseteq Nat
    OBVIOUS
  <2>3. n - k \in U
    <3> HIDE DEF U
    <3> QED BY <1>9, <1>10, <2>1, <2>2, Induction
  <2>4. Begins(r[n - (n - k)].path, all)
    BY <2>1, <2>3
  <2> QED BY <2>1, <2>4
<1>12. PICK w : Levels(leaves, n, w)
  BY LevelsFollow
<1> DEFINE V == {k \in Nat : k <= n => r[k].level = w[k]}
<1>13. 0 \in V
  BY <1>1, <1>2, <1>12 DEF Levels
<1>14. ASSUME NEW k \in V PROVE k + 1 \in V
  <2> SUFFICES ASSUME k + 1 <= n PROVE r[k + 1].level = w[k + 1]
    OBVIOUS
  <2>1. k + 1 \in 1 .. n /\ (k + 1) - 1 = k /\ k \in 0 .. n /\ r[k].level = w[k]
    OBVIOUS
  <2>2. r[k + 1] = ProofRise(r[k]) /\ w[k + 1] = PromotedLevel(w[k])
    BY <1>1, <1>12, <2>1 DEF Levels
  <2>3. ProofRise(r[k]).level = PromotedLevel(r[k].level)
    BY DEF ProofRise
  <2> QED BY <2>1, <2>2, <2>3
<1>15. r[n].level = w[n]
  <2>1. V \subseteq Nat /\ (n \in V => r[n].level = w[n])
    OBVIOUS
  <2> HIDE DEF V
  <2> QED BY <1>13, <1>14, <2>1, Induction
<1>16. PromotedRoot(leaves) = r[n].level[1]
  BY <1>12, <1>15 DEF Levels, LevelAfter, PromotedRoot
<1>17. Len(r[n].level) = 1
  <2> DEFINE width == Len(r[n].level)
  <2>1. width \in Nat /\ width # 0 /\ (width = 1 \/ width + n <= n)
    <3>1. Rising(r[n], n, n, S)
      BY <1>7
    <3> QED BY <3>1 DEF Rising
  <2> HIDE DEF width
  <2>2. width = 1
    BY <2>1
  <2> QED BY <2>2 DEF width
<1> QED BY <1>3, <1>4, <1>7, <1>11, <1>16, <1>17 DEF S

\* What promotedProof() makes, verifyPromotedProof() takes, against the tree of the same leaves:
\* with as many siblings as expectedPromotedSiblings() asks for, for a tree of any size.
THEOREM PromotedProofsVerify ==
  ASSUME NEW leaves, Len(leaves) \in Nat, NEW index \in 0 .. Len(leaves) - 1
  PROVE  /\ Len(PromotedProof(leaves, index)) = ExpectedPromotedSiblings(index, Len(leaves))
         /\ VerifyPromotedProof(leaves[index + 1], index, Len(leaves), PromotedProof(leaves, index),
                                PromotedRoot(leaves))
<1> DEFINE n == Len(leaves)
           all == PromotedProof(leaves, index)
           leaf == leaves[index + 1]
           s == ProofStart(leaves, index)
           v == PromotedStart(leaf, index, n, all)
           c == [position |-> index, width |-> n, count |-> 0]
<1>1. n \in Nat /\ index \in 0 .. n - 1
  OBVIOUS
<1>2. s.level = leaves /\ s.position = index /\ s.path = <<>>
  BY DEF ProofStart
<1>3. v.digest = leaf /\ v.position = index /\ v.width = n /\ v.siblings = all
  BY DEF PromotedStart
<1>4. CountFor(c, n).count = ExpectedPromotedSiblings(index, n)
  BY DEF CountFor, CountRise, ExpectedPromotedSiblings
<1>5. VerifyPromotedProof(leaf, index, n, all, PromotedRoot(leaves)) <=>
         LET top == PromotedFor(v, n) IN top.width <= 1 /\ top.siblings = <<>> /\ top.digest = PromotedRoot(leaves)
  BY DEF VerifyPromotedProof, PromotedFor, PromotedStart
<1>6. c.position = index /\ c.width = n /\ c.count = 0
  OBVIOUS
<1> HIDE DEF s, v, c
<1>7. \A m \in Nat : \E r : ProofRounds(s, m, r)
  BY ProofRuns DEF ProofRounds
<1>8. \A m \in Nat : \E r : Promotion(v, m, r)
  BY PromotedRuns DEF Promotion
<1>9. \A m \in Nat : \E r : CountRounds(c, m, r)
  BY CountRuns DEF CountRounds
<1> HIDE DEF n
<1>10. PICK r : ProofRounds(s, n, r)
  BY <1>1, <1>7
<1>11. PICK x : Promotion(v, n, x)
  BY <1>1, <1>8
<1>12. PICK y : CountRounds(c, n, y)
  BY <1>1, <1>9
<1> DEFINE S == Digests(r, n)
<1>13. /\ \A k \in 0 .. n : Rising(r[k], k, n, S) /\ \A i \in 1 .. Len(r[k].level) : r[k].level[i] \in S
       /\ \A k \in 0 .. n : Begins(r[k].path, r[n].path)
       /\ all = r[n].path /\ PromotedRoot(leaves) = r[n].level[1] /\ Len(r[n].level) = 1
  BY <1>1, <1>10, RoundsRise DEF n, s
<1>14. r[0] = s /\ \A k \in 1 .. n : r[k] = ProofRise(r[k - 1])
  BY <1>10 DEF ProofRounds
<1>15. PromotedFor(v, n) = x[n] /\ x[0] = v /\ \A k \in 1 .. n : x[k] = PromotedRise(x[k - 1])
  BY <1>11 DEF Promotion
<1>16. CountFor(c, n) = y[n] /\ y[0] = c /\ \A k \in 1 .. n : y[k] = CountRise(y[k - 1])
  BY <1>12 DEF CountRounds
<1> HIDE DEF S, all
<1>17. all \in Seq(S)
  <2>1. Rising(r[n], n, n, S)
    BY <1>1, <1>13
  <2> QED BY <1>13, <2>1 DEF Rising
<1> DEFINE T == {k \in Nat : k <= n => ClimbsWith(x[k], r[k], all) /\ CountsWith(y[k], r[k])}
<1>18. 0 \in T
  <2>1. SubSeq(all, 1, Len(all)) = all
    BY <1>17
  <2>2. ClimbsWith(v, s, all)
    BY <1>2, <1>3, <2>1 DEF ClimbsWith, leaf, n
  <2>3. CountsWith(c, s)
    BY <1>2, <1>6 DEF CountsWith, n
  <2> QED BY <1>14, <1>15, <1>16, <2>2, <2>3
<1>19. ASSUME NEW k \in T PROVE k + 1 \in T
  <2> SUFFICES ASSUME k + 1 <= n PROVE ClimbsWith(x[k + 1], r[k + 1], all) /\ CountsWith(y[k + 1], r[k + 1])
    OBVIOUS
  <2>1. /\ k + 1 \in 1 .. n /\ (k + 1) - 1 = k /\ k \in 0 .. n /\ k + 1 \in 0 .. n /\ k \in Nat
        /\ ClimbsWith(x[k], r[k], all) /\ CountsWith(y[k], r[k])
    BY <1>1
  <2>2. r[k + 1] = ProofRise(r[k]) /\ x[k + 1] = PromotedRise(x[k]) /\ y[k + 1] = CountRise(y[k])
    BY <1>14, <1>15, <1>16, <2>1
  <2>3. Begins(ProofRise(r[k]).path, all)
    BY <1>13, <2>1, <2>2
  <2>4. Rising(r[k], k, n, S) /\ \A i \in 1 .. Len(r[k].level) : r[k].level[i] \in S
    BY <1>13, <2>1
  <2> HIDE DEF T
  <2> QED BY <1>1, <1>17, <2>1, <2>2, <2>3, <2>4, RiseFollows
<1>20. ClimbsWith(x[n], r[n], all) /\ CountsWith(y[n], r[n])
  <2>1. T \subseteq Nat /\ (n \in T => ClimbsWith(x[n], r[n], all) /\ CountsWith(y[n], r[n]))
    BY <1>1
  <2> HIDE DEF T
  <2> QED BY <1>1, <1>18, <1>19, <2>1, Induction
<1>21. r[n].position = 0
  <2>1. Rising(r[n], n, n, S)
    BY <1>1, <1>13
  <2> QED BY <1>13, <2>1 DEF Rising
<1>22. x[n].width = 1 /\ x[n].digest = PromotedRoot(leaves)
  <2>1. x[n].width = Len(r[n].level) /\ x[n].digest = r[n].level[r[n].position + 1]
    BY <1>20 DEF ClimbsWith
  <2> QED BY <1>13, <1>21, <2>1
<1>23. x[n].siblings = <<>>
  <2>1. x[n].siblings = SubSeq(all, Len(all) + 1, Len(all))
    BY <1>13, <1>20 DEF ClimbsWith
  <2> DEFINE m == Len(all)
  <2>2. m \in Nat
    BY <1>17
  <2> HIDE DEF m
  <2>3. SubSeq(all, m + 1, m) = <<>>
    BY <1>17, <2>2
  <2> QED BY <2>1, <2>3 DEF m
<1>24. y[n].count = Len(all)
  BY <1>13, <1>20 DEF CountsWith
<1>25. Len(all) = ExpectedPromotedSiblings(index, n)
  BY <1>4, <1>16, <1>24
<1>26. VerifyPromotedProof(leaf, index, n, all, PromotedRoot(leaves))
  BY <1>5, <1>15, <1>22, <1>23
<1> QED BY <1>25, <1>26 DEF all, n

\* And nothing else: against the tree of a batch or an index, whatever the siblings, it takes
\* the leaf at the place that it is given, and no other.
THEOREM MembershipIsOfTheTree ==
  ASSUME NEW leaves, Len(leaves) \in Nat, NEW index \in 0 .. Len(leaves) - 1, NEW siblings, NEW leaf,
         VerifyPromotedProof(leaf, index, Len(leaves), siblings, PromotedRoot(leaves))
  PROVE  leaf = leaves[index + 1]
<1> DEFINE root == PromotedRoot(leaves)
           n == Len(leaves)
<1>1. HasLeafAt(root, n, index, leaves[index + 1])
  BY PromotedRootPlaces
<1>2. n \in Nat /\ n >= 1 /\ index \in Nat /\ index < n
  OBVIOUS
<1>3. VerifyPromotedProof(leaf, index, n, siblings, root)
  OBVIOUS
<1> HIDE DEF root, n
<1>4. HasLeafAt(root, n, index, leaf)
  BY <1>2, <1>3, MembershipShowsPlace
<1> QED BY <1>1, <1>4 DEF HasLeafAt
=============================================================================

---------------------------- MODULE CredentialSteps ----------------------------
(***************************************************************************)
(* Who signed: sub-steps 7 to 9 of step 6 for every signed object of a     *)
(* bundle, and step 8, the life of the credentials behind the signatures.  *)
(*                                                                         *)
(* A signed object has `by`, the kid its header names, and `sig`, whether  *)
(* the signature verifies under the key of that kid.                       *)
(***************************************************************************)
EXTENDS EnvelopeSteps

CONSTANTS
    Day,            \* 86 400 s
    Hour,           \* 3 600 s, the lease of the higher profiles
    Minutes         \* 300 s, their status age

ASSUME ClockAssumption == Minutes \in Nat /\ Hour \in Nat /\ Day \in Nat

Entry(kind, a, enclosing) == [kind |-> kind, a |-> a, enclosing |-> enclosing]

\* A receipt, its embedded delegation, its nested presentation.
ReceiptEntries(r) ==
    IF r.kind # "authorization" THEN <<Entry("receipt", r, None)>>
    ELSE IF r.body.presentation = None
    THEN <<Entry("receipt", r, None), Entry("delegation", r.body.delegation, None)>>
    ELSE <<Entry("receipt", r, None), Entry("delegation", r.body.delegation, None),
           Entry("presentation", r.body.presentation, r.by)>>

\* The other signed objects: their kind and the array that they are in.
TopLevel ==
    << <<"credential", "credentials">>, <<"rotation", "rotations">>, <<"status", "statuses">>,
       <<"request", "requests">>, <<"delegation", "delegations">>, <<"epoch_event", "events">>,
       <<"epoch_manifest", "manifests">>, <<"anchor", "anchors">>, <<"merkle_batch", "batches">>,
       <<"mediator_countersignature", "countersignatures">> >>

\* Every signed object, and a check of each in the order of step 6.
Entries(b) ==
    (UNION {{Entry(t[1], a, None) : a \in Elements(b[t[2]])} : t \in Elements(TopLevel)})
    \cup UNION {Elements(ReceiptEntries(r)) : r \in Elements(b.receipts)}

ForEachEntry(b, Fault(_)) ==
    ForEach(TopLevel, LAMBDA t : ForEach(b[t[2]], LAMBDA a : Fault(Entry(t[1], a, None))))
    ?? ForEach(b.receipts, LAMBDA r : ForEach(ReceiptEntries(r), Fault))

-----------------------------------------------------------------------------
\* Step 6, sub-steps 7 to 9

UsageFor(entry) ==
    CASE entry.kind = "request" -> "agent_signing"
      [] entry.kind = "delegation" -> "authority_signing"
      [] entry.kind \in {"credential", "rotation"} -> "credential_issuing"
      [] entry.kind = "status" -> "status_signing"
      [] entry.kind \in {"epoch_event", "epoch_manifest", "merkle_batch"} -> "ep_signing"
      [] entry.kind = "anchor" -> "anchor_signing"
      [] entry.kind = "mediator_countersignature" -> "outcome_signing"
      [] entry.kind = "presentation" ->
            IF entry.a.mode = "approver_originated" THEN "approver_signing" ELSE "ep_signing"
      [] entry.kind = "receipt" ->
            (CASE entry.a.role = "agent" -> "agent_signing"
               [] entry.a.role = "enforcement_point" -> "ep_signing"
               [] entry.a.role = "outcome_observer" -> "outcome_signing"
               [] OTHER -> "")

SigningTime(b, entry) ==
    CASE entry.kind \in {"receipt", "request", "epoch_event", "merkle_batch", "anchor",
                         "presentation", "status", "mediator_countersignature"} -> entry.a.at
      [] entry.kind = "epoch_manifest" -> entry.a.closed
      [] entry.kind \in {"credential", "delegation", "rotation"} -> b.eval

KidOf(b, id) == IF Carries(b.credentials, id) THEN Find(b.credentials, id).subject ELSE None

\* The kid the object itself says it is signed with, for the kinds that say so.
DeclaredSigners(b, entry) ==
    CASE entry.kind \in {"credential", "status"} -> {entry.a.issuer}
      [] entry.kind = "anchor" -> {entry.a.target.kid}
      [] entry.kind = "delegation" -> {KidOf(b, entry.a.issuer)}
      [] entry.kind = "presentation" ->
            IF entry.a.mode = "approver_originated" THEN {KidOf(b, entry.a.presenter)}
            ELSE IF entry.a.mode = "ep_authenticated_session" THEN {entry.enclosing} ELSE {}
      [] entry.kind \in {"epoch_event", "epoch_manifest", "merkle_batch"} -> {entry.a.owner}
      [] OTHER -> {}

\* The first carried credential of a kid is the one that counts.
CredentialOf(b, kid) == b.credentials[Min({i \in DOMAIN b.credentials : b.credentials[i].subject = kid})]

ValidAt(c, at) ==
    Require(at >= c.from, "credential/not-yet-valid") ?? Require(at < c.until, "credential/expired")

VerifyEnvelope(b, entry) ==
    Require(\E c \in Elements(b.credentials) : c.subject = entry.a.by, "key/not-found")
    ?? LET c == CredentialOf(b, entry.a.by)
       IN Require(c.key = c.subject, "credential/kid-key-mismatch")
          ?? Require(c.curve = "p256", "key/not-p256")
          ?? Require(/\ c.usage = UsageFor(entry)
                     /\ entry.kind = "mediator_countersignature" => c.role = "outcome_observer",
                     IF entry.kind = "receipt" THEN "receipt/signer-role-mismatch"
                     ELSE "credential/usage-mismatch")
          ?? Require(/\ \A kid \in DeclaredSigners(b, entry) : entry.a.by = kid
                     /\ entry.kind = "credential" /\ entry.a.path = <<>> => entry.a.by = entry.a.subject
                     /\ entry.kind = "merkle_batch" => entry.a.signer = entry.a.owner,
                     "credential/usage-mismatch")
          ?? Require(c.tenant = b.selector.tenant /\ c.site = b.selector.site,
                     "credential/usage-mismatch")
          ?? ValidAt(c, SigningTime(b, entry))
          ?? Require(entry.kind = "receipt" => entry.a.coordinates, "cose/receipt-coordinate-mismatch")
          ?? Require(entry.a.sig, "sig/verify-failed")

\* envelopeKid(): the header of an envelope can be read as far as its kid.
KidReadable(a) ==
    \A flaw \in a.flaws : flaw[1] \notin {"entry", "cose", "kid", "protected"} \/ flaw = <<"protected", "label">>

MediatorKids(b) == {a.by : a \in {a \in Elements(b.countersignatures) : KidReadable(a)}}

\* The subject of a credential can be read in its payload, whatever else is wrong with it.
SubjectReadable(a) == ~Unreadable(a) /\ \A flaw \in a.flaws : flaw[1] # "subject_kid"

CredentialCodes ==
    {"credential/kid-key-mismatch", "credential/usage-mismatch", "credential/not-yet-valid",
     "credential/expired", "key/not-found", "key/not-p256"}

\* A defect of a countersignature, or of the credential that it names, is reported as such.
Classified(b, entry, code) ==
    IF code = OK THEN OK
    ELSE IF entry.kind = "mediator_countersignature"
    THEN IF code \in CredentialCodes THEN "countersign/credential-invalid" ELSE "countersign/invalid"
    ELSE IF /\ entry.kind = "credential" /\ SubjectReadable(entry.a)
            /\ entry.a.subject \in MediatorKids(b)
    THEN "countersign/credential-invalid"
    ELSE code

Envelopes(b) ==
    ForEachEntry(b, LAMBDA entry : Classified(b, entry, Parse(entry.kind, entry.a) ?? VerifyEnvelope(b, entry)))

-----------------------------------------------------------------------------
\* Step 8

\* Mutant: the embedded delegations and presentations are not counted.
UsesTopLevel(b, verifier, kid) ==
    {SigningTime(b, e) : e \in {e \in Entries(b) :
        e.a.by = kid /\ e.kind \notin {"delegation", "presentation"}}}
    \cup (IF verifier = kid THEN {b.eval} ELSE {})

\* signerUses(): when each key was used; the verifier uses its own now (None for a
\* retained bundle, over which no verdict is signed).
Uses(b, verifier, kid) ==
    {SigningTime(b, e) : e \in {e \in Entries(b) : e.a.by = kid}}
    \cup (IF verifier = kid THEN {b.eval} ELSE {})

UsedKids(b) == {e.a.by : e \in Entries(b)}

OneRole(b) ==
    LET roles(kid) == {c.role : c \in {c \in Elements(b.credentials) : c.subject = kid}}
                          \cap {"agent", "enforcement_point", "authority_source"}
    IN Require(\A c \in Elements(b.credentials) : Cardinality(roles(c.subject)) <= 1,
               "credential/role-key-reuse")

CodeFor(b, c, code) ==
    IF c.subject \in MediatorKids(b) THEN "countersign/credential-invalid" ELSE code

\* The path names the issuers up to a root, each once.
PathValid(b, c) ==
    LET links == <<c.id>> \o c.path
    IN /\ c.path # <<>> => \A root \in Elements(b.roots) : root.kid # c.subject
       /\ \A i, j \in DOMAIN links : links[i] = links[j] => i = j
       /\ \A i \in DOMAIN c.path :
             /\ Carries(b.credentials, links[i + 1])
             /\ Find(b.credentials, links[i + 1]).subject = Find(b.credentials, links[i]).issuer

Paths(b) ==
    ForEach(b.credentials, LAMBDA c : Require(PathValid(b, c), CodeFor(b, c, "credential/path-invalid")))

\* A root accepts a credential of its tenant and sites, and if it was used also its usage.
Accepts(roots, kid, c, used) ==
    LET named == SelectSeq(roots, LAMBDA root : root.kid = kid)
    IN /\ named # <<>>
       /\ named[1].tenant = c.tenant /\ c.site \in named[1].sites
       /\ used => c.usage \in named[1].usages

Terminal(b, c) == IF c.path = <<>> THEN c ELSE Find(b.credentials, Last(c.path))

\* acceptRoots(): separation from the verifier's own keys, then the producer's trust
\* store, then the relying party's policy (configuration is None without one).
AcceptRoots(b, configuration) ==
    ForEach(b.credentials, LAMBDA c :
        LET root == Terminal(b, c).subject
            used == c.subject \in UsedKids(b)
        IN Require(configuration # None => c.subject \notin configuration.kids,
                   CodeFor(b, c, "credential/root-not-accepted"))
           ?? Require(Accepts(b.roots, root, c, used), CodeFor(b, c, "credential/root-not-accepted"))
           ?? Require(configuration # None => Accepts(configuration.roots, root, c, used),
                      CodeFor(b, c, "credential/root-not-accepted")))

RotationBinds(b, r) ==
    /\ Carries(b.credentials, r.predecessor) /\ Carries(b.credentials, r.successor)
    /\ LET p == Find(b.credentials, r.predecessor)
           s == Find(b.credentials, r.successor)
       IN /\ p.subject = r.predecessorKid /\ s.subject = r.successorKid
          /\ r.by = p.issuer
          /\ \A c \in {p, s} : c.tenant = r.tenant /\ c.site = r.site

\* Later rotations of a site have later sequences, and no two share either.
RotationsOrdered(b) ==
    \A i, j \in DOMAIN b.rotations :
        LET r == b.rotations[i]
            s == b.rotations[j]
        IN i # j /\ r.tenant = s.tenant /\ r.site = s.site =>
               \/ r.effective < s.effective /\ r.sequence < s.sequence
               \/ s.effective < r.effective /\ s.sequence < r.sequence

Rotations(b) ==
    ForEach(b.rotations, LAMBDA r : Require(RotationBinds(b, r), "credential/rotation-invalid"))
    ?? Require(RotationsOrdered(b), "credential/rotation-rollback")

Instants == {"revoked", "compromised"}

\* The key was used at or after the instant from which it is not to be trusted; a
\* subject that is not carried counts as used now.
InstantPassed(b, verifier, s) ==
    /\ s.status \in Instants
    /\ \E use \in IF Carries(b.credentials, s.credential)
                  THEN Uses(b, verifier, KidOf(b, s.credential)) ELSE {b.eval} :
          use >= s.instant

Status(b, verifier, s) ==
    LET low == s.profile \in {"AAR-1", "AAR-2"}
    IN Require(s.leaseUntil - s.leaseFrom <= IF low THEN Day ELSE Hour, "credential/lease-too-long")
       ?? Require(/\ b.eval - s.at <= IF low THEN Day ELSE Minutes
                  /\ b.eval < s.next,
                  "credential/status-stale")
       ?? Require(~InstantPassed(b, verifier, s),
                  IF s.status = "revoked" THEN "credential/revoked" ELSE "credential/compromised")
       ?? Require(s.status # "unknown", "credential/status-unknown")
       ?? Require(b.eval >= s.leaseFrom, "credential/not-yet-valid")
       ?? Require(b.eval < s.leaseUntil, "credential/lease-expired")

\* Every status has its credential, and every decision the statuses it names.
StatusesCarried(b) ==
    /\ \A s \in Elements(b.statuses) : Carries(b.credentials, s.credential)
    /\ \A r \in Elements(b.receipts) : r.kind = "authorization" =>
          \A id \in r.body.decision.statuses : Carries(b.statuses, id)

Lifecycle(b, configuration, verifier) ==
    OneRole(b) ?? Paths(b) ?? AcceptRoots(b, configuration) ?? Rotations(b)
    ?? ForEach(b.statuses, LAMBDA s : Status(b, verifier, s))
    ?? Require(StatusesCarried(b), "credential/status-missing")
=============================================================================

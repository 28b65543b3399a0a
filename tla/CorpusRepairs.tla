------------------------------ MODULE CorpusRepairs ------------------------------
(***************************************************************************)
(* The repair fixtures of the harness up to D-81, one for each behaviour   *)
(* that a decision of the specification corrected: release repairs         *)
(* (D-68 to D-73), who may sign for whom (D-77), delegations (D-79),       *)
(* rotations (D-80), and the time at which a key is used (D-81).           *)
(***************************************************************************)
EXTENDS CorpusConformant

\* The caller evaluates at the time of the conformant bundle.
OnTime(given) == [given EXCEPT !.now = Base.eval]

ReleaseRepairs ==
    LET Root77(F(_)) == On(Base, "credentials", RootId, F)
        Flawed(place, defect) == Root77(LAMBDA c : Wrong(c, place, defect))
        Seen0(defect) == Malformed(Base, "receipts", "r0", "items", defect)
        Excluded(place, defect) == Malformed(Base, "receipts", "r7", place, defect)
        Commanded(parameters) ==
            On(Base, "receipts", "r7", LAMBDA r : [r EXCEPT !.body.command.parameters = parameters])
        mismatch == "receipt/action-command-mismatch"
        unnamed == "schema/enum-unknown"
    IN Table(<< <<"repair-d68-principal-role-as-type", unnamed, 6, Flawed("principal_type", "value")>>,
                <<"repair-d68-principal-type-not-text", "schema/bad-type", 6, Flawed("principal_type", "type")>>,
                <<"repair-d68-principal-type-and-short-id", unnamed, 6,
                  Root77(LAMBDA c : Wrong(Wrong(c, "principal_type", "value"), "credential_id", "size"))>>,
                <<"repair-d69-consumption-empty", "schema/out-of-range", 6, Seen0("count")>>,
                <<"repair-d69-exclusion-reason", unnamed, 6, Excluded("excluded.reason_value", "value")>>,
                <<"repair-d69-exclusion-commitment", "schema/missing-field", 6,
                  Excluded("excluded.commitment", "missing")>>,
                <<"repair-d73-command-parameters-digest-mismatch", mismatch, 10, Commanded("foreign-parameters")>>,
                <<"repair-d73-command-parameters-nontext-key", mismatch, 10, Commanded(None)>>,
                <<"repair-d73-credential-alg-unknown", unnamed, 6, Flawed("algorithm", "value")>>,
                <<"repair-d73-credential-alg-not-int", "schema/bad-type", 6, Flawed("algorithm", "type")>>,
                <<"repair-d73-manifest-without-events", "epoch/open-close", 14, [Base EXCEPT !.events = <<>>]>>,
                <<"repair-d69-anchor-basis-no-anchor", unnamed, 6,
                  RebuildManifest(Base, LAMBDA m : Wrong(m, "basis", "value"), FALSE)>>,
                <<"repair-d69-independence-duplicate-operator", "anchor/independence-invalid", 17,
                  RebuildManifest(Base, LAMBDA m :
                      [m EXCEPT !.groups = Append(@, [@[1] EXCEPT !.id = "log-2", !.domain = "log-2-domain"])],
                      TRUE)>> >>)
       \o << OnTime(Fixture("repair-d70-evaluation-time", "schema/out-of-range", 5,
                            [Base EXCEPT !.eval = @ + 1])),
             Fixture("repair-d70-trust-created-after-evaluation", "schema/out-of-range", 5,
                     [Base EXCEPT !.storeCreated = Base.eval + 1]) >>

-----------------------------------------------------------------------------
\* D-77: an object is signed by the key it names, and a credential leads to a root.

\* A second key with this usage signs the object, which names the first.
SignedByOther(usage, field, id) ==
    Put(IssuedByRoot(Base, Outsider, Outsider, usage), field, id, "by", Outsider)

Presenting(usage, F(_)) ==
    D77Authorization(IssuedByRoot(Base, Outsider, Outsider, usage),
                     LAMBDA body : [body EXCEPT !.presentation = F(@)])

IssuerForged ==
    LET outsider == D77Credential(Base, CredentialId(Outsider), Outsider, "credential_issuing",
                                  "credential_issuing", <<RootId>>, Outsider)
    IN D77Credential(outsider, CredentialId("d77_leaf"), "d77_leaf", "agent_signing", Outsider,
                     <<CredentialId(Outsider), RootId>>, Outsider)

ExpiredFirst ==
    [Base EXCEPT !.credentials = <<[Find(@, RootId) EXCEPT !.id = CredentialId("expired"),
                                                           !.until = Base.eval - 2]>> \o @]

RootReissued ==
    D77Credential(IssuedByRoot(Base, Outsider, Outsider, "credential_issuing"), CredentialId("reissued"),
                  "credential_issuing", "credential_issuing", Outsider,
                  <<CredentialId(Outsider), RootId>>, Outsider)

D77Repairs ==
    LET mismatch == "credential/usage-mismatch"
        Until(key, at) == Put(Base, "credentials", CredentialId(key), "until", at)
        SelfNamed(issuer, signer) ==
            D77Credential(Base, CredentialId(Outsider), Outsider, "credential_issuing", issuer, <<>>, signer)
    IN Table(<<
        <<"credential-issuer-forged", mismatch, 6, IssuerForged>>,
        <<"root-not-self-signed", mismatch, 6, SelfNamed(Outsider, "credential_issuing")>>,
        <<"status-issuer-mismatch", mismatch, 6, SignedByOther("status_signing", "statuses", "status-good")>>,
        <<"anchor-signer-mismatch", mismatch, 6, SignedByOther("anchor_signing", "anchors", "anchor")>>,
        <<"root-subject-clause", mismatch, 6, SelfNamed("credential_issuing", "credential_issuing")>>,
        <<"delegation-issuer-forged", mismatch, 6,
          SignedByOther("authority_signing", "delegations", "delegation-view")>>,
        <<"embedded-delegation-issuer-forged", mismatch, 6,
          D77Authorization([IssuedByRoot(Base, Outsider, Outsider, "authority_signing")
                               EXCEPT !.delegations = <<>>],
                           LAMBDA body : [body EXCEPT !.delegation.by = Outsider])>>,
        <<"presentation-signer-forged", mismatch, 6,
          Presenting("approver_signing", LAMBDA p : [p EXCEPT !.by = Outsider])>>,
        <<"presentation-ep-session-signer-mismatch", mismatch, 6,
          Presenting("ep_signing", LAMBDA p : InSession(p, Outsider))>>,
        <<"presentation-signer-mode-unknown", "schema/enum-unknown", 6,
          Presenting("ep_signing", LAMBDA p : Wrong([p EXCEPT !.by = Outsider], "mode", "value"))>>,
        <<"presentation-state-unknown", "schema/enum-unknown", 6,
          D77Authorization(Base, LAMBDA body : [body EXCEPT !.presentation = Wrong(@, "state", "value")])>>,
        <<"presenter-approver-mismatch", "receipt/decision-presentation", 10,
          D77Authorization(IssuedByRoot(Base, Outsider, Outsider, "approver_signing"),
                           LAMBDA body : [body EXCEPT !.decision.approver = CredentialId(Outsider)])>>,
        <<"duplicate-subject-find-first", "credential/expired", 6, ExpiredFirst>>,
        <<"root-key-reissued", "credential/path-invalid", 8, RootReissued>>,
        <<"credential-path-null", "schema/bad-type", 6, Malformed(Base, "credentials", RootId, "path", "type")>>,
        <<"countersigned-subject-issuer-forged", "countersign/credential-invalid", 6,
          Put(IssuedByRoot(Countersigned42, Outsider, Outsider, "credential_issuing"), "credentials",
              CredentialId("mediator_outcome_signing"), "by", Outsider)>>,
        <<"root-usage-not-allowed", "credential/root-not-accepted", 8, D77OmitUsage(Base, "ep_signing")>>,
        <<"embedded-delegation-usage", "credential/root-not-accepted", 8,
          D77OmitUsage([Base EXCEPT !.delegations = <<>>], "authority_signing")>>,
        <<"duplicate-root-kid", "schema/duplicate-entry", 5, [Base EXCEPT !.roots = Append(@, @[1])]>>,
        <<"receipt-signer-valid-until-boundary", "credential/expired", 6, Until("outcome_signing", 109)>>,
        <<"nonreceipt-signer-valid-until-boundary", "credential/expired", 6, Until("anchor_signing", 181)>>,
        <<"order-tenant-before-validity", mismatch, 6,
          On(Base, "credentials", CredentialId("status_signing"), LAMBDA c :
             [c EXCEPT !.site = "foreign-site", !.until = Base.eval - 1])>>,
        <<"order-key-before-coordinates", "key/not-found", 6,
          On(Base, "receipts", "r0", LAMBDA r : [r EXCEPT !.by = Outsider, !.coordinates = FALSE])>> >>)

-----------------------------------------------------------------------------
\* D-79 to D-81

\* Two rotations share a sequence number, and the one between them binds nothing.
BindingBeforeRollback ==
    LET bad == [RotationAgent EXCEPT !.id = "rotation-bad", !.predecessorKid = "unknown-kid"]
        late == [RotationAgent EXCEPT !.id = "rotation-late", !.effective = @ + 1]
    IN [Base EXCEPT !.rotations = <<RotationAgent, bad, late>>]

D79To81Repairs ==
    LET Delegated(F(_)) == MutateEmbeddedDelegation(Base, F)
        Snapshot(F(_)) == AddStatusSnapshot(Base, F)
        WrongStatus(place, defect) == Snapshot(LAMBDA s : Wrong(s, place, defect))
        Rotated(member, value) == Put(Base, "rotations", "rotation-agent", member, value)
        scope == "delegation/scope"
        agent == CredentialId("agent_signing")
        typed == "schema/bad-type"
        unnamed == "schema/enum-unknown"
        missing == "schema/missing-field"
    IN Table(<<
        <<"d79-delegation-subject-mismatch", scope, 13, Delegated(LAMBDA d : [d EXCEPT !.subject = agent])>>,
        <<"d79-delegation-subject-unresolved", scope, 13,
          Delegated(LAMBDA d : [d EXCEPT !.subject = CredentialId("unknown")])>>,
        <<"d79-delegation-subject-before-expiry", scope, 13,
          Delegated(LAMBDA d : [d EXCEPT !.subject = agent, !.until = 1])>>,
        <<"d79-delegation-scope-before-window", scope, 13,
          Delegated(LAMBDA d : [d EXCEPT !.scope.actions = {"camera.ptz.preset"}, !.until = 1])>>,
        <<"d79-delegation-one-time-no-invocation", scope, 13,
          Delegated(LAMBDA d : [d EXCEPT !.use = "one_time", !.invocation = None])>>,
        <<"d79-delegation-invocation-mismatch-reusable", scope, 13,
          Delegated(LAMBDA d : [d EXCEPT !.invocation = "other-invocation"])>>,
        <<"d80-rotation-signer-not-predecessor-issuer", "credential/rotation-invalid", 8,
          Put(IssuedByRoot(Base, "d77_leaf", "d77_leaf", "credential_issuing"), "rotations",
              "rotation-agent", "by", "d77_leaf")>>,
        <<"d80-rotation-site-mismatch", "credential/rotation-invalid", 8, Rotated("site", "foreign-site")>>,
        <<"d80-rotation-binding-before-rollback", "credential/rotation-invalid", 8, BindingBeforeRollback>>,
        <<"d80-root-rotation-successor-not-in-store", "credential/root-not-accepted", 8,
          D80RootRotation(Base, FALSE)>>,
        <<"d81-status-revoked-missing-revoked-at", missing, 6,
          Snapshot(LAMBDA s : Wrong([s EXCEPT !.status = "revoked"], "instant", "missing"))>>,
        <<"d81-status-revoked-at-bad-type", typed, 6,
          Snapshot(LAMBDA s : Wrong([s EXCEPT !.status = "revoked"], "instant", "type"))>>,
        <<"d81-status-enum-unknown", unnamed, 6, WrongStatus("status", "value")>>,
        <<"d81-status-revoked-unresolved-credential", "credential/revoked", 8,
          Snapshot(LAMBDA s : [s EXCEPT !.status = "revoked", !.instant = s.at,
                                        !.credential = CredentialId("unknown")])>>,
        <<"d81-status-good-unresolved-credential", "credential/status-missing", 8,
          Snapshot(LAMBDA s : [s EXCEPT !.credential = CredentialId("unknown")])>>,
        <<"d81-status-verifier-revoked", "credential/revoked", 8,
          Snapshot(LAMBDA s : [s EXCEPT !.status = "revoked", !.instant = Base.eval,
                                        !.credential = CredentialId("verifier_signing")])>>,
        <<"d81-status-profile-enum-unknown", unnamed, 6,
          Snapshot(LAMBDA s : Wrong([s EXCEPT !.leaseUntil = s.leaseFrom + 5000], "profile", "value"))>>,
        <<"d81-status-stale-next-update-boundary", "credential/status-stale", 8,
          Snapshot(LAMBDA s : [s EXCEPT !.next = Base.eval])>>,
        <<"d81-status-stale-before-revoked", "credential/status-stale", 8,
          Snapshot(LAMBDA s : RevokedBeforeUse(Base, [s EXCEPT !.next = Base.eval]))>>,
        <<"d81-status-next-update-bad-type", typed, 6, WrongStatus("next", "type")>>,
        <<"d81-status-bad-type", typed, 6, WrongStatus("status", "type")>>,
        <<"d80-rotation-effective-at-bad-type", typed, 6,
          AddRotation(Base, LAMBDA r : Wrong(r, "effective", "type"))>>,
        <<"d81-anchor-accepted-at-missing", missing, 6, Malformed(Base, "anchors", "anchor", "accepted", "missing")>>,
        <<"d81-request-issued-at-missing", missing, 6,
          DivergeRequest(Base, LAMBDA q : Wrong(q, "freshness.issued", "missing"))>>,
        <<"d81-status-revoked-before-use", "credential/revoked", 8,
          On(Base, "statuses", "status-good", LAMBDA s : RevokedBeforeUse(Base, s))>>,
        <<"d81-status-compromised-before-use", "credential/compromised", 8,
          On(Base, "statuses", "status-good", LAMBDA s : CompromisedBeforeUse(Base, s))>>,
        <<"d81-anchor-credential-not-yet-valid-at-use", "credential/not-yet-valid", 6,
          Put(Base, "credentials", CredentialId("anchor_signing"), "from", 182)>> >>)
=============================================================================

------------------------------ MODULE CorpusPolicies ------------------------------
(***************************************************************************)
(* The rows of the harness in which a relying party verifies under its own *)
(* policy: the roots it accepts, for which sites and usages, and the key   *)
(* of its own that it signs verdicts with.                                 *)
(***************************************************************************)
EXTENDS CorpusConformant

AllUsages == TrustRoot.usages
OtherSite == "second-site"

\* rpChain(): the leaf that signs under the relying party's own root.
VerifierRoot == "rp_credential_issuing"
VerifierLeaf == "rp_verifier_signing"

Producer(usages, sites) ==
    [kid |-> "credential_issuing", tenant |-> Tenant, sites |-> sites, usages |-> usages]
OutsideRoot(usages) == [Producer(usages, {Site}) EXCEPT !.kid = Outsider]

\* rpPolicy()
Policy(roots) == [kid |-> VerifierLeaf, kids |-> {VerifierRoot, VerifierLeaf}, roots |-> roots]

Omit(usage) == <<Producer(AllUsages \ {usage}, {Site})>>

\* row()
ByPolicy(given, roots) == [given EXCEPT !.configuration = Policy(roots)]

PolicyRow(name, code, at, bundle, roots) == ByPolicy(Fixture(name, code, at, bundle), roots)
PolicyOk(name, bundle, roots) == ByPolicy(Conformant(name, bundle), roots)

ProducerOnly == <<Producer(AllUsages, {Site})>>

AddRootRecord(b, kid) == [b EXCEPT !.roots = Append(@, [@[1] EXCEPT !.kid = kid])]

\* A snapshot that revokes from when it was produced; its subject is the stapled one's.
AddRevocation(b, F(_)) ==
    AddStatusSnapshot(b, LAMBDA s : F([s EXCEPT !.status = "revoked", !.instant = s.at]))

\* The mediator's credential comes from a second producer root, and is listed before it.
Mediator == "mediator_outcome_signing"

Countersigning(b, mediator) ==
    Add(b, "countersignatures",
        Signed("countersignature", mediator, b.created)
        @@ [attempt |-> <<"envelope", "r6">>, command |-> "command-digest"])

TwoRootMediator(mediatorFirst) ==
    LET root == D77Credential(AddRootRecord(Base, Outsider), CredentialId(Outsider), Outsider,
                              "credential_issuing", Outsider, <<>>, Outsider)
        both == D77Credential(root, CredentialId(Mediator), Mediator, "outcome_signing", Outsider,
                              <<CredentialId(Outsider)>>, Outsider)
        c == both.credentials
        n == Len(c)
    IN Countersigning(IF mediatorFirst
                      THEN [both EXCEPT !.credentials = SubSeq(c, 1, n - 2) \o <<c[n], c[n - 1]>>] ELSE both,
                      Mediator)

Refused == "credential/root-not-accepted"

AcceptanceRows ==
    LET session == D77PositiveFixtures[2].bundle
        Usage(name, usage) == PolicyRow("rp-usage-" \o name, Refused, 8, Base, Omit(usage))
    IN << PolicyOk("rp-positive-strict-subset", AddRootRecord(Base, Outsider), ProducerOnly),
          PolicyOk("rp-positive-no-verifier-credential",
                   Without(Base, "credentials", CredentialId("verifier_signing")), ProducerOnly),
          PolicyOk("rp-transition-verifier-revoked",
                   AddRevocation(Base, LAMBDA s :
                       [s EXCEPT !.credential = CredentialId("verifier_signing"), !.instant = Base.eval]),
                   ProducerOnly),
          PolicyRow("rp-dangling-snapshot-policy-credential", "credential/revoked", 8,
                    AddRevocation(Base, LAMBDA s : [s EXCEPT !.credential = CredentialId(VerifierLeaf)]),
                    ProducerOnly),
          PolicyRow("rp-root-not-accepted", Refused, 8, Base, <<OutsideRoot(AllUsages)>>),
          PolicyRow("rp-mediator-root-not-accepted", "countersign/credential-invalid", 8,
                    TwoRootMediator(TRUE), ProducerOnly),
          PolicyRow("rp-usage-mediator", "countersign/credential-invalid", 8, TwoRootMediator(FALSE),
                    <<Producer(AllUsages, {Site}), OutsideRoot({"credential_issuing"})>>),
          PolicyRow("rp-usage-embedded-delegation-signer", Refused, 8, [Base EXCEPT !.delegations = <<>>],
                    Omit("authority_signing")),
          PolicyRow("rp-usage-presentation-signer", Refused, 8, session, Omit("ep_signing")),
          PolicyOk("rp-flip-site-listed", Base, <<Producer(AllUsages, {Site, OtherSite})>>),
          PolicyRow("rp-flip-site-removed", Refused, 8, Base, <<Producer(AllUsages, {OtherSite})>>),
          Usage("ep", "ep_signing"), Usage("agent", "agent_signing"), Usage("authority", "authority_signing"),
          Usage("approver", "approver_signing"), Usage("outcome-observer", "outcome_signing"),
          Usage("anchor", "anchor_signing"), Usage("status-issuer", "status_signing"),
          Usage("rotation-issuer", "credential_issuing") >>

\* The relying party's own keys are no producer's.
SeparationRows ==
    LET leaf(usage) == IssuedByRoot(Base, VerifierLeaf, VerifierLeaf, usage)
        astray == D77Credential(Base, CredentialId(VerifierLeaf), VerifierLeaf, "agent_signing",
                                "credential_issuing", <<CredentialId("missing-issuer")>>, "credential_issuing")
        asProducer == AddRootRecord(Base, VerifierRoot)
        Row(name, code, at, bundle) == PolicyRow(name, code, at, bundle, ProducerOnly)
    IN << Row("rp-separation-producer-root-verifier-kid", Refused, 5, asProducer),
          Row("rp-separation-carried-credential-verifier-kid", Refused, 8, leaf("agent_signing")),
          Row("rp-separation-mediator-verifier-kid", "countersign/credential-invalid", 8,
              Countersigning(leaf("outcome_signing"), VerifierLeaf)),
          Row("rp-order-separation-before-step5-digest", "hash/mismatch", 5,
              Wrong(asProducer, "store.digest", "digest")),
          Row("rp-order-separation-before-step8-path", "credential/path-invalid", 8, astray) >>

\* A refusal of the policy beside another defect: the order of the steps decides.
CeilingRows ==
    LET Row(name, code, at, bundle) == PolicyRow(name, code, at, bundle, Omit("ep_signing"))
    IN << Row("rp-order-ceiling-before-bad-signature", "sig/verify-failed", 6,
              FlipSignature(Base, "credentials", RootId)),
          Row("rp-order-ceiling-before-invalid-path", "credential/path-invalid", 8,
              Put(Base, "credentials", CredentialId("anchor_signing"), "path", <<CredentialId("missing-issuer")>>)),
          Row("rp-order-ceiling-before-role-key-reuse", "credential/role-key-reuse", 8,
              IssuedByRoot(Base, "agent_signing_successor-ep", "agent_signing_successor", "ep_signing")),
          Row("rp-order-ceiling-before-revoked-snapshot", Refused, 8, AddRevocation(Base, LAMBDA s : s)) >>

\* Defects that are found before the policy is looked at, and a receipt that no root explains.
EarlyRows ==
    LET Row(name, code, at, bundle) == PolicyRow(name, code, at, bundle, ProducerOnly)
        alone == KeepReceipts(ClearJournal(Base), LAMBDA r : r.id = "r0")
        rootless == On(alone, "receipts", "r0", LAMBDA r : [r EXCEPT !.use = "one_time", !.root = None])
    IN << Row("rp-early-step1-alone", "resource/bundle-too-large", 1, Wrong(Base, "bytes", "size")),
          Row("rp-early-step2-alone", "cbor/malformed", 2, Wrong(Base, "bytes", "malformed")),
          Row("rp-early-step3-alone", "schema/missing-field", 3, Wrong(Base, "bundle", "missing")),
          Row("rp-history-independence-replay", "graph/root-missing", 12, rootless) >>

PolicyFixtures == AcceptanceRows \o SeparationRows \o CeilingRows \o EarlyRows
=============================================================================

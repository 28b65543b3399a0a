-------------------------------- MODULE Fixtures --------------------------------
(***************************************************************************)
(* The conformant bundle of the harness, buildFixtures(): ten receipts of  *)
(* one closed and anchored epoch, from what an agent saw to the outcome of *)
(* the command that was dispatched.  Times are seconds since BASE_TIME,    *)
(* kids are the names of test keys, content ids are names.                 *)
(***************************************************************************)
EXTENDS RangeSteps, ReceiptSteps, GraphSteps

Tenant == "tenant"
Site == "site"
Epoch == 42
Camera == "camera-17"
View == "camera.stream.view"
Correlation == "correlation"

CredentialId(key) == <<"credential", key>>

\* CREDENTIAL_SPECS: the key and the role of its principal.
CredentialSpecs ==
    << <<"credential_issuing", "authority_source">>, <<"agent_signing", "agent">>,
       <<"agent_signing_successor", "agent">>, <<"ep_signing", "enforcement_point">>,
       <<"authority_signing", "authority_source">>, <<"approver_signing", "approver">>,
       <<"outcome_signing", "outcome_observer">>, <<"anchor_signing", "anchor_service">>,
       <<"verifier_signing", "verifier">>, <<"status_signing", "authority_source">> >>

\* What every signed object has: an id, who signs it and when.
Signed(id, by, at) == [id |-> id, by |-> by, at |-> at, sig |-> TRUE, flaws |-> {}, broken |-> {}]

Bound == [tenant |-> Tenant, site |-> Site]

Credential(spec) ==
    Signed(CredentialId(spec[1]), "credential_issuing", 0) @@ Bound @@
    [subject |-> spec[1], key |-> spec[1], curve |-> "p256", issuer |-> "credential_issuing",
     role |-> spec[2],
     usage |-> IF spec[1] = "agent_signing_successor" THEN "agent_signing" ELSE spec[1],
     from |-> -Day, until |-> 30 * Day,
     path |-> IF spec[1] = "credential_issuing" THEN <<>> ELSE <<CredentialId("credential_issuing")>>]

StatusGood ==
    Signed("status-good", "status_signing", -30) @@ Bound @@
    [credential |-> CredentialId("ep_signing"), issuer |-> "status_signing",
     next |-> Minutes - 30, leaseFrom |-> -30, leaseUntil |-> Hour - 30, profile |-> "AAR-2A",
     status |-> "good", instant |-> None]

RotationAgent ==
    Signed("rotation-agent", "credential_issuing", 0) @@ Bound @@
    [predecessor |-> CredentialId("agent_signing"), predecessorKid |-> "agent_signing",
     successor |-> CredentialId("agent_signing_successor"), successorKid |-> "agent_signing_successor",
     effective |-> 2 * Hour, sequence |-> 1]

RequestView ==
    Signed("request-view", "agent_signing", 0) @@ Bound @@
    [digest |-> "request-view-commitment", target |-> "ep_signing", peer |-> "ep_signing"]

DelegationView ==
    Signed("delegation-view", "authority_signing", 0) @@ Bound @@
    [issuer |-> CredentialId("authority_signing"), subject |-> CredentialId("ep_signing"),
     scope |-> [actions |-> {View}, targets |-> {Camera}, purposes |-> {"incident-response"},
                profiles |-> {"AAR-2A"}],
     from |-> -60, until |-> Hour, use |-> "reusable", invocation |-> "invocation", parents |-> <<>>]

PresentationApproved ==
    Signed("presentation", "approver_signing", 20) @@
    [mode |-> "approver_originated", presenter |-> CredentialId("approver_signing"),
     artifacts |-> <<[ordinal |-> 0]>>]

-----------------------------------------------------------------------------
\* Receipts

Edge(parent, kind, type) ==
    [type |-> type, parent |-> parent, kind |-> kind, tenant |-> Tenant, site |-> Site,
     epoch |-> Epoch, cross |-> None]

Root(kind, request, commitment) == [kind |-> kind, request |-> request, commitment |-> commitment]

\* evidence()
OutcomeOf(kind) ==
    CASE kind = "action_attempt" -> [level |-> "accepted", predicate |-> None]
      [] kind = "dispatch" -> [level |-> "dispatched", predicate |-> None]
      [] kind = "outcome_observation" -> [level |-> "device_acknowledged", predicate |-> None]
      [] OTHER -> None

SignerRole == [agent_signing |-> "agent", ep_signing |-> "enforcement_point",
               outcome_signing |-> "outcome_observer"]

\* makeReceipt()
Receipt(n, id, kind, signer, parents, root, body) ==
    Signed(id, signer, 100 + n) @@ Bound @@
    [kind |-> kind, role |-> SignerRole[signer], owner |-> "ep_signing", epoch |-> Epoch, eseq |-> n,
     iseq |-> 100 + n, late |-> None, parents |-> parents, root |-> root,
     issued |-> 0, expires |-> Hour, use |-> "reusable", domain |-> "replay-domain",
     invocation |-> "invocation", intended |-> Mapped(parents, LAMBDA e : e.parent),
     flow |-> Correlation, purpose |-> "incident-response",
     time |-> [class |-> "asserted", boot |-> None, anchor |-> None],
     provenance |-> IF kind = "inference"
                    THEN [class |-> "self_asserted", capture |-> None, provider |-> None] ELSE None,
     outcome |-> OutcomeOf(kind), digest |-> <<"envelope", id>>, coordinates |-> TRUE,
     body |-> [shape |-> kind] @@ body]

Payload(id) == [id |-> id, media |-> "application/cbor", length |-> 1, broken |-> {}]

Payloads == <<Payload("prompt"), Payload("retrieval"), Payload("tools")>>

Seen == [items |-> <<[ordinal |-> 0, disposition |-> "used", origin |-> None, transforms |-> <<>>]>>,
         consumption |-> "consumption", domain |-> "camera-domain"]

Inferred(consumption) ==
    [consumption |-> consumption, origins |-> None,
     manifests |-> Mapped(Payloads, LAMBDA p : [id |-> p.id, media |-> p.media, length |-> p.length])]

Decision(decision, approver) ==
    [decision |-> decision, delegation |-> "delegation-view", profile |-> "AAR-2A",
     approver |-> approver, statuses |-> {"status-good"}]

Attempting(disposition, refusal) ==
    [action |-> [name |-> View, target |-> Camera, parameters |-> "parameters", hazard |-> None],
     command |-> [id |-> "command", digest |-> "command-digest", name |-> View, target |-> Camera,
                  operation |-> View, operand |-> Camera, parameters |-> "parameters"],
     authorization |-> "r5", disposition |-> disposition, refusal |-> refusal, degraded |-> None]

Receipts ==
    << Receipt(0, "r0", "observation", "agent_signing", <<>>,
               Root("agent_request", "request-view", "request-view-commitment"), Seen),
       Receipt(1, "r1", "inference", "agent_signing", <<>>,
               Root("human_request", "request-human", "human-request"), Inferred("prompt")),
       Receipt(2, "r2", "authorization", "ep_signing", <<>>,
               Root("standing_condition_trigger", "request-standing", "standing-condition"),
               [delegation |-> DelegationView,
                decision |-> Decision("permit_with_approval", CredentialId("approver_signing")),
                presentation |-> PresentationApproved]),
       Receipt(3, "r3", "observation", "agent_signing", <<Edge("r0", "observation", "derived_from")>>,
               None, Seen),
       Receipt(4, "r4", "inference", "agent_signing",
               <<Edge("r3", "observation", "requested_by"), Edge("r3", "observation", "derived_from")>>,
               None, Inferred("consumption")),
       Receipt(5, "r5", "authorization", "ep_signing", <<Edge("r4", "inference", "supports")>>, None,
               [delegation |-> DelegationView, decision |-> Decision("permit", None),
                presentation |-> None]),
       Receipt(6, "r6", "action_attempt", "ep_signing",
               <<Edge("r5", "authorization", "authorized_by"), Edge("r4", "inference", "triggered_by")>>,
               None, Attempting("not_dispatched", "operator-session-ended-before-dispatch")),
       Receipt(7, "r7", "action_attempt", "ep_signing",
               <<Edge("r5", "authorization", "authorized_by")>>, None,
               Attempting("eligible_for_dispatch", None)),
       Receipt(8, "r8", "dispatch", "ep_signing", <<Edge("r7", "action_attempt", "attempted_as")>>, None,
               [attempt |-> "r7", command |-> "command", at |-> 108]),
       Receipt(9, "r9", "outcome_observation", "outcome_signing",
               <<Edge("r8", "dispatch", "observed_outcome")>>, None,
               [subject |-> "r8", domain |-> "camera-domain", state |-> "consistent"]) >>

-----------------------------------------------------------------------------
\* The epoch, its anchor, a batch

EntryFor(receipts, i) ==
    LET r == receipts[i]
    IN [leaf |-> i - 1, id |-> r.id, kind |-> r.kind, issuer |-> r.by, iseq |-> r.iseq,
        eseq |-> r.eseq, at |-> r.at, subjects |-> {Camera}, correlations |-> {Correlation}]

IndexOver(entries) == [count |-> Len(entries), root |-> IndexRoot(entries), entries |-> entries]

Index == IndexOver([i \in DOMAIN Receipts |-> EntryFor(Receipts, i)] \o <<>>)

AnchorTarget == [id |-> "anchor-target", kid |-> "anchor_signing", operator |-> "log-operator",
                 group |-> "log-1"]

Manifest42 ==
    Signed("manifest-42", "ep_signing", 120) @@ Bound @@
    [owner |-> "ep_signing", epoch |-> Epoch, opened |-> 0, closed |-> 120,
     span |-> SpanOf(Index.entries), count |-> Len(Receipts), reason |-> "administrative",
     deadline |-> 120 + Day, predecessor |-> None, index |-> Index, targets |-> <<AnchorTarget>>,
     basis |-> "distinct",
     groups |-> <<[id |-> "log-1", operator |-> "log-operator", domain |-> "log-domain"]>>]

Event(seq, id, previous, at, event, body) ==
    Signed(id, "ep_signing", at) @@ Bound @@
    [owner |-> "ep_signing", epoch |-> Epoch, seq |-> seq, previous |-> previous, event |-> event,
     body |-> body]

Events ==
    << Event(0, "open", None, 0, "open", [first |-> 0]),
       Event(1, "close", "open", 120, "close",
             [last |-> Manifest42.span.last, count |-> Manifest42.count, manifest |-> Manifest42.id,
              deadline |-> Manifest42.deadline]),
       Event(2, "submitted", "close", 180, "anchor_submitted", [submitted |-> 180]) >>

ForkDeclared == Event(3, "fork", "submitted", 240, "fork_declared", [handling |-> "reject_and_surface"])

\* The log of the anchor service: this manifest and three others.
AnchorOf(m) == [tenant |-> m.tenant, site |-> m.site, epoch |-> m.epoch, manifest |-> m.id, digest |-> m.id]

RfcLeaves(m) == <<AnchorLeaf(AnchorOf(m)), Leaf(<<"synthetic", 1>>), Leaf(<<"synthetic", 2>>), Leaf(<<"synthetic", 3>>)>>

AnchorRecord(m) ==
    LET leaves == RfcLeaves(m)
        root == RfcRoot(leaves)
    IN Signed("anchor", "anchor_signing", 181) @@ AnchorOf(m) @@
       [target |-> AnchorTarget, submitted |-> 180, accepted |-> 181, size |-> 4, index |-> 0,
        root |-> root,
        inclusion |-> [size |-> 4, index |-> 0, leaf |-> leaves[1],
                       siblings |-> RfcInclusionProof(leaves, 0)],
        consistency |-> [oldSize |-> 2, newSize |-> 4, oldRoot |-> RfcRoot(SubSeq(leaves, 1, 2)),
                         newRoot |-> root, path |-> <<RfcRoot(SubSeq(leaves, 3, 4))>>],
        head |-> [size |-> 4, root |-> root]]

MerkleLeaf(i) ==
    [size |-> 3, index |-> i - 1, tenant |-> Tenant, site |-> Site, epoch |-> Epoch,
     digest |-> Receipts[i].id]

MerkleLeaves == Mapped(<<1, 2, 3>>, LAMBDA i : Leaf(MerkleLeaf(i)))

Batch ==
    Signed("batch", "ep_signing", 130) @@ Bound @@
    [owner |-> "ep_signing", signer |-> "ep_signing", epoch |-> Epoch, size |-> 3,
     root |-> PromotedRoot(MerkleLeaves)]

Membership(i) ==
    [batch |-> "batch", size |-> 3, index |-> i - 1, leaf |-> MerkleLeaf(i),
     siblings |-> PromotedProof(MerkleLeaves, i - 1)]

-----------------------------------------------------------------------------
\* The bundle

Selector ==
    Bound @@ [from |-> 0, until |-> Hour, kinds |-> DOMAIN KindRoles, subjects |-> {Camera},
              correlations |-> {Correlation}, issuers |-> None]

TrustRoot ==
    [kid |-> "credential_issuing", tenant |-> Tenant, sites |-> {Site},
     usages |-> {"agent_signing", "ep_signing", "authority_signing", "approver_signing",
                 "outcome_signing", "anchor_signing", "credential_issuing", "status_signing"}]

ValidSubset ==
    LET anchor == AnchorRecord(Manifest42)
    IN [profile |-> "AAR-2A", created |-> 200, selector |-> Selector, commitment |-> "selector",
        coverage |-> "valid_subset", eval |-> 200, roots |-> <<TrustRoot>>, storeCreated |-> -Hour,
        heads |-> <<[target |-> AnchorTarget.id, observed |-> 182, size |-> 4, root |-> anchor.root]>>,
        lifeSafety |-> {}, ranges |-> <<>>, receipts |-> Receipts, requests |-> <<RequestView>>,
        delegations |-> <<DelegationView>>,
        credentials |-> Mapped(CredentialSpecs, Credential),
        statuses |-> <<StatusGood>>, rotations |-> <<RotationAgent>>, events |-> Events,
        manifests |-> <<Manifest42>>, anchors |-> <<anchor>>, batches |-> <<Batch>>,
        proofs |-> <<Membership(2)>>, payloads |-> Payloads, countersignatures |-> <<>>,
        flaws |-> {}]
=============================================================================

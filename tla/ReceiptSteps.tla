------------------------------ MODULE ReceiptSteps ------------------------------
(***************************************************************************)
(* What the objects of a bundle say: content ids and commitments (step 7), *)
(* emission identity (step 9), the meaning of each kind of receipt and of  *)
(* mediator countersignatures (step 10), freshness and one-time use        *)
(* (step 11).                                                              *)
(*                                                                         *)
(* Digests are names: whether a digest recomputes from its content is in   *)
(* `broken`, the set of the digests of an object that do not.              *)
(***************************************************************************)
EXTENDS CredentialSteps

-----------------------------------------------------------------------------
\* Step 7

IdKinds == {"credential", "rotation", "status", "delegation", "epoch_event", "epoch_manifest",
            "anchor", "merkle_batch", "mediator_countersignature", "presentation"}

\* The hash commitments of a receipt's body, in the order they are recomputed.
Commitments ==
    [observation |-> <<"consumption">>, inference |-> <<"conclusion">>,
     authorization |-> <<"decision">>,
     action_attempt |-> <<"parameters", "command", "command_id">>,
     dispatch |-> <<>>, outcome_observation |-> <<>>]

ContentId(entry) ==
    IF entry.kind = "receipt"
    THEN Require("id" \notin entry.a.broken, "identity/receipt-id-mismatch")
         ?? ForEach(Commitments[entry.a.kind],
                    LAMBDA name : Require(name \notin entry.a.broken, "hash/mismatch"))
    ELSE IF entry.kind \in IdKinds
    THEN Require("id" \notin entry.a.broken,
                 IF entry.kind = "mediator_countersignature" THEN "countersign/digest-mismatch"
                 ELSE "identity/artifact-id-mismatch")
    ELSE OK

\* The prompt, retrieval and tool manifests of an inference are carried as payloads.
ManifestCarried(b, ref) ==
    Require(Carries(b.payloads, ref.id), "manifest/payload-missing")
    ?? LET supplied == Find(b.payloads, ref.id)
       IN Require(supplied.media = ref.media, "manifest/media-type-mismatch")
          ?? Require(supplied.length = ref.length, "hash/mismatch")

\* D-60: the request the agent signed is for the tenant, site and enforcement point
\* to which the receipt is bound.
RequestBinds(b, r) ==
    Require(Carries(b.requests, r.root.request), "bundle/dependency-missing")
    ?? LET q == Find(b.requests, r.root.request)
       IN Require(r.root.commitment = q.digest, "request/commitment-mismatch")
          ?? Require(/\ q.tenant = r.tenant /\ q.site = r.site
                     /\ q.target = r.owner /\ q.peer = q.target,
                     "request/coordinate-mismatch")

Content(b) ==
    ForEachEntry(b, ContentId)
    ?? ForEach(b.payloads, LAMBDA p : Require(p.broken = {}, "hash/mismatch"))
    ?? ForEach(b.receipts, LAMBDA r :
           IF r.kind = "inference" THEN ForEach(r.body.manifests, LAMBDA ref : ManifestCarried(b, ref))
           ELSE OK)
    ?? ForEach(b.receipts, LAMBDA r :
           IF r.root # None /\ r.root.kind = "agent_request" THEN RequestBinds(b, r) ELSE OK)

-----------------------------------------------------------------------------
\* Step 9: no coordinate carries two receipts

\* Mutant: the epoch coordinate is not compared.
EquivocatesByIssuer(r, s) == r.id # s.id /\ r.by = s.by /\ r.iseq = s.iseq

Equivocates(r, s) ==
    /\ r.id # s.id
    /\ \/ r.by = s.by /\ r.iseq = s.iseq
       \/ <<r.owner, r.epoch, r.eseq>> = <<s.owner, s.epoch, s.eseq>>

Emission(b) ==
    Require(\A r, s \in Elements(b.receipts) : ~Equivocates(r, s), "identity/coordinate-equivocation")

-----------------------------------------------------------------------------
\* Step 10

KindRoles ==
    [observation |-> {"agent", "enforcement_point", "outcome_observer"}, inference |-> {"agent"},
     authorization |-> {"enforcement_point"}, action_attempt |-> {"enforcement_point"},
     dispatch |-> {"enforcement_point"}, outcome_observation |-> {"outcome_observer"}]

KindOutcomeLevels ==
    [action_attempt |-> {"accepted"}, dispatch |-> {"dispatched"},
     outcome_observation |-> {"device_acknowledged", "independently_sensed", "contradicted", "unknown"}]

\* The evidence labels are those the kind must have, and no others.
Labels(r) ==
    Require((r.kind = "inference") <=> (r.provenance # None), "evidence/provenance-class-unsatisfied")
    ?? Require(/\ (r.kind \in DOMAIN KindOutcomeLevels) <=> (r.outcome # None)
               /\ r.outcome # None => r.outcome.level \in KindOutcomeLevels[r.kind],
               "evidence/outcome-class-unsatisfied")

InOrder(s) == \A i \in DOMAIN s : s[i].ordinal = i - 1

\* What an inference consumed is a carried payload or what an observation it derives from did.
ConsumptionResolved(b, r) ==
    \/ Carries(b.payloads, r.body.consumption)
    \/ \E e \in Elements(r.parents) :
          /\ e.type = "derived_from" /\ Carries(b.receipts, e.parent)
          /\ LET p == Find(b.receipts, e.parent)
             IN p.kind = "observation" /\ p.body.consumption = r.body.consumption

Observed(r) ==
    Require(InOrder(r.body.items) /\ \A i \in DOMAIN r.body.items : InOrder(r.body.items[i].transforms),
            "receipt/manifest-inconsistent")

Decided(r) ==
    LET approved == r.body.decision.decision = "permit_with_approval"
        presented == r.body.presentation # None
    IN Require(/\ approved <=> presented
               /\ approved <=> r.body.decision.approver # None
               /\ presented => r.body.presentation.presenter = r.body.decision.approver,
               "receipt/decision-presentation")
       ?? Require(presented => InOrder(r.body.presentation.artifacts), "receipt/manifest-inconsistent")

\* The hazard class is bound by the trust inputs, not by the producer.
Hazard(b, r) ==
    Require(r.body.action.hazard \in {None, "life_safety"}, "schema/enum-unknown")
    ?? Require(r.body.action.hazard = "life_safety" => r.body.action.name \in b.lifeSafety,
               "receipt/hazard-class-unbound")

\* The command that was sent is the action that was authorized.
CommandIsAction(r) ==
    LET action == r.body.action
        command == r.body.command
    IN /\ command.name = action.name /\ command.target = action.target
       /\ command.operation = action.name /\ command.operand = action.target
       /\ command.parameters = action.parameters

Attempted(b, r) ==
    Require((r.body.disposition = "not_dispatched") <=> (r.body.refusal # None), "receipt/attempt-disposition")
    ?? Hazard(b, r)
    ?? Require(r.body.degraded # None =>
                   /\ r.body.degraded = "journal/unavailable"
                   /\ r.body.action.hazard = "life_safety"
                   /\ r.body.disposition = "eligible_for_dispatch",
               "receipt/attempt-disposition")
    ?? Require(CommandIsAction(r), "receipt/action-command-mismatch")

\* An attempt that is not carried is left to step 12.
DispatchOfAttempt(b, r) ==
    LET edges == EdgesOfType(r, "attempted_as")
        id == EdgeOfType(r, "attempted_as").parent
    IN edges # {} /\ Carries(b.receipts, id) =>
           LET p == Find(b.receipts, id)
           IN /\ r.body.attempt = p.id
              /\ p.kind = "action_attempt" /\ r.body.command = p.body.command.id

OutcomeOfSubject(r) ==
    /\ Sole(EdgesOfType(r, "observed_outcome"))
    /\ r.body.subject = EdgeOfType(r, "observed_outcome").parent

Semantics(b) ==
    ForEach(b.receipts, LAMBDA r :
        Require(r.body.shape = r.kind, "receipt/kind-body-mismatch")
        ?? Require(r.role \in KindRoles[r.kind], "receipt/signer-role-mismatch")
        ?? Labels(r)
        ?? (CASE r.kind = "inference" ->
                     Require(ConsumptionResolved(b, r), "receipt/consumption-ref-unresolved")
              [] r.kind = "observation" -> Observed(r)
              [] r.kind = "authorization" -> Decided(r)
              [] r.kind = "action_attempt" -> Attempted(b, r)
              [] r.kind = "dispatch" ->
                     Require(DispatchOfAttempt(b, r), "receipt/dispatch-attempt-mismatch")
              [] r.kind = "outcome_observation" ->
                     Require(OutcomeOfSubject(r), "receipt/outcome-subject-mismatch")))

\* A mediator vouches for one carried attempt and for the command in it.
Countersigned(b) ==
    ForEach(b.countersignatures, LAMBDA s :
        LET attempts == {r \in Elements(b.receipts) :
                            r.kind = "action_attempt" /\ r.digest = s.attempt}
        IN Require(/\ Cardinality(attempts) = 1
                   /\ \A r \in attempts : r.body.command.digest = s.command,
                   "countersign/digest-mismatch"))

-----------------------------------------------------------------------------
\* Step 11

Coordinate(r) == <<r.domain, r.invocation>>

Fresh(r) ==
    Require(r.issued <= r.at, "replay/not-yet-valid")
    ?? Require(r.at < r.expires, "replay/expired")
    ?? Require(r.intended = Mapped(r.parents, LAMBDA e : e.parent), "replay/parent-binding")

\* One flow has one coordinate, and a one-time coordinate one receipt.
Replay(b) ==
    ForEach([i \in DOMAIN b.receipts |-> i], LAMBDA i :
        LET r == b.receipts[i]
            before == {b.receipts[j] : j \in 1 .. i - 1}
        IN Fresh(r)
           ?? Require(\A s \in before : r.flow # None /\ s.flow = r.flow => Coordinate(s) = Coordinate(r),
                      "replay/invocation-mismatch")
           ?? Require(\A s \in before :
                         s.use = "one_time" /\ r.use = "one_time" /\ Coordinate(s) = Coordinate(r)
                         => s.digest = r.digest,
                      "replay/one-time-reused"))
=============================================================================

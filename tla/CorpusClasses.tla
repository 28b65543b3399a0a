------------------------------ MODULE CorpusClasses ------------------------------
(***************************************************************************)
(* The fixtures of the harness about what a conformant verdict grants: the *)
(* classes of evidence and the boundary between each and the next, the     *)
(* outcome at the end of a flow, and evidence that is committed before the *)
(* dispatch.                                                               *)
(***************************************************************************)
EXTENDS CorpusCodes

\* A fixture whose verdict is conformant and has this value of a limit.
Granting(name, bundle, limit, value) ==
    Reporting(Conformant(name, bundle), [x \in {limit} |-> value], {}, {})

Unsatisfied(name, class, bundle) == Fixture(name, "evidence/" \o class \o "-class-unsatisfied", 19, bundle)

-----------------------------------------------------------------------------
\* Each class, declared without and with what it takes

TimeBoundaries ==
    LET booted == AddOpaquePayload(Base, "boot")
        Timed(b, F(_)) == InferenceOnly(b, LAMBDA r : [r EXCEPT !.time = F(@)])
        ByBoot(time) == [time EXCEPT !.class = "boot_bound", !.boot = "boot"]
        AfterTheAnchor(r) ==
            [r EXCEPT !.id = "r1-later", !.digest = <<"envelope", "r1-later">>,
                      !.epoch = Epoch + 1, !.at = Base.anchors[1].accepted + 1,
                      !.time = [class |-> "externally_anchored", boot |-> "boot", anchor |-> "anchor"]]
    IN << Unsatisfied("time-asserted-declared-boot-bound", "time",
                      Timed(Base, LAMBDA time : [time EXCEPT !.class = "boot_bound"])),
          Granting("time-boot-bound-satisfied", Timed(booted, ByBoot), "time", "boot_bound"),
          Unsatisfied("time-boot-bound-declared-externally-anchored", "time",
                      Timed(booted, LAMBDA time : [ByBoot(time) EXCEPT !.class = "externally_anchored"])),
          Granting("time-externally-anchored-satisfied",
                   On(KeepReceipts(booted, LAMBDA r : r.id = "r1"), "receipts", "r1", AfterTheAnchor),
                   "time", "externally_anchored") >>

ProvenanceBoundaries ==
    LET captured == AddOpaquePayload(Base, "capture")
        attested == AddOpaquePayload(captured, "provider")
        Classed(b, class, capture, provider) ==
            InferenceOnly(b, LAMBDA r : [r EXCEPT !.provenance =
                [class |-> class, capture |-> capture, provider |-> provider]])
    IN << Unsatisfied("provenance-self-asserted-declared-proxy-captured", "provenance",
                      Classed(Base, "proxy_captured", None, None)),
          Granting("provenance-proxy-captured-satisfied",
                   Classed(captured, "proxy_captured", "capture", None), "provenance", "proxy_captured"),
          Unsatisfied("provenance-proxy-captured-declared-provider-attested", "provenance",
                      Classed(captured, "provider_attested", "capture", None)),
          Granting("provenance-provider-attested-satisfied",
                   Classed(attested, "provider_attested", "capture", "provider"),
                   "provenance", "provider_attested") >>

OutcomeBoundaries ==
    LET sensed == "independently_sensed"
        Sensed(b, predicate, domain) ==
            On(ClearJournal(b), "receipts", "r9", LAMBDA r :
               [r EXCEPT !.outcome = [level |-> sensed, predicate |-> predicate], !.body.domain = domain])
    IN << Unsatisfied("outcome-device-acknowledged-declared-independently-sensed", "outcome",
                      Sensed(Base, None, "camera-domain")),
          Granting("outcome-independently-sensed-satisfied",
                   Sensed(AddOpaquePayload(Base, "qualification"), "qualification", "independent-observer"),
                   "outcome", sensed) >>

ClassBoundary == TimeBoundaries \o ProvenanceBoundaries \o OutcomeBoundaries

-----------------------------------------------------------------------------
\* An outcome that is not a level, wherever it is listed

TerminalOutcome ==
    LET source == Find(Receipts, "r9")
        unknown == [source EXCEPT !.outcome.level = "unknown"]
        contradicted == [source EXCEPT !.id = "r10", !.digest = <<"envelope", "r10">>,
                            !.eseq = @ + 1, !.iseq = @ + 1, !.at = @ + 1, !.outcome.level = "contradicted"]
        flow == SubSeq(Receipts, 1, 9)
        With(receipts) == [ClearJournal(Base) EXCEPT !.receipts = receipts]
    IN << Granting("outcome-terminal-ranked-after-unknown",
                   With(SubSeq(flow, 1, 8) \o <<unknown, flow[9]>>), "outcome", "unknown"),
          Granting("outcome-terminals-contradicted-before-unknown",
                   With(flow \o <<contradicted, unknown>>), "outcome", "contradicted"),
          Granting("outcome-terminals-unknown-before-contradicted",
                   With(flow \o <<unknown, contradicted>>), "outcome", "contradicted") >>

-----------------------------------------------------------------------------
\* The profile that wants the attempt on record before its dispatch

\* The attempt is recorded only after the dispatch it led to.
Uncommitted(r) == [r EXCEPT !.eseq = 9, !.at = 109]

\* The action is life-safety, and goes on although the journal is unavailable.
Urgent(r) == [r EXCEPT !.body.action.hazard = "life_safety", !.body.degraded = "journal/unavailable"]

EvidenceCommit ==
    LET base == [Base EXCEPT !.profile = "AAR-3"]
        ForLifeSafety(name) == [base EXCEPT !.lifeSafety = {name}]
        ThatDispatched(b, F(_)) == KeepReceipts(ClearJournal(UpdateAttemptFlow(b, F)), LAMBDA r : r.id # "r6")
        refused == Body(KeepReceipts(ClearJournal(base), LAMBDA r : r.id \notin {"r7", "r8", "r9"}),
                        "r6", "refusal", "journal/unavailable")
        Observing(name, bundle, observation) ==
            Reporting(Conformant(name, bundle), [x \in {} |-> None], {observation}, {})
        uncommitted == "journal/uncommitted-dispatch"
    IN << Observing("journal-refusal-conformant", refused, "refused_pre_dispatch"),
          Fixture("journal-uncommitted-dispatch", uncommitted, 13, ThatDispatched(base, Uncommitted)),
          Fixture("journal-array-order-uncommitted-first", uncommitted, 13,
                  ClearJournal(AddLaterDominatorDefect(UpdateAttemptFlow(base, Uncommitted)))),
          Observing("journal-life-safety-degraded",
                    ThatDispatched(ForLifeSafety(View), LAMBDA r : Urgent(Uncommitted(r))), "degraded_dispatch"),
          Observing("repair-d69-anchor-basis-same-operator",
                    RebuildManifest(base, LAMBDA m : [m EXCEPT !.basis = "same_operator"], TRUE),
                    "anchor_existence_order_only"),
          Fixture("journal-life-safety-unbound", "receipt/hazard-class-unbound", 10,
                  ThatDispatched(ForLifeSafety("camera.ptz.preset"), Urgent)) >>

ClassFixtures == ClassBoundary \o TerminalOutcome \o EvidenceCommit
=============================================================================

---------------------------- MODULE ScenarioProofs ----------------------------
(***************************************************************************)
(* The safety of Scenario, for every set of gates and observations and any *)
(* number of runs and crashes.                                             *)
(***************************************************************************)
EXTENDS Scenario, TLAPS

LEMMA BundlesAreEmissions ==
    ASSUME NEW g \in Gates
    PROVE  /\ RefusedBundle(g, "refused") \in SUBSET Emissions
           /\ RefusedBundle(g, "unavailable") \in SUBSET Emissions
           /\ \A o \in Observations : DispatchedBundle(g, o) \in SUBSET Emissions
BY DEF RefusedBundle, DispatchedBundle, Receipt, Emissions

LEMMA StepTypeOK ==
    ASSUME TypeOK, [Next]_vars
    PROVE  TypeOK'
<1> USE ScenarioAssumption DEF TypeOK, Steps, Goto, file, world, vars
<1>1. ASSUME NEW g \in Gates, Start(g) PROVE TypeOK'
  BY <1>1 DEF Start
<1>2. CASE EnsureFinds \/ EnsureCreates \/ EnsureWrites
  BY <1>2 DEF EnsureFinds, EnsureCreates, EnsureWrites
<1>3. CASE ProduceRefused \/ ProduceResumed
  <2>1. \A B \in SUBSET Emissions : Emit(B) /\ UNCHANGED world => TypeOK'
    BY DEF Emit
  <2> QED BY <1>3, <2>1, BundlesAreEmissions DEF ProduceRefused, ProduceResumed
<1>4. CASE ProduceIntends \/ Dispatched
  <2>1. CASE ProduceIntends
    <3>1. intent' \in [Gates -> BOOLEAN] /\ pc' \in Steps
      BY <2>1, Zenon DEF ProduceIntends
    <3> QED BY <2>1, <3>1 DEF ProduceIntends
  <2>2. CASE Dispatched
    <3>1. sent' \in [Gates -> Nat]
      BY <2>2 DEF Dispatched
    <3> QED BY <2>2, <3>1 DEF Dispatched
  <2> QED BY <1>4, <2>1, <2>2
<1>5. CASE NotDispatched \/ Observed
  BY <1>5, BundlesAreEmissions DEF NotDispatched, Observed, Emit
<1>6. CASE Verify \/ VerifyFails \/ Oracle \/ OracleFails \/ Crash
  BY <1>6 DEF Verify, VerifyFails, Oracle, OracleFails, Crash, Throw
<1>7. CASE AdvanceTruncates
  BY <1>7 DEF AdvanceTruncates
<1>8. CASE AdvanceWrites
  BY <1>8 DEF AdvanceWrites
<1>9. CASE UNCHANGED vars
  BY <1>9
<1> QED BY <1>1, <1>2, <1>3, <1>4, <1>5, <1>6, <1>7, <1>8, <1>9 DEF Next

\* Every gate, status, journal and bundle stays what it is declared to be.
THEOREM ScenarioTypeCorrect == Spec => []TypeOK
<1>1. Init => TypeOK
  BY DEF Init, TypeOK, Steps
<1> QED BY <1>1, StepTypeOK, PTL DEF Spec

-----------------------------------------------------------------------------
\* The history of passed runs

Consistent(S) == \A e, f \in S : ~Equivocal(e, f)

\* While the file parses it lists exactly what passed; while it is being written
\* the process still knows its entries; and past verification the bundle
\* conflicts with none of them.
HistoryInv ==
    /\ TypeOK
    /\ Consistent(passed) /\ Consistent(bundle)
    /\ status = "absent" \/ pc = "create" => passed = {}
    /\ status = "json" \/ pc = "write" => passed = Listed
    /\ pc \in {"oracle", "advance"} => status = "json"
    /\ (pc = "oracle" /\ gate \notin Tampered) \/ pc \in {"advance", "write"} => ~Conflicts

LEMMA BundlesConsistent ==
    ASSUME NEW g, NEW says
    PROVE  Consistent(RefusedBundle(g, says)) /\ Consistent(DispatchedBundle(g, says))
BY DEF Consistent, Equivocal, SameCoordinate, RefusedBundle, DispatchedBundle, Receipt

\* A step that leaves the file and the history alone and does not pass verification.
LEMMA HistoryKept ==
    ASSUME HistoryInv, TypeOK', UNCHANGED <<status, copies, passed>>, Consistent(bundle)',
           pc' \notin {"create", "oracle", "advance", "write"}
    PROVE  HistoryInv'
BY DEF HistoryInv, Listed, Consistent

LEMMA HistoryEnsure ==
    ASSUME HistoryInv, TypeOK', EnsureFinds \/ EnsureCreates \/ EnsureWrites
    PROVE  HistoryInv'
<1>1. CASE EnsureFinds
  BY <1>1, HistoryKept DEF EnsureFinds, Goto, file, HistoryInv
<1>2. CASE EnsureCreates
  BY <1>2 DEF EnsureCreates, Goto, HistoryInv, Consistent
<1>3. CASE EnsureWrites
  <2>1. Listed' = {}
    BY <1>3 DEF EnsureWrites, Listed
  <2>2. passed' = {}
    BY <1>3 DEF EnsureWrites, HistoryInv
  <2> QED BY <1>3, <2>1, <2>2 DEF EnsureWrites, Goto, HistoryInv, Consistent
<1> QED BY <1>1, <1>2, <1>3

LEMMA HistoryProduce ==
    ASSUME HistoryInv, TypeOK',
           ProduceRefused \/ ProduceResumed \/ ProduceIntends \/ NotDispatched \/ Dispatched \/ Observed
    PROVE  HistoryInv'
<1>1. ASSUME NEW B, Consistent(B), Emit(B) PROVE HistoryInv'
  <2>1. Consistent(bundle)'
    BY <1>1 DEF Emit, Consistent
  <2> QED BY <1>1, <2>1, HistoryKept DEF Emit, Goto, file
<1>2. CASE ProduceRefused \/ ProduceResumed \/ NotDispatched \/ Observed
  BY <1>1, <1>2, BundlesConsistent DEF ProduceRefused, ProduceResumed, NotDispatched, Observed
<1>3. CASE ProduceIntends \/ Dispatched
  <2>1. Consistent(bundle)'
    BY <1>3 DEF ProduceIntends, Dispatched, HistoryInv, Consistent
  <2> QED BY <1>3, <2>1, HistoryKept DEF ProduceIntends, Dispatched, Goto, file
<1> QED BY <1>2, <1>3

LEMMA HistoryVerify ==
    ASSUME HistoryInv, TypeOK', Verify \/ Oracle
    PROVE  HistoryInv'
<1>1. UNCHANGED <<status, copies, passed, gate, bundle>>
  BY DEF Verify, Oracle, file
<1>2. Listed' = Listed /\ (Conflicts' <=> Conflicts)
  BY <1>1 DEF Listed, Conflicts
<1>3. Consistent(passed)' /\ Consistent(bundle)'
  BY <1>1 DEF HistoryInv, Consistent
<1>4. CASE Verify
  <2>1. status = "json" /\ pc' = "oracle" /\ (gate \notin Tampered => ~Conflicts)
    BY <1>4 DEF Verify, WellFormed, Goto
  <2> QED BY <1>1, <1>2, <1>3, <2>1 DEF HistoryInv
<1>5. CASE Oracle
  <2>1. status = "json"
    BY <1>5 DEF Oracle, HistoryInv
  <2>2. CASE gate \in Tampered
    BY <1>1, <1>2, <1>3, <1>5, <2>1, <2>2 DEF Oracle, Goto, HistoryInv
  <2>3. CASE gate \notin Tampered
    <3>1. pc' = "advance" /\ ~Conflicts
      BY <1>5, <2>3 DEF Oracle, Goto, HistoryInv
    <3> QED BY <1>1, <1>2, <1>3, <2>1, <3>1 DEF HistoryInv
  <2> QED BY <2>2, <2>3
<1> QED BY <1>4, <1>5

LEMMA HistoryAdvance ==
    ASSUME HistoryInv, TypeOK', AdvanceTruncates \/ AdvanceWrites
    PROVE  HistoryInv'
<1>1. CASE AdvanceTruncates
  <2>1. Listed' = Listed /\ (Conflicts' <=> Conflicts)
    BY <1>1 DEF AdvanceTruncates, Listed, Conflicts
  <2>2. Consistent(passed)' /\ Consistent(bundle)'
    BY <1>1 DEF AdvanceTruncates, HistoryInv, Consistent
  <2> QED BY <1>1, <2>1, <2>2 DEF AdvanceTruncates, Goto, HistoryInv
<1>2. CASE AdvanceWrites
  <2>1. Listed' = Listed \cup bundle
    <3>1. bundle \in SUBSET Emissions /\ copies \in [Emissions -> Nat]
      BY DEF HistoryInv, TypeOK
    <3> QED BY <1>2, <3>1 DEF AdvanceWrites, Listed
  <2>2. passed = Listed /\ ~Conflicts
    BY <1>2 DEF AdvanceWrites, HistoryInv
  <2>3. passed' = Listed'
    BY <1>2, <2>1, <2>2 DEF AdvanceWrites
  <2>4. Consistent(passed)'
    BY <1>2, <2>2 DEF AdvanceWrites, HistoryInv, Consistent, Conflicts, Equivocal, SameCoordinate
  <2>5. Consistent(bundle)'
    BY <1>2 DEF AdvanceWrites, HistoryInv, Consistent
  <2> QED BY <1>2, <2>3, <2>4, <2>5 DEF AdvanceWrites, Goto, HistoryInv
<1> QED BY <1>1, <1>2

LEMMA HistoryStep ==
    ASSUME HistoryInv, [Next]_vars
    PROVE  HistoryInv'
<1>1. TypeOK'
  BY StepTypeOK DEF HistoryInv
<1>2. ASSUME NEW g \in Gates, Start(g) PROVE HistoryInv'
  <2>1. Consistent(bundle)'
    BY <1>2 DEF Start, Consistent
  <2> QED BY <1>1, <1>2, <2>1, HistoryKept DEF Start, Goto, file
<1>3. CASE Throw
  <2>1. Consistent(bundle)'
    BY <1>3 DEF Throw, HistoryInv, Consistent
  <2> QED BY <1>1, <1>3, <2>1, HistoryKept DEF Throw, Goto, file
<1>4. CASE UNCHANGED vars
  BY <1>4 DEF vars, file, world, HistoryInv, TypeOK, Consistent, Listed, Conflicts
<1> QED
  BY <1>1, <1>2, <1>3, <1>4, HistoryEnsure, HistoryProduce, HistoryVerify, HistoryAdvance
  DEF Next, VerifyFails, OracleFails, Crash

LEMMA HistoryInvariant == Spec => []HistoryInv
<1>1. Init => HistoryInv
  <2> SUFFICES ASSUME Init PROVE HistoryInv
    OBVIOUS
  <2>1. TypeOK
    BY DEF Init, TypeOK, Steps
  <2> QED BY <2>1 DEF Init, HistoryInv, Consistent
<1> QED BY <1>1, HistoryStep, PTL DEF Spec

\* No two passed runs contradict each other about a coordinate.
THEOREM PassedConsistent == Spec => []PassedNeverEquivocate
<1>1. HistoryInv => PassedNeverEquivocate
  BY DEF HistoryInv, PassedNeverEquivocate, Consistent
<1> QED BY <1>1, HistoryInvariant, PTL

\* A prior state that parses has forgotten nothing.
THEOREM PassedRecorded == Spec => []PassedStayRecorded
<1>1. HistoryInv => PassedStayRecorded
  BY DEF HistoryInv, PassedStayRecorded
<1> QED BY <1>1, HistoryInvariant, PTL

-----------------------------------------------------------------------------
\* The witness

\* A command in the witness log has an open intent, and a run is about to send
\* one only if there is none.
WitnessInv ==
    /\ TypeOK
    /\ \A g \in Gates : sent[g] > 0 => intent[g]
    /\ pc = "dispatch" => sent[gate] = 0 /\ intent[gate]
    /\ \A e \in bundle : e.gate = gate
    /\ pc \in {"advance", "write"} /\ SaysDispatched => sent[gate] = 1
    /\ DispatchIsWitnessed

LEMMA BundleOfGate ==
    ASSUME NEW g, NEW says
    PROVE  \A e \in RefusedBundle(g, says) \cup DispatchedBundle(g, says) : e.gate = g
BY DEF RefusedBundle, DispatchedBundle, Receipt

\* A step that leaves the world and the history alone.
LEMMA WitnessKept ==
    ASSUME WitnessInv, TypeOK', UNCHANGED <<intent, sent, passed>>,
           \A e \in bundle' : e.gate = gate', pc' \notin {"dispatch", "advance", "write"}
    PROVE  WitnessInv'
BY DEF WitnessInv, DispatchIsWitnessed

LEMMA WitnessProduce ==
    ASSUME WitnessInv, TypeOK',
           ProduceRefused \/ ProduceResumed \/ ProduceIntends \/ NotDispatched \/ Dispatched \/ Observed
    PROVE  WitnessInv'
<1>1. CASE ProduceRefused \/ ProduceResumed \/ Observed
  <2>1. (\A e \in bundle' : e.gate = gate') /\ pc' = "verify"
    BY <1>1, BundleOfGate DEF ProduceRefused, ProduceResumed, Observed, Emit, Goto
  <2> QED BY <1>1, <2>1, WitnessKept DEF ProduceRefused, ProduceResumed, Observed, Emit, world
<1>2. CASE ProduceIntends
  <2>1. sent[gate] = 0
    BY <1>2 DEF ProduceIntends, WitnessInv, TypeOK
  <2>2. \A g \in Gates : sent'[g] > 0 => intent'[g]
    BY <1>2 DEF ProduceIntends, WitnessInv, TypeOK
  <2>3. sent'[gate'] = 0 /\ intent'[gate']
    BY <1>2, <2>1 DEF ProduceIntends, WitnessInv, TypeOK
  <2> QED BY <1>2, <2>2, <2>3 DEF ProduceIntends, Goto, WitnessInv, DispatchIsWitnessed
<1>3. CASE NotDispatched
  <2>1. (\A e \in bundle' : e.gate = gate') /\ pc' = "verify"
    BY <1>3, BundleOfGate DEF NotDispatched, Emit, Goto
  <2>2. sent[gate] = 0
    BY <1>3 DEF NotDispatched, WitnessInv
  <2>3. \A g \in Gates : sent'[g] > 0 => intent'[g]
    BY <1>3, <2>2 DEF NotDispatched, WitnessInv, TypeOK
  <2> QED BY <1>3, <2>1, <2>3 DEF NotDispatched, Emit, WitnessInv, DispatchIsWitnessed
<1>4. CASE Dispatched
  <2>1. sent[gate] = 0 /\ intent[gate]
    BY <1>4 DEF Dispatched, WitnessInv
  <2>2. \A g \in Gates : sent'[g] > 0 => intent'[g]
    BY <1>4, <2>1 DEF Dispatched, WitnessInv, TypeOK
  <2>3. DispatchIsWitnessed'
    <3> SUFFICES ASSUME NEW e \in passed, e.place = "outcome"
                 PROVE  sent'[e.gate] = 1
      BY <1>4 DEF Dispatched, DispatchIsWitnessed
    <3>1. sent[e.gate] = 1
      BY DEF WitnessInv, DispatchIsWitnessed
    <3>2. e.gate \in Gates /\ e.gate # gate
      BY <2>1, <3>1 DEF WitnessInv, TypeOK, Emissions
    <3> QED BY <1>4, <3>1, <3>2 DEF Dispatched, WitnessInv, TypeOK
  <2> QED BY <1>4, <2>2, <2>3 DEF Dispatched, Goto, WitnessInv
<1> QED BY <1>1, <1>2, <1>3, <1>4

LEMMA WitnessStep ==
    ASSUME WitnessInv, [Next]_vars
    PROVE  WitnessInv'
<1>1. TypeOK'
  BY StepTypeOK DEF WitnessInv
<1>2. ASSUME NEW g \in Gates, Start(g) PROVE WitnessInv'
  BY <1>1, <1>2, WitnessKept DEF Start, Goto, world
<1>3. CASE EnsureFinds \/ EnsureCreates \/ EnsureWrites \/ Verify \/ Throw
  BY <1>1, <1>3, WitnessKept
  DEF EnsureFinds, EnsureCreates, EnsureWrites, Verify, Throw, Goto, world, WitnessInv
<1>4. CASE Oracle
  <2>1. Accounted /\ UNCHANGED <<intent, sent, gate, bundle, passed>> /\ pc' # "dispatch"
    BY <1>4 DEF Oracle, Goto, world
  <2>2. SaysDispatched' => sent'[gate'] = 1
    BY <2>1 DEF Accounted, SaysDispatched
  <2> QED BY <1>1, <2>1, <2>2 DEF WitnessInv, DispatchIsWitnessed
<1>5. CASE AdvanceTruncates
  BY <1>1, <1>5 DEF AdvanceTruncates, Goto, world, WitnessInv, DispatchIsWitnessed, SaysDispatched
<1>6. CASE AdvanceWrites
  <2>1. SaysDispatched => sent[gate] = 1
    BY <1>6 DEF AdvanceWrites, WitnessInv
  <2>2. \A e \in bundle : e.place = "outcome" => sent[e.gate] = 1
    BY <2>1 DEF WitnessInv, SaysDispatched
  <2>3. DispatchIsWitnessed'
    BY <1>6, <2>2 DEF AdvanceWrites, world, WitnessInv, DispatchIsWitnessed
  <2> QED BY <1>1, <1>6, <2>3 DEF AdvanceWrites, Goto, world, WitnessInv
<1>7. CASE UNCHANGED vars
  BY <1>1, <1>7 DEF vars, file, world, WitnessInv, DispatchIsWitnessed, SaysDispatched
<1> QED BY <1>2, <1>3, <1>4, <1>5, <1>6, <1>7, <1>1, WitnessProduce
    DEF Next, VerifyFails, OracleFails, Crash

\* A run that passed as dispatched has its one command in the witness log, for good.
THEOREM Witnessed == Spec => []DispatchIsWitnessed
<1>1. Init => WitnessInv
  <2> SUFFICES ASSUME Init PROVE WitnessInv
    OBVIOUS
  <2>1. TypeOK
    BY DEF Init, TypeOK, Steps
  <2> QED BY <2>1 DEF Init, WitnessInv, DispatchIsWitnessed
<1>2. WitnessInv => DispatchIsWitnessed
  BY DEF WitnessInv
<1> QED BY <1>1, <1>2, WitnessStep, PTL DEF Spec
=============================================================================

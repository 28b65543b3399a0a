------------------------------- MODULE Scenario -------------------------------
(***************************************************************************)
(* The scenario runner (demo/run-scenario.ts).  A run produces the bundle  *)
(* of one gate input, has pyref verify it against the prior-state file,    *)
(* puts it to the online oracle, and advances the file.  Runs follow each  *)
(* other and may die between any two steps; the journal, the witness log   *)
(* and the prior-state file outlive them.                                  *)
(*                                                                         *)
(* Every receipt of a gate has its coordinate from the gate and its place  *)
(* in the bundle (issuer_seq = 100 * epoch_id + epoch_seq), and what it    *)
(* says is a function of the run: the same content signed again is the     *)
(* same envelope.                                                          *)
(***************************************************************************)
EXTENDS Naturals

CONSTANTS
    Gates,          \* gate inputs
    Refusing,       \* gates of S3 and S7: the command is never dispatched
    Tampered,       \* gates of S4: the bundle is altered and must fail
    Observations,   \* what a dispatched command may be observed to have done
    MaxStarts       \* bound: runs

ASSUME ScenarioAssumption ==
    /\ Refusing \subseteq Gates /\ Tampered \subseteq Gates
    /\ MaxStarts \in Nat
    /\ Observations \cap {"inputs", "refused", "unavailable", "eligible"} = {}

VARIABLES
    status,         \* the prior-state file: "absent", "json" or "torn" (does not parse)
    copies,         \* copies[e]: how often it lists emission e
    intent,         \* intent[g]: the journal has an open dispatch intent of g
    sent,           \* sent[g]: commands of g in the witness log
    pc, gate, bundle,   \* the running process
    starts,         \* runs started (bound)
    passed          \* emissions of the runs that ended well (history)

file == <<status, copies>>
world == <<intent, sent>>
vars == <<file, world, pc, gate, bundle, starts, passed>>

Emissions ==
    [gate : Gates, place : {"inputs", "attempt", "outcome"},
     says : {"inputs", "refused", "unavailable", "eligible"} \cup Observations]

Receipt(g, place, says) == [gate |-> g, place |-> place, says |-> says]

\* The bundle of a command that was not dispatched, and of one that was.
RefusedBundle(g, reason) == {Receipt(g, "inputs", "inputs"), Receipt(g, "attempt", reason)}
DispatchedBundle(g, o) ==
    {Receipt(g, "inputs", "inputs"), Receipt(g, "attempt", "eligible"), Receipt(g, "outcome", o)}

Listed == {e \in Emissions : copies[e] > 0}
SameCoordinate(e, f) == e.gate = f.gate /\ e.place = f.place
Equivocal(e, f) == SameCoordinate(e, f) /\ e # f

Steps == {"idle", "ensure", "create", "produce", "dispatch", "observe", "verify",
          "oracle", "advance", "write"}

TypeOK ==
    /\ status \in {"absent", "json", "torn"}
    /\ copies \in [Emissions -> Nat]
    /\ intent \in [Gates -> BOOLEAN]
    /\ sent \in [Gates -> Nat]
    /\ pc \in Steps
    /\ gate \in Gates
    /\ bundle \in SUBSET Emissions
    /\ starts \in Nat
    /\ passed \in SUBSET Emissions

Init ==
    /\ status = "absent" /\ copies = [e \in Emissions |-> 0]
    /\ intent = [g \in Gates |-> FALSE]
    /\ sent = [g \in Gates |-> 0]
    /\ pc = "idle" /\ gate \in Gates /\ bundle = {}
    /\ starts = 0
    /\ passed = {}

Goto(step) == pc' = step

\* An exception leaves runScenario(), or the process dies.
Throw ==
    /\ Goto("idle")
    /\ UNCHANGED <<file, world, gate, bundle, starts, passed>>

-----------------------------------------------------------------------------
\* ensurePriorState()

Start(g) ==
    /\ pc = "idle" /\ starts < MaxStarts
    /\ Goto("ensure") /\ gate' = g /\ bundle' = {} /\ starts' = starts + 1
    /\ UNCHANGED <<file, world, passed>>

\* The file can be read; whether it parses is found out later.
EnsureFinds ==
    /\ pc = "ensure" /\ status # "absent"
    /\ Goto("produce")
    /\ UNCHANGED <<file, world, gate, bundle, starts, passed>>

\* Mutant: a file that does not parse is started afresh.
EnsureRepairs ==
    /\ pc = "ensure" /\ status # "json"
    /\ status' = "torn" /\ Goto("create")
    /\ UNCHANGED <<copies, world, gate, bundle, starts, passed>>

\* writeFile() creates the file before it writes.
EnsureCreates ==
    /\ pc = "ensure" /\ status = "absent"
    /\ status' = "torn" /\ Goto("create")
    /\ UNCHANGED <<copies, world, gate, bundle, starts, passed>>

EnsureWrites ==
    /\ pc = "create"
    /\ status' = "json" /\ copies' = [e \in Emissions |-> 0]
    /\ Goto("produce")
    /\ UNCHANGED <<world, gate, bundle, starts, passed>>

-----------------------------------------------------------------------------
\* produce(), as far as it decides which receipts are signed

Emit(B) == bundle' = B /\ Goto("verify") /\ UNCHANGED <<file, gate, starts, passed>>

\* The delegation is expired (S3) or the journal refuses the attempt (S7, and
\* any gate whose journal cannot be written).
ProduceRefused ==
    /\ pc = "produce"
    /\ \/ gate \in Refusing /\ Emit(RefusedBundle(gate, "refused"))
       \/ gate \notin Refusing /\ ~intent[gate] /\ Emit(RefusedBundle(gate, "unavailable"))
    /\ UNCHANGED world

\* An open intent: the outcome is what reconciliation observes now.
ProduceResumed ==
    /\ pc = "produce" /\ gate \notin Refusing /\ intent[gate]
    /\ \E o \in Observations : Emit(DispatchedBundle(gate, o))
    /\ UNCHANGED world

ProduceIntends ==
    /\ pc = "produce" /\ gate \notin Refusing /\ ~intent[gate]
    /\ intent' = [intent EXCEPT ![gate] = TRUE]
    /\ Goto("dispatch")
    /\ UNCHANGED <<file, sent, gate, bundle, starts, passed>>

\* The adapter refused before transport: the intent is closed.
NotDispatched ==
    /\ pc = "dispatch"
    /\ intent' = [intent EXCEPT ![gate] = FALSE]
    /\ Emit(RefusedBundle(gate, "refused"))
    /\ UNCHANGED sent

Dispatched ==
    /\ pc = "dispatch"
    /\ sent' = [sent EXCEPT ![gate] = @ + 1]
    /\ Goto("observe")
    /\ UNCHANGED <<file, intent, gate, bundle, starts, passed>>

Observed ==
    /\ pc = "observe"
    /\ \E o \in Observations : Emit(DispatchedBundle(gate, o))
    /\ UNCHANGED world

-----------------------------------------------------------------------------
\* pyref verify --prior-state, then the assertions

\* prior_emissions must be strictly sorted and unique.
WellFormed == status = "json" /\ \A e \in Emissions : copies[e] <= 1

Conflicts == \E e \in bundle, f \in Listed : Equivocal(e, f)

\* Mutant: only what the outcome says is compared.
VerifyOutcomeOnly ==
    /\ pc = "verify" /\ WellFormed
    /\ gate \in Tampered \/ ~\E e \in bundle, f \in Listed : Equivocal(e, f) /\ e.place = "outcome"
    /\ Goto("oracle")
    /\ UNCHANGED <<file, world, gate, bundle, starts, passed>>

\* The bundle is conformant, or fails before the history phase as it must (S4).
Verify ==
    /\ pc = "verify" /\ WellFormed
    /\ gate \in Tampered \/ ~Conflicts
    /\ Goto("oracle")
    /\ UNCHANGED <<file, world, gate, bundle, starts, passed>>

\* A usage error, or a conflict with the history.
VerifyFails ==
    /\ pc = "verify"
    /\ ~WellFormed \/ (gate \notin Tampered /\ Conflicts)
    /\ Throw

SaysDispatched == \E e \in bundle : e.place = "outcome"

\* The witness saw one command if the bundle says dispatched, none otherwise.
Accounted == sent[gate] = (IF SaysDispatched THEN 1 ELSE 0)

\* Mutant: the traffic is not counted.
OracleUnwitnessed ==
    /\ pc = "oracle"
    /\ IF gate \in Tampered THEN Goto("idle") ELSE Goto("advance")
    /\ UNCHANGED <<file, world, gate, bundle, starts, passed>>

\* A journal-refused bundle passes in S7 only, where the fault was injected.
Oracle ==
    /\ pc = "oracle" /\ Accounted
    /\ \A e \in bundle : e.says # "unavailable"
    /\ IF gate \in Tampered THEN Goto("idle") ELSE Goto("advance")
    /\ UNCHANGED <<file, world, gate, bundle, starts, passed>>

\* The accounting does not match, or some other assertion on the content fails.
OracleFails == pc = "oracle" /\ Throw

-----------------------------------------------------------------------------
\* advancePriorState()

\* writeFile() truncates before it writes.
AdvanceTruncates ==
    /\ pc = "advance"
    /\ status' = "torn"
    /\ Goto("write")
    /\ UNCHANGED <<copies, world, gate, bundle, starts, passed>>

\* Every receipt is pushed, listed before or not.
AdvanceWrites ==
    /\ pc = "write"
    /\ status' = "json"
    /\ copies' = [e \in Emissions |-> IF e \in bundle THEN copies[e] + 1 ELSE copies[e]]
    /\ passed' = passed \cup bundle
    /\ Goto("idle")
    /\ UNCHANGED <<world, gate, bundle, starts>>

Crash == pc # "idle" /\ Throw

Next ==
    \/ \E g \in Gates : Start(g)
    \/ EnsureFinds \/ EnsureCreates \/ EnsureWrites
    \/ ProduceRefused \/ ProduceResumed \/ ProduceIntends
    \/ NotDispatched \/ Dispatched \/ Observed
    \/ Verify \/ VerifyFails \/ Oracle \/ OracleFails
    \/ AdvanceTruncates \/ AdvanceWrites
    \/ Crash

Spec == Init /\ [][Next]_vars

-----------------------------------------------------------------------------
(***************************************************************************)
(* Properties                                                              *)
(***************************************************************************)

\* Over any sequence of runs, crashes and reruns, the runs that ended well
\* never signed two different receipts for one coordinate.
PassedNeverEquivocate == \A e, f \in passed : ~Equivocal(e, f)

\* While the file parses it lists what every passed run signed: a crash while it
\* is written may destroy it, but never makes it forget.
PassedStayRecorded == status = "json" => passed \subseteq Listed

\* A run whose bundle says dispatched passed on exactly one command in the witness
\* log, and no later run of the gate adds another.
DispatchIsWitnessed ==
    \A e \in passed : e.place = "outcome" => sent[e.gate] = 1

\* "--prior-state, advanced across runs" (spec/GATE5-RUBRIC.md, F8): what a run
\* leaves is a prior state that the next one can supply.
HistoryStaysUsable == status = "json" => WellFormed

=============================================================================

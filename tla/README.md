# AAR: specifications and proofs

TLA+ modules that model the stateful parts of this repository, the TLC runs that
check them on small instances, and TLAPS proofs of what matters most. Paths are
relative to the root of the repository.

## The system

AAR (agent action receipts) is an evidence format with the programs around it:

| part | state | operations | interacts with |
|---|---|---|---|
| enforcement point producer, `demo/ep/producer.ts` | none of its own between runs; locals of `produce()` | one run takes an invocation from signed request to bundle | journal, adapter, anchor log, output directory |
| invocation journal, `demo/ep/journal.ts` | one JSON-lines file, fsynced per record | append, records, mustNotRedispatch | producer |
| VAPIX adapter, `adapters/vapix` | recovery files; digest challenges and nonce counts | dispatch, reconcile | camera through the witness proxy |
| VMS adapter, `adapters/vms` | recovery files | dispatch, reconcile | mediator through the witness proxy |
| witness proxy, `demo/witness` | append-only log | forward, record | adapter, camera |
| wire builder, `demo/ep/wire-builder.ts` | none | receipts, manifest, bundle; calls back into the producer to dispatch | producer, anchor log |
| anchor log, `demo/anchor/log.ts` | JSON-lines file of leaves | append, inclusion proof | wire builder |
| scenario runner, `demo/run-scenario.ts` | prior-state file | run, verify with pyref, online oracle, advance the prior state | all of the demo |
| L2 emitter, `emitter/l2-claude-code` | receipts.hexl, state.json, close.hex; recorder.key, recorder.pub | one process per tool call and per stop; verify | the agent harness that starts the hooks |
| harness verifier, `harness/verifier.ts` and around it | the observations and key uses gathered in one evaluation (prior state and history are inputs) | the numbered verification steps, relying-party policy, the verdict | bundles |
| fixtures, `harness/fixtures.ts`, `negative-fixtures.ts` and others | none | build the conformant bundle, and from it every bundle with a declared verdict | harness verifier |
| pyref, `pyref` | none | the same steps in Python | bundles |
| kit, `harness/mutate.ts`, `harness/difffuzz*.ts` | none | mutated bundles, comparison of the two verifiers | both verifiers |
| keys, preflight, hygiene, mocks, live runners | files | sequential scripts | demo, adapters |

What is hard in it is not the sequence of steps but what interrupts it. A run can
die anywhere and be started again with the same invocation. A request that timed
out is not taken back. A journal line can be short. An answer may come from the
proxy instead of the device. Two hooks of the emitter run at once without a lock.
`PROJECT.json` lists these hazards at their lines; the properties below are aimed
at them. What makes each part correct:

* the command of an invocation is executed at most once, and what the bundle says
  of it (refused, acknowledged, contradicted, unknown) claims no more than is true;
* no command leaves before the journal shows its attempt and intent;
* a camera that was moved is put back, or a file says where it belongs;
* a session of the emitter that verifies as intact is one unforked chain, and a
  closed session stays as it is;
* the witness log has each exchange once, before its client is told of an answer,
  and misses no executed command while it can be written;
* a relying party that supplies its history never accepts two receipts that
  contradict each other, whatever the order in which bundles reach it; what is wrong
  with a bundle itself does not depend on who examines it; honest bundles are never
  refused because of history;
* a conformant verdict means what the specification promises of it, whichever of the
  twenty steps it takes to establish it: authority up to the first delegation, keys in
  their life, a journaled attempt, one receipt for a place, one history of epochs, evidence
  that was anchored, completeness where it is claimed, and no more limits than are earned;
* the scenario runs that passed are consistent with each other and with the witness
  log, also when runs crashed in between, and the prior state they leave is usable.

## Modules

| module | models | state |
|---|---|---|
| `Deployment` | the constants of one installation, with their assumption | |
| `Journal` | `demo/ep/journal.ts` | `journal`: per invocation the sequence of its events; `torn`: some line does not parse |
| `Camera` | external: HTTP path, camera, mediator | `net` requests in flight, `sent` their counter, `reply` what the client has got, `pos`/`goal` of the camera, `execs` executions per invocation, `answered` history |
| `Adapter` | `adapters/vapix/adapter.ts`, `digest.ts`, `adapters/vms/adapter.ts`, `client.ts` | `pc`, `cur`, `run` (locals), `recovery` (files) |
| `EpProducer` | `demo/ep/producer.ts`, composing the above | `starts` (bound), `report` (what the last bundle says) |
| `OnceCommand` | abstract: a command that is armed, takes effect at most once, and is reported | `armed`, `executed`, `level` |
| `EpSafetyProofs`, `EpAnswerProofs`, `EpCameraProofs` | proofs about `EpProducer` | |
| `L2Recorder` | `emitter/l2-claude-code`: `recorder.ts`, `close.ts`, the key creation of `lib.ts`, the checks of `verify.ts` | the three files, the two key files, two error logs, `pc`/`seen`/`key` per hook, the last reading of the clock, and two history variables, `orderly` and `steady` |
| `L2Proofs` | proofs about `L2Recorder` | |
| `WitnessProxy` | `demo/witness/proxy.ts`, `log.ts` | per exchange the `handler`, the close `listener`, the flag `recorded`, what the `client` knows and the `device` did; the `log` |
| `WitnessProofs` | proofs about `WitnessProxy` | |
| `Evidence` | bundles as data, and the verifier's judgements about them: `harness/emission-identity.ts`, `history.ts`, `retained.ts`, part of `manifest-index.ts`, `verifier.ts` | |
| `RelyingParty` | examiners that put bundles before the verifier and keep a history | `prior`, `uses`, `retained`, `verdict`, and `accepted` (history variable) |
| `Ledger` | abstract: a book of emissions that only grows and never contradicts itself | `book` |
| `RelyingPartyProofs` | proofs about `RelyingParty` | |
| `Scenario` | `demo/run-scenario.ts` with what `produce()` and `pyref verify` decide in it | the prior-state file (`status`, `copies`), `intent` (journal), `sent` (witness log), `pc`/`gate`/`bundle` of the run, and `passed` (history variable) |
| `ScenarioProofs` | proofs about `Scenario` | |
| `Faults` | how a check reports: the first code found, in the order of the source | |
| `EnvelopeSteps` | `harness/verifier.ts`, steps 1 to 4 and sub-steps 1 to 6 of step 6 | |
| `CredentialSteps` | step 5, sub-steps 7 to 9 of step 6, step 8 | |
| `ReceiptSteps` | steps 7, 9, 10 and 11 | |
| `GraphSteps` | steps 12 and 13, and the report on declared origins | |
| `MerkleTrees` | `harness/merkle.ts`: promoted and RFC 6962 trees and their proofs | |
| `EpochSteps` | steps 14 to 17, `harness/manifest-index.ts` | |
| `RangeSteps` | steps 18 and 19 | |
| `Verifier` | `verifyBundle()`, composing the steps, and its verdicts | `fixture`, `step`, `issue`, `observations`, `verdict` |
| `VerifierProofs` | proofs about `Verifier` | |
| `Fixtures`, `Edits` | the conformant bundle (`harness/fixtures.ts`) and the edits of it (`harness/mutate.ts` and the helpers of the fixtures) | |
| `CorpusConformant`, `CorpusCodes`, `CorpusRepairs`, `CorpusD82`, `CorpusSchema`, `CorpusClasses`, `CorpusOrigins`, `CorpusPolicies` | the bundles that the harness builds, with the verdict it declares for each | |
| `Fuzz` | the operators of `harness/difffuzz.ts` that aim at one step, with every choice they have | |
| `Corpora` | all of these, and bundles for cases that they leave out | |
| `MCL2Recorder`, `MCScenario` | symmetry sets for TLC | |
| `MCRelyingParty` | the worlds of bundles for TLC | |
| `MCVerifier` | the declared verdicts, as a property | |

### Enforcement point

One action of `EpProducer` is one journal append or one call; one action of
`Adapter` is one exchange or one file operation. The correspondence is in the `map`
of `PROJECT.json`; the shape is that of the code:

    request -> authorize -> branch -> (expired)   emit
                                   -> (pending)   reconcile: restore, verify -> emit
                                   -> commit -> intent -> adapter -> observe -> emit
                                        |                   `-> refuse ------> emit
                                        `-> journalRefusal ------------------> emit

`Abort` is the process ending: files and requests in flight stay. `Crash` aborts at
any point; a failed append that `produce()` does not catch aborts too. The two
adapters share their control, so one module models both, with the constant `Vapix`
choosing between what differs: the digest client (failure before the action is
sent, stale-nonce resend, a 401 whose challenge does not parse), and what a failed
stream request is taken for.

The data is abstracted to what the properties tell apart. A journal record is its
event; a position is one of a set, and a readback gives the position or nothing;
within tolerance means equal; digests, receipts and formats are left out. Baseline
and poll readbacks are one step each: the answer arrives or does not. A short
write of the journal is not noticed by `append()` (it ignores the count `write()`
returns), so `AppendReturns` may tear the file; `AppendThrows` may have written
nothing, a part, or all of the line.

The environment may lose a request, answer in the device's stead (`gateway`),
execute and still report an error, and deliver after the client gave up. `Fifo`
says whether it keeps the order of requests: the adapter sends the restore after
a command that timed out, and whether the late command can arrive after the
restore is a property of the path and not of this code.

### L2 emitter

Every hook is a process of its own. Each file operation is a step, and
`writeFileSync` is two, because it truncates the file first; an append is one write call
and one step. The harness starts hooks at any time, and `Kill` lets it kill one between any two
steps. A receipt is identified by the call that wrote it, since each call writes at most
one, and a key by the hook that generated it. `clock` is the last reading of `Date.now()`: receipts
are stamped with it (`recorder.ts:63`), the session's opening with the reading of the first
recorder (`recorder.ts:43`, or of the closer, `close.ts:26`) and the close with the closer's
(`close.ts:39`). A reading may be any of `Times`, also one before the last.
Every hook begins by loading the key, and creates and publishes it where there is none
(`loadOrCreateRecorderKey()`), also without a lock: two first hooks may each create one, and one
that is killed leaves an empty file on which all later hooks throw.

The code has two critical sections and no lock for either: `Section`, from the check for the close
file to the last write, and `KeySection`, from the check that finds no key to the write of it.
The history variable `orderly` says that no two hooks were in the same one together, which is what the
lock file that `recorder.ts:10` leaves for later would see to, and that none was killed
`Midway`: a recorder between its receipt and the state file, or a closer while close.hex is
empty. Outside these hooks overlap as they like, at the publication of the key and at
the checks too, and are killed as they like. `steady` says that no reading of the clock was before an
earlier one. What a session promises under `orderly` and `steady` is checked as such; what it
promises always is checked of every interleaving and every kill (`IntactIsOneChain`), and what it
does not keep then is shown by the two violations.

The verifier is the operator `Intact`: the signatures under the published key, the limit on
`item_count` (`verify.ts:77`, `MaxItems`), the six checks of the chain, and the window of the
close (`verify.ts:125-127`, `138-139`). What every hook writes alike, content types and
coordinates, agrees by itself, and a record is whole or not there. `close.ts:40` writes
any count and the clock is not the code's to keep, so a session of more than 10000 receipts, or one
whose clock was set back, is closed and then rejected: `HonestSessionVerifies` says
exactly this, that under `orderly` and `steady` a closed session whose key is published verifies
if and only if it has at most `MaxItems` receipts.

### Witness proxy

Each exchange has a handler and, from the moment its request was read, a listener for
the client closing the connection. Both are asynchronous functions of one process, so
a step of the model is what runs between two awaits: `Record` raises the flag,
`AppendEntry` is the append that follows it. An append that fails rejects: in the
handler that becomes a 502, in the listener it ends the process, as does an answer
of the device that breaks off in its body (`bodyOf` rejects in a callback that nobody
awaits). The log is a sequence of entries; what an entry says is one of three lines.

### Relying party

`Evidence` judges a bundle by the numbered steps: step 3 (a receipt_id repeated), 9
(emission identity), 11 (one-time use), 14 (epochs), 15 (manifest index) and 20 (the
history phase) are translated, and the other steps are a constant of the bundle,
`defect`, the first of them that it fails (0: none). `Reaches` is the precedence of the
steps, and the classes of step 20 have theirs in `RejectHistory`. Digests commit to what
they are computed of (`DigestsCommit`); this is the assumption that signatures and
hashes are for.

`RelyingParty` is what an examiner does with the verifier: evaluate any bundle with the
history it has and any of the bundles it retains, keep what was found conformant
(`Accept` adds every emission, as `advancePriorState()` does), retain the bundle, take
entries from elsewhere. Refusals (usage errors) are raised in the order of the code,
those of the load before the evaluation, that of step 9 when the evaluation reaches
it.

### Harness verifier

`Verifier` has one action for each of the twenty steps, enabled when the steps before it
found nothing, and two for the verdicts. A step is an operator over the bundle that yields
a reason code or nothing, and what it is built from is written the way the source is: `a ?? b`
is "the first of them that found something", `ForEach` is a loop that stops at its first
fault. So the order of the checks inside a step is modelled with the same care as the checks
themselves; it decides which code is reported, and the harness declares that code for each of
its fixtures. What a step hands to later ones (key uses, the observations) is kept.

The data is abstracted in two ways. A digest is what it is computed of, or the name of an
artifact, so that two are equal if and only if their contents are; a digest that does not
recompute is in the set `broken` of its artifact. What is wrong with bytes, CBOR, a field or
a signature is a pair of a place and a defect in the set `flaws` of the document, and the
verifier looks at places and defects in its own order (`Judge`). Everything else (times,
coordinates, parents, scopes, windows, statuses, tree sizes, proofs, selectors, policies)
is data that the steps compute with.

`DeclaredVerdicts` holds the model to the harness: for each of the fixtures it builds the
verdict of the model is the declared one, with its step, code, limits and observations. That
is what shows the translation of steps and fixtures to be faithful. The other properties say
what a conformant verdict promises, in terms of the bundle and across the steps; there the
corpus is joined by everything that the operators of the fuzz tool can make of the
conformant bundle and by the cases of `Corpora!Further`, which neither of them contains.

The fixtures are generated from one bundle by edits. An artifact keeps its name when it is
edited, where the source identifies and signs it again and rewrites the references to it.

### Scenario runner

A run is started for a gate input, and may die between any two steps. The prior-state
file is absent, parses, or is what `writeFile` left of it; `copies` counts the entries,
because the file is a list and the reader wants a set. A receipt has its coordinate
from the gate and its place in the bundle, and what it says is a function of the run:
signing is deterministic (`signing.ts`, `extraEntropy: false`), so equal content is the
same envelope. `produce()` appears as far as it decides which receipts are signed; it is
modelled in full by `EpProducer`. Places whose receipts never differ between runs of one gate
(observation, inference, authorization) are one.

## Runs

`CHECK_DEADLOCK FALSE` in all of them: the system stops when the operator starts no
more runs, or when every hook has ended.

| run | instance | shows |
|---|---|---|
| `EpPtz` | one move, VAPIX, ordered path, 3 runs | every crash and journal failure of a first run, its resumption, and a rerun after that. At most once; commit before dispatch; honest refusals and acknowledgements; true restore claims; displacement always recorded |
| `EpMediator` | a move, a stream view, an expired move; VMS, unordered path, 2 runs, fairness | what does not rest on order: `CommandInv`, the inductive invariant of the proofs, hence at most once, honest refusals and an expired move never sent; refinement of `OnceCommand`, termination, contradicted only when observed |
| `EpStreamVapix` | violation | VAPIX says contradicted of the proxy's own 502 |
| `L2Session` | 3 calls, 2 stops, concurrent, one of them killed, symmetric; with a key from an earlier session, or without one and 3 hooks; two times, the clock set back among up to 3 hooks; a limit of 2 receipts | signatures and chain pass only for one chain in file order, signed with one key; while the hooks are orderly a closed session stays closed, a stop leaves it closed or being closed, and under a steady clock it verifies exactly if it is within the limit |
| `L2CloseRace`, `L2LostReceipt` | violations | append after close; a lost receipt in an intact session |
| `Witness` | two exchanges, one of them withheld (S6), fairness | recorded once, before the answer is known; an executed command is witnessed in the end |
| `RpForged` | one examiner, 13 bundles: three honest, and around them reused ids, equivocations, forked and lying manifests; two foreign entries, two retained | accepted receipts are consistent, one-time use, refinement of `Ledger`; history agrees with the index; membership is earned; a fork shows in the events; honest bundles are never turned away |
| `RpTwo` | two examiners, 6 bundles, one retained, symmetric | verdicts about a bundle itself do not depend on history |
| `Scenario` | three gates (dispatching, refused, tampered), two observations, 5 runs, symmetric | passed runs are consistent and recorded; a dispatch is witnessed once |
| `ScenarioRerun` | violation, 2 runs | a refused scenario run twice leaves a prior state that the verifier refuses |
| `Verify` | 1798 bundles: every fixture of the harness, eleven more, and the mutants of the fuzz tool | the declared verdict for every fixture; a conformant verdict is authorized up to the first delegation, rests on keys in their life, on journaled attempts, on one receipt for each place, on closed and anchored epochs of one history, and on proofs of what they claim, at the place that they claim, is complete if it says so and has the limits it earned; a log that is shown to have grown has kept what it had |

Bounds. `MaxStarts` bounds how often the operator starts a run. Two runs are a
crash and its resumption; three add a rerun after a resumption, and a crash within
one. What a run leaves behind is the journal's verdict on the invocation, the
recovery file and the requests in flight, and three runs reach all the
combinations of those for one invocation. Two camera moves that share the journal file and
the camera are left to the proofs, which have no bound on invocations (with one run for
each, or two for one, TLC takes minutes and finds nothing that one move does not show).
Two positions are enough: at the
preset, or not. Three recorder calls are the smallest number with a fork that has
a single genesis; in an installation without a key `MaxFirst` lets three hooks run, two that create
it at once and one more. `MaxUnsteady` lets three hooks run where the clock is set back: a receipt
before the opening or after the close takes two of them. `MaxItems` is 2, so that three calls are one too
many; two times are enough for before and after. One kill (`MaxKills`) at every place of every hook; the
proofs have no bound on kills, hooks, times or the limit. Two exchanges suffice for a proxy whose exchanges share
only the log and the process. The relying party's worlds are chosen for the cases: each
class of step 20, each refusal and each step modelled occurs in one of them, and an
examiner may evaluate any number of times. Five scenario
runs allow a crash, its rerun and a rerun after a pass for one gate, and another gate
between them.
The verifier's limits are scaled to the conformant bundle (`DagDepth` 7 and `DagWidth` 6 are
what it may grow to, `MaxNodes` 20, `MaxParents` 3, `MaxEdges` 18, `MaxProof` 4, `MaxProofs`
60), so that the fixtures at a limit and just above it are small; `Day`, `Hour` and `Minutes` are
the real ones, in seconds. The mutants of the fuzz tool are those of one operator applied once
to the conformant bundle; where the tool draws random bytes, there is one value `Random`
that is the digest of nothing.

Beside the violations that have a run, two places where code and text differ were
met and have none. `demo/ep/README.md:17-19` says that after a refusal of the adapter
"a rerun remains a refusal"; in the code the refusal closes the intent (`demo/ep/journal.ts:70`), so
that the rerun dispatches again, and is refused only if the adapter refuses again. The models contain
this behaviour. And `spec/CONFORMANCE.md:613-614` requires of an empty temporal slice
"valid neighboring boundaries", while step 18 (`harness/verifier.ts:1895-1953`) verifies the
boundaries that are present and accepts an empty slice with none.

Fairness. `EpMediator` assumes that the process takes its steps: every exchange has
a deadline (`digest.ts:254`, `client.ts:83`), so `CommandTimesOut` and
`RestoreFails` are always open to it, and `WF(EpStep)` needs nothing from the
network. Polling could go on for ever in the model, so its deadline
(`adapter.ts:212`) has a fairness condition of its own. Starts, crashes and the
environment have none.
`Witness` assumes that the process takes its steps and that a client gives up in the
end, which the deadlines just named provide; the device and the upstream connection
owe nothing.

The refinement maps `armed` to the commands in flight or being dispatched, and
`level` to what the last bundle says. `Report` of the abstract specification is
guarded by what may truthfully be said; `EmitBundle` and the steps before it
implement it.

## Proofs

`EpSafetyProofs` proves, from `DeploymentAssumption` alone, hence for
every set of invocations and positions, any number of runs, both adapters and a
path that need not keep order:

* `EpTypeCorrect`: `Spec => []TypeOK` (no run repeats the type invariants that are proved);
* `EpAtMostOnce`, `EpNoUncommittedDispatch`, `EpRefusalIsHonest`,
  `EpUnauthorizedNeverSent`, each from `EpCommandInv`.

None of the four is inductive. At most one execution holds because at most one
request carrying the command exists, which holds because the process is at a
sending step only if nothing was sent before, which holds because a run takes the
dispatching branch only if the journal has no open intent, and an open intent
is there whenever a command is or was under way. `CommandInv` states this chain:

* `NetworkInv`: at most one request carries a command, and only while it was not
  executed;
* `JournalInv`: a command that was touched is guarded by the journal (open intent,
  attempt and intent recorded), or the file is torn, and then no run passes the
  branch;
* `ProcessInv`: where the process may still send, the command is untouched; from
  the intent on the journal guards it; a 401 to the awaited request means that
  it is untouched, which is what makes resending it and calling it not dispatched
  sound;
* `AuthorizedInv`: past the branch the invocation is authorized.

The proof has one lemma for the append, one for sending, one for the environment,
one for the adapter's steps and one for the producer's. TLC checks `CommandInv` in
`EpMediator`.

`EpAnswerProofs` builds on it, for the same constants:

* `EpAcknowledgedIsDone`, and `EpContradictedIsObserved` for the VMS adapter (VAPIX does not
  have it: `EpStreamVapix`). `AnswerInv` carries what the device did into the run: a success that
  the client hears is the answer to the awaited request, which is the command; the outcome is
  decided once, and only an acknowledged move whose restore was verified is reported as such.
* `EpImplementsOnce`: `Spec => ImplementsOnce`. A step changes whether the current command is
  armed, lets one take effect, or reports one. A resumed run arms nothing, because it has
  concluded `unknown` and only restores; a run that reports `contradicted` dispatched its command,
  which therefore could have taken effect.

`EpCameraProofs` is about the camera, and needs a path that keeps order (`Fifo`):

* `EpRestoreClaimIsTrue`, for any invocations that share the camera. In `RestoreInv`, when the
  restore is answered it was the last request on the wire, hence no earlier move can still arrive:
  the camera goes to the baseline and nowhere else.
* `EpDisplacementIsRecorded`, if one invocation at most moves the camera (`OneMove`): every
  baseline is then the park position. With two it is false: the second may take the preset for
  its baseline, and if it is resumed after the first, it moves the camera back there when the record of
  the park position is already gone (a listed hazard).

`RelyingPartyProofs` proves every property of `RelyingParty`, from the assumptions of
`Evidence`: any bundles, any number of examiners, any foreign entries.

* `EmissionIdentity`, `OneTimeUse`, `Agreement`, `IndexAgreement`, `EarnedMembership`,
  `ForksShow`, `HonestAccepted`, `TypeCorrect`, and `LedgerRefinement`:
  `Spec => ImplementsLedger`.

`IdentityInv` says that what was accepted is consistent, is in the prior state and, if
of one-time use, in the replay state, so that classes (a) to (c) compare a new bundle
with all of it, and step 3, 9 and 11 with itself. `VerdictInv` says of the last verdict
what the verifier established when it gave it: the later actions of the examiner do not
touch its bundle and what was supplied, and only add to the history. `HonestAccepted` shows
that no refusal, no step and no class can apply to an honest bundle while the examiner's
history is honest; what it turned away in between does not matter.

`ScenarioProofs` proves the four invariants of `Scenario` for any set of gates and any
number of runs. A file that parses lists exactly what passed, and while it is not
readable no run gets to the end (`ensurePriorState()` takes only a missing file for a fresh
start), so a passing bundle was compared with all that passed before. For the dispatch: a
command is sent only by a run that found no open intent, the intent stays open after
it, and a passing run counted one.

`WitnessProofs` proves the type invariant, `RecordedOnce` and `AnswerIsWitnessed` for any set of exchanges.
`Sound` says what is known at each place of the handler: before the flag nothing is
logged; between flag and append only its owner may log; and the listener raises the flag
only when the client is gone, which is why a handler that goes on without having
appended cannot tell a client of an answer that is not in the log.

`L2Proofs` proves, for any number of hooks, kills and times, the type invariant and what holds while no two
hooks meet in a critical section and none is killed midway: a stop that has run leaves the session closed
or being closed (`StopCloses`), a closed session stays (`ClosedStays`), and it
contains what the verifier looks for (`OrderlyIsWhole`: signed with the published key, one chain in
file order, a close record that counts it and names its ends, and under a steady clock lies
around it). `FilesInv` says that close.hex is there only when a closer made it and empty only
while it is about to write it; `ChainInv`, for each place of a hook, what it has read: the tip of the
chain, the ends of the log; `KeyInv`, that whoever is past its key holds the one in the file;
`WindowInv`, that the opening is before every receipt and none is after the clock. The last three need
each other: a recorder that finds no state may open the session only because there is no
receipt yet. It proves also what `verify.ts` concludes of the files:

* `L2IntactIsOneChain`, for hooks that race and are killed as they like. `ProvenanceInv` says that
  a receipt names as predecessor one that was in the file before it, with a smaller number, or none.
  So the walk of the verifier only goes forward in the file (`WalkForward`), and one that has as many
  receipts as the file, with one genesis and no two receipts alike, is the file in its order
  (`WalkIsFile`).
* `L2HonestSessionVerifies`, under `orderly` and `steady`: the other direction. In a file in order the
  walk finds every receipt (`OrderIsWalked`), so the chain passes (`OrderIsIntact`), signatures and
  window by `OrderlyIsWhole`, and what is left to decide the verdict is the limit.

`VerifierProofs` proves what a conformant verdict promises, for every corpus, every configuration
and every value of the limits: eleven of the twelve properties that `Verify` checks are theorems.
`Progress` is the inductive invariant: the steps before the present one have found nothing in
this bundle, and the verdict says what they computed. A conformant verdict therefore means that
the bundle is `Accepted` by all steps (`ConformantIsAccepted`); the rest is about the operators of
the steps, and combines several of them:

* `VerifierKeysUsedInLife`: steps 4, 6 and 8, each signature over the entries of the bundle;
* `VerifierPlaceHasOneReceipt`, `VerifierClosedEpochIsWhole`, `VerifierEpochsAreOneHistory`: steps 3,
  9, 14 and 15. For the last, what is between two manifests of an owner
  gets fewer from one to the next (`PrecedingIsPredecessor`), so the neighbours that step 14 compares make one chain;
* `VerifierJournaledBeforeDispatch` and `VerifierCrossEpochParentIsAnchored`: steps 10, 12, 13, 15
  and 17;
* `VerifierCompleteIsComplete` and `VerifierLimitsAreEarned`: steps 18 and 19;
* `VerifierDispatchIsAuthorized`: steps 7, 10, 12 and 13. `WalkInvariant` says what the walk of step 13 with
  its memo has established: a delegation in `done` was found linked to each of its parents, and they are
  in `done` or on the stack. When it ends, every delegation above the embedded one is linked to
  its own (`ChainHolds`); what is above is the least set that its parents do not leave
  (`ReachIsLeast`), and a link passes the attempt's action, target, purpose and time on to the
  parent (`LinkPermits`), so they are within all of them. The verifier never compares the attempt with one
  above the first;
* `VerifierProofsShowWhatTheyClaim`: the digest that a proof climbs with stays in the tree under the
  new one, so after n siblings the leaf is at most n levels below the root (`ClimbIsHeld`). For trees of
  receipts and entries n is bounded by the declared size, for the log it is not: `verifyRfc6962Inclusion()` goes on
  with siblings after it has reached the root of a tree of that size (`merkle.ts:101`). For the place of the leaf
  the invariant of the RFC climb is `LeafWithin`: the digest of a round is a tree of the leaves so far with the leaf
  at its place. A path that goes on too long ends at a tree of another size (`Longer`, `TreeOfFewer`), which no
  step rules out, hence the hypothesis `IsTree`: the log signed a tree of the size that it says. That of any log
  is one (`RfcRootIsATree`). No step compares a place with a size either. For a place past the last the climb of a
  promoted tree goes along its right end (`RightEnd`), and the property is about places within the size;
  entries of ranges carry their places in what they hash to, so their places need no hypothesis. The root of
  an index without entries is not checked;
* `InclusionIsOfTheLog`, `MembershipIsOfTheTree`: the same for the trees of any sequence of leaves: what
  `RfcRoot` and `PromotedRoot` compute has the leaves of the sequence at their places (`RfcRootPlaces`,
  `PromotedRootPlaces`), and a place has one leaf;
* `PromotedProofsVerify`: the loops of `promotedProof()`, `verifyPromotedProof()` and
  `expectedPromotedSiblings()` run over the same positions and widths, so in every round the digest of the
  verifier is the entry of the level at the position of the maker (`RiseFollows`), and what is left
  of the path is what is left to be made (`RestOfPath`);
* `ConsistencyIsAppendOnly`: that the older tree is a prefix of the newer one, from the next theorem's lemma, goes
  down to the leaves: the first leaves of a node are those of its parts (`DescentKeepsLeaves`);
* `VerifierGrownLogIsExtended`: the old tree of a consistency proof is a prefix of the new one.
  `Covered` is the invariant of the loop of `verifyRfc6962Consistency()`: after
  every digest, `fn` and `sn` are the places of the last leaves of the two trees, at the height
  where a node has w leaves, w a power of two, and the old digest is the prefix of the new one
  that ends with the old tree. A left sibling is added to both (`PrefixOfRight`), a right one
  only to the new (`PrefixOfLeft`), because nothing of the old tree is to the right. The property
  and the one on inclusion are about sizes below 2^31: `merkle.ts` shifts 32-bit integers, and a
  larger size would be truncated. The theorems on `RfcRoot` shift integers without that
  bound, and are about the source for logs within it.

The assumption is `CorpusAssumption`: a bundle is data of the form that the verifier's decoding
gives it. Sequences are finite, times are integers and sizes, places and counts are naturals where a field rule admits nothing
else, kinds and classes are of their enumerations, and two delegations with a name that recomputes
have the same content, because the name is the hash of it. TLC evaluates it for the whole corpus of
`Verify`. What is hostile in a bundle (a wrong name, a dangling reference, a
forged or contradicting statement, a wrong proof) is in no way excluded by it.

Several of these need induction over data: the rounds of a loop, the walk of a chain, the height
of a tree. The library's induction theorems take an operator for the hypothesis, which the provers cannot
instantiate; here the hypothesis is a set of numbers, and `Induction` and `Least`
(a non-empty set of naturals has a least element) are proved from the arithmetic of the
prover. A loop is a function of its rounds (`Loop`), its unfolding is shown once for each loop
(`DominanceRuns`, `ReachRuns`, `WalkRuns`, `SkipZerosRuns`, ...), and the invariant is the
set of the rounds at which it holds. Powers of two are the least set with one and doubling
(`Powers`).

Every invariant and action property of a passing run is a theorem, but for `DeclaredVerdicts`: it says of each
fixture what the harness declares for it, which is computed and not a fact about every corpus.
Only model-checked besides it are the temporal properties `RunsEnd` and `ExecutionIsWitnessed`, whose fairness is
beyond the prover. Not proved either is that a verdict is conformant where it should be: the theorems
about the verifier say what it accepts is right, and that it accepts what is right is shown by the
conformant fixtures of `DeclaredVerdicts`. A Merkle proof that `promotedProof()` makes is
proved to verify; that those of `rfc6962InclusionProof()` do is checked by TLC on the trees of the corpus only.

## Not modelled

The demo's EP processes run one at a time here; two at once on one invocation are
listed as a hazard, as are two scenario runs on one prior-state file. Of the proxy,
CONNECT, targets that are no absolute URL and short writes of its log are left out. Of the
verifier, the pins and the supplied state of its command line are left out, and the encoding
of what it reads and signs; of the fixtures, the replay and retained-epoch inputs (those cases
are in `RelyingParty`); of the kit, the operators on bytes, shrinking and the comparison of two
implementations. The scenario's assertions about the
content of receipts are nondeterministic failures (`OracleFails`). The demo's key files, CBOR, COSE and digests are data. pyref repeats the
harness's steps. Mocks, live runners, test vectors and
documents have no state to check. The file of the anchor log has one writer in the demo; two would
give two leaves the same index (`demo/anchor/log.ts:32` reads before it appends). vigil-control is the mediator and appears as
`Camera`.

## Plan

In this order:

1. done: journal, adapter, producer, abstract command, emitter; type correctness and
   the four safety theorems;
2. done: witness proxy and its log, with its safety theorems;
3. done: emission identity, history and retained evidence with all their theorems; scenario
   runner, prior state and oracle with theirs;
4. done: Merkle proofs, manifest index, epochs; the harness verifier's twenty steps over its own
   fixtures and the fuzz tool's mutants;
5. concurrent writers: two enforcement points on one invocation, two scenario runs on one file,
   two appends to the anchor log;
6. `loadRetained()`'s fold over the bundles against the pairwise definition of `Evidence`; pins
   and supplied state of the verifier's command line;
7. done: every property of `EpProducer` but `RunsEnd` as a theorem, the refinement among them;
   what an intact session means; every promise of a conformant verdict;
8. done: what a verified Merkle proof says of the leaves of a log, a batch or an index, and that the promoted
   proofs which the harness makes verify; open: that those of `rfc6962InclusionProof()` do, for logs of every size.

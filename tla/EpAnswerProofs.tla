---------------------------- MODULE EpAnswerProofs ----------------------------
(***************************************************************************)
(* Proofs about what the enforcement point says of a command: what its     *)
(* bundle claims is true of the device (AnswerInv); and with that, the     *)
(* whole of it implements the abstract command of OnceCommand.             *)
(***************************************************************************)
EXTENDS EpSafetyProofs

\* Where a run has not said yet what became of its command.
Undecided == {"idle", "request", "authorize", "branch", "commit", "journalRefusal",
              "intent", "baseline", "persist", "send", "await", "readback", "poll"}

\* An outcome is decided once; a resumed run never learns one.
OutcomeInv ==
    /\ pc \in Undecided => run.outcome = "none" /\ ~run.resumed
    /\ pc \notin Undecided => run.outcome # "none"
    /\ pc = "refuse" => run.outcome = "refused"
    /\ run.resumed => run.outcome = "unknown"
    /\ pc \in {"readback", "poll"} => cur \in Ptz

\* A success that was heard of, and what is concluded from it, is the
\* device's; an acknowledged move that is about to be reported was undone.
ExecutedInv ==
    /\ pc = "await" /\ reply = "ok" => execs[cur] = 1
    /\ pc = "poll" => execs[cur] = 1
    /\ run.outcome = "device_acknowledged" =>
          /\ execs[cur] = 1
          /\ cur \in Ptz /\ pc \in {"observe", "emit", "emitted"} => run.verified
    /\ AcknowledgedIsDone

\* Behind the mediator, an answer that is not the mediator's is the device's.
AnsweredInv ==
    ~Vapix =>
        /\ pc = "await" /\ reply \in {"ok", "error", "unauth"} => cur \in answered
        /\ run.outcome = "contradicted" /\ cur \notin Ptz => cur \in answered
        /\ ContradictedIsObserved

AnswerInv == OutcomeInv /\ ExecutedInv /\ AnsweredInv

-----------------------------------------------------------------------------
(* The steps. *)

\* The device takes nothing back, and what the client hears from it is about
\* the request it waits for.
LEMMA EnvironmentAnswers ==
    ASSUME CameraTypeOK, NetworkInv, CameraNext
    PROVE  /\ \A i \in Inv : execs[i] = 1 => execs'[i] = 1
           /\ answered \subseteq answered'
           /\ reply' # reply /\ reply' \in {"ok", "error", "unauth"} =>
                 \E r \in net :
                     /\ r.n = sent
                     /\ r.op = "command" =>
                           r.inv \in answered' /\ (reply' = "ok" => execs'[r.inv] = 1)
<1>0. /\ execs \in [Inv -> Nat] /\ net \subseteq Requests
      /\ \A i \in Inv : InFlight(i) => execs[i] = 0
    BY DEF CameraTypeOK, NetworkInv
<1>1. CASE DeviceExecutes
    <2>1. PICK r \in net :
              /\ execs' = IF r.op = "command" THEN [execs EXCEPT ![r.inv] = @ + 1]
                          ELSE execs
              /\ DeviceAnswered(r)
              /\ \E a \in {"ok", "error", "gateway"} : Answer(r, a)
        BY <1>1 DEF DeviceExecutes
    <2>2. r.inv \in Inv
        BY <1>0 DEF Requests
    <2>3. r.op = "command" => execs[r.inv] = 0 /\ execs'[r.inv] = 1
        BY <1>0, <2>1, <2>2 DEF InFlight
    <2>4. \A i \in Inv : execs[i] = 1 => execs'[i] = 1
        BY <1>0, <2>1, <2>2, <2>3
    <2>5. answered \subseteq answered' /\ (r.op = "command" => r.inv \in answered')
        BY <2>1 DEF DeviceAnswered
    <2>. QED
        BY <2>1, <2>3, <2>4, <2>5 DEF Answer
<1>2. CASE DeviceRejects
    BY <1>2 DEF DeviceRejects, DeviceAnswered, Answer
<1>3. CASE NetworkLoses \/ CameraSettles
    BY <1>3 DEF NetworkLoses, CameraSettles, Answer
<1>. QED
    BY <1>1, <1>2, <1>3 DEF CameraNext

\* A step of the process leaves the device's record alone; what it has to
\* show is about its own place.
LEMMA ProcessAnswers ==
    ASSUME UNCHANGED <<execs, answered, report>>, AnswerInv, OutcomeInv',
           pc' = "await" /\ reply' = "ok" => execs[cur'] = 1,
           pc' = "poll" => execs[cur'] = 1,
           run'.outcome = "device_acknowledged" =>
               /\ execs[cur'] = 1
               /\ cur' \in Ptz /\ pc' \in {"observe", "emit", "emitted"} => run'.verified,
           ~Vapix =>
               /\ pc' = "await" /\ reply' \in {"ok", "error", "unauth"} => cur' \in answered
               /\ run'.outcome = "contradicted" /\ cur' \notin Ptz => cur' \in answered
    PROVE  AnswerInv'
BY DEF AnswerInv, ExecutedInv, AnsweredInv, AcknowledgedIsDone, ContradictedIsObserved

\* A run that ends forgets what it concluded.
LEMMA AbortAnswers ==
    ASSUME Abort, UNCHANGED report, AnswerInv
    PROVE  AnswerInv'
BY ProcessAnswers DEF Abort, FreshRun, OutcomeInv, Undecided

LEMMA AdapterAnswers ==
    ASSUME TypeOK, CommandInv, AnswerInv, AdapterStep, UNCHANGED report
    PROVE  AnswerInv'
<1>0. /\ cur \in Inv /\ run \in Run /\ OutcomeInv /\ ExecutedInv /\ AnsweredInv
      /\ UNCHANGED <<execs, answered>>
    <2>1. UNCHANGED <<execs, answered>>
        BY DEF AdapterStep, ReadBaseline, PersistRecovery, SendCommand, CommandTimesOut,
               CommandAccepted, CommandRejected, CommandUnauthorized, CommandFailed,
               NotDispatched, ReadAfterRejection, PollMatches, PollMisses, PollExpires,
               PollFails, SendRestore, RestoreAccepted, RestoreRepairsNonce, RestoreFails,
               VerifyMatches, VerifyExpires, RestoreUnverified, Transmit, StopWaiting,
               Abort, cameraVars
    <2>. QED
        BY <2>1 DEF TypeOK, AnswerInv
<1>. USE <1>0 DEF Undecided
<1>1. ASSUME NEW p \in {"persist", "await", "readback", "poll"}, NEW r, Goto(p, r),
             pc \in Undecided, r.outcome = run.outcome, r.resumed = run.resumed,
             p \in {"readback", "poll"} => cur \in Ptz,
             p = "poll" => execs[cur] = 1,
             p = "await" => reply' = "pending"
      PROVE  AnswerInv'
    BY <1>1, ProcessAnswers DEF Goto, OutcomeInv
<1>2. ASSUME NEW o \in Levels, Conclude(o), pc \in Undecided,
             o = "device_acknowledged" => execs[cur] = 1,
             o = "contradicted" /\ cur \notin Ptz /\ ~Vapix => cur \in answered
      PROVE  AnswerInv'
    <2>1. /\ cur' = cur
          /\ pc' \in {"restore", "observe"} /\ (cur \in Ptz => pc' = "restore")
          /\ run'.outcome = o /\ ~run'.resumed
        BY <1>2 DEF Conclude, Goto, Run, OutcomeInv
    <2>2. OutcomeInv'
        BY <2>1 DEF OutcomeInv, Levels
    <2>. QED
        BY <1>2, <2>1, <2>2, ProcessAnswers
<1>3. ASSUME NotDispatched, pc \in Undecided
      PROVE  AnswerInv'
    <2>1. CASE Abort
        BY <2>1, AbortAnswers DEF AnswerInv
    <2>2. CASE /\ pc' = "refuse" /\ cur' = cur
               /\ run' = [run EXCEPT !.outcome = "refused"]
        BY <1>3, <2>2, ProcessAnswers DEF OutcomeInv, Run
    <2>. QED
        BY <1>3, <2>1, <2>2 DEF NotDispatched
<1>4. ASSUME pc = "await", reply \in {"error", "gateway", "unauth"}, CommandFailed
      PROVE  AnswerInv'
    <2>1. ~Vapix /\ StreamFailure(reply) = "contradicted" => cur \in answered
        BY <1>4 DEF StreamFailure, AnsweredInv
    <2>2. StreamFailure(reply) \in Levels \ {"device_acknowledged"}
        BY DEF StreamFailure, Levels
    <2>. QED
        BY <1>1, <1>2, <1>4, <2>1, <2>2 DEF CommandFailed
<1>5. ASSUME NEW v \in BOOLEAN, RestoreDone(v), pc \in {"restore", "awaitRestore", "verify"}
      PROVE  AnswerInv'
    <2>1. /\ cur' = cur /\ pc' \in {"emit", "observe"} /\ run'.resumed = run.resumed
          /\ run'.verified = v
          /\ \/ run'.outcome = run.outcome /\ (v \/ run.outcome # "device_acknowledged")
             \/ run'.outcome = "unknown"
        BY <1>5 DEF RestoreDone, Run
    <2>2. OutcomeInv'
        BY <1>5, <2>1 DEF OutcomeInv
    <2>. QED
        BY <2>1, <2>2, ProcessAnswers DEF ExecutedInv, AnsweredInv
<1>6. ASSUME NEW p \in {"restore", "awaitRestore", "verify"}, NEW r, Goto(p, r),
             pc \in {"restore", "awaitRestore", "verify"},
             r.outcome = run.outcome, r.resumed = run.resumed
      PROVE  AnswerInv'
    <2>1. OutcomeInv'
        BY <1>6 DEF Goto, OutcomeInv
    <2>. QED
        BY <1>6, <2>1, ProcessAnswers DEF Goto, ExecutedInv, AnsweredInv
<1>7. CASE ReadBaseline
    <2>1. CASE Goto("persist", [run EXCEPT !.baseline = pos])
        <3>1. /\ [run EXCEPT !.baseline = pos].outcome = run.outcome
              /\ [run EXCEPT !.baseline = pos].resumed = run.resumed
            BY DEF Run
        <3>. QED
            BY <1>1, <1>7, <2>1, <3>1 DEF ReadBaseline
    <2>2. CASE Goto("refuse", [run EXCEPT !.outcome = "refused"])
        BY <1>7, <2>2, ProcessAnswers DEF ReadBaseline, Goto, OutcomeInv, Run
    <2>. QED
        BY <1>7, <2>1, <2>2 DEF ReadBaseline
<1>8. CASE PersistRecovery
    <2>1. CASE pc' = "send" /\ UNCHANGED <<cur, run>>
        BY <1>8, <2>1, ProcessAnswers DEF PersistRecovery, OutcomeInv
    <2>. QED
        BY <1>8, <2>1, AbortAnswers DEF PersistRecovery
<1>9. CASE SendCommand
    BY <1>1, <1>3, <1>9 DEF SendCommand, Transmit
<1>10. CASE CommandTimesOut
    BY <1>2, <1>10 DEF CommandTimesOut, Levels
<1>11. CASE CommandAccepted
    <2>1. execs[cur] = 1 /\ (~Vapix => cur \in answered)
        BY <1>11 DEF CommandAccepted, ExecutedInv, AnsweredInv
    <2>2. /\ [run EXCEPT !.last = None].outcome = run.outcome
          /\ [run EXCEPT !.last = None].resumed = run.resumed
        BY DEF Run
    <2>. QED
        BY <1>1, <1>2, <1>11, <2>1, <2>2 DEF CommandAccepted, Levels
<1>12. CASE CommandRejected
    BY <1>4, <1>12 DEF CommandRejected
<1>13. CASE CommandUnauthorized
    <2>1. /\ [run EXCEPT !.resent = TRUE].outcome = run.outcome
          /\ [run EXCEPT !.resent = TRUE].resumed = run.resumed
        BY DEF Run
    <2>. QED
        BY <1>1, <1>3, <1>4, <1>13, <2>1 DEF CommandUnauthorized, Transmit
<1>14. CASE ReadAfterRejection
    BY <1>2, <1>14 DEF ReadAfterRejection, Levels, OutcomeInv
<1>15. CASE PollMatches \/ PollExpires \/ PollFails
    BY <1>2, <1>15
    DEF PollMatches, PollExpires, PollFails, Levels, OutcomeInv, ExecutedInv
<1>16. CASE PollMisses
    <2>1. PICK p \in Readback : Goto("poll", [run EXCEPT !.last = p])
        BY <1>16 DEF PollMisses
    <2>2. /\ [run EXCEPT !.last = p].outcome = run.outcome
          /\ [run EXCEPT !.last = p].resumed = run.resumed
        BY DEF Run
    <2>. QED
        BY <1>1, <1>16, <2>1, <2>2 DEF PollMisses, OutcomeInv, ExecutedInv
<1>17. CASE SendRestore
    BY <1>5, <1>6, <1>17 DEF SendRestore, RestoreUnverified
<1>18. CASE RestoreAccepted
    BY <1>6, <1>18 DEF RestoreAccepted
<1>19. CASE RestoreRepairsNonce
    <2>1. /\ [run EXCEPT !.resent = TRUE].outcome = run.outcome
          /\ [run EXCEPT !.resent = TRUE].resumed = run.resumed
        BY DEF Run
    <2>. QED
        BY <1>6, <1>19, <2>1 DEF RestoreRepairsNonce
<1>20. CASE RestoreFails \/ VerifyExpires
    BY <1>5, <1>20 DEF RestoreFails, VerifyExpires, RestoreUnverified
<1>21. CASE VerifyMatches
    BY <1>5, <1>21, AbortAnswers DEF VerifyMatches
<1>. QED
    BY <1>7, <1>8, <1>9, <1>10, <1>11, <1>12, <1>13, <1>14, <1>15, <1>16, <1>17,
       <1>18, <1>19, <1>20, <1>21 DEF AdapterStep

LEMMA InitAnswers == Init => AnswerInv
BY DEF Init, CameraInit, FreshRun, NoReport, AnswerInv, OutcomeInv, Undecided,
       ExecutedInv, AnsweredInv, AcknowledgedIsDone, ContradictedIsObserved

\* A step of produce() itself: the device is not involved, and the run keeps
\* its outcome.
LEMMA ProducerAnswers ==
    ASSUME AnswerInv, UNCHANGED <<execs, answered, report, cur, run>>,
           \/ pc \in Undecided /\ pc' \in Undecided \ {"await", "readback", "poll"}
           \/ pc \in {"observe", "refuse", "emit"} /\ pc' \in {"emit", "emitted"}
    PROVE  AnswerInv'
BY DEF AnswerInv, OutcomeInv, ExecutedInv, AnsweredInv, AcknowledgedIsDone,
       ContradictedIsObserved, Undecided

LEMMA NextAnswers ==
    ASSUME TypeOK, CommandInv, AnswerInv, [Next]_vars
    PROVE  AnswerInv'
<1>0. /\ cur \in Inv /\ run \in Run /\ NetworkInv /\ NetworkInv' /\ ProcessInv
      /\ OutcomeInv /\ ExecutedInv /\ AnsweredInv /\ CameraTypeOK
      /\ report \in [Inv -> Reports]
    BY NextKeeps DEF TypeOK, CommandInv, AnswerInv
<1>. USE <1>0 DEF Undecided
<1>1. ASSUME NEW e, NEW p, RecordOrAbort(e, p), UNCHANGED report,
             \/ pc \in Undecided /\ p \in Undecided \ {"await", "readback", "poll"}
             \/ pc \in {"observe", "refuse", "emit"} /\ p \in {"emit", "emitted"}
      PROVE  AnswerInv'
    BY <1>1, AbortAnswers, ProducerAnswers DEF RecordOrAbort, cameraVars
<1>2. ASSUME pc \in Undecided, Goto("emit", [run EXCEPT !.outcome = "refused"]),
             UNCHANGED <<cameraVars, report>>
      PROVE  AnswerInv'
    <2>1. OutcomeInv'
        BY <1>2 DEF Goto, OutcomeInv, Run
    <2>. QED
        BY <1>2, <2>1, ProcessAnswers DEF Goto, Run, cameraVars
<1>3. ASSUME NEW i \in Inv, Start(i) PROVE AnswerInv'
    <2>1. OutcomeInv'
        BY <1>3 DEF Start, OutcomeInv
    <2>. QED
        BY <1>3, <2>1, ProcessAnswers DEF Start, OutcomeInv, cameraVars
<1>4. CASE RecordRequest \/ RecordAuthorization
    BY <1>1, <1>4 DEF RecordRequest, RecordAuthorization
<1>5. CASE RefuseUnauthorized
    BY <1>2, <1>5, AbortAnswers DEF RefuseUnauthorized
<1>6. CASE Branch
    <2>1. CASE Reconcile
        <3>1. /\ cur' = cur /\ pc' \in {"restore", "emit"}
              /\ run'.outcome = "unknown"
            BY <2>1 DEF Reconcile, Goto, Run
        <3>2. OutcomeInv'
            BY <3>1 DEF OutcomeInv
        <3>. QED
            BY <1>6, <2>1, <3>1, <3>2, ProcessAnswers DEF Branch, Reconcile, cameraVars
    <2>2. CASE Goto("commit", run) /\ UNCHANGED cameraVars
        BY <1>6, <2>2, ProducerAnswers DEF Branch, Goto, cameraVars
    <2>. QED
        BY <1>6, <2>1, <2>2, AbortAnswers DEF Branch
<1>7. CASE CommitAttempt
    BY <1>7, ProducerAnswers DEF CommitAttempt, Goto, cameraVars
<1>8. CASE RecordJournalRefusal
    BY <1>2, <1>8 DEF RecordJournalRefusal
<1>9. CASE RecordIntent
    BY <1>1, <1>9 DEF RecordIntent, DispatchEntry
<1>10. CASE Dispatch
    BY <1>10, AdapterAnswers DEF Dispatch
<1>11. CASE RecordDispatch \/ RecordRefusal
    BY <1>1, <1>11 DEF RecordDispatch, RecordRefusal
<1>12. CASE EmitBundle
    <2>1. CASE Abort /\ UNCHANGED report
        BY <2>1, AbortAnswers
    <2>2. ASSUME report' = [report EXCEPT ![cur] =
                                [level |-> run.outcome, restored |-> run.verified]],
                 UNCHANGED <<execs, answered>>
          PROVE  AcknowledgedIsDone' /\ (~Vapix => ContradictedIsObserved')
        BY <1>12, <2>2
        DEF EmitBundle, ExecutedInv, AnsweredInv, AcknowledgedIsDone,
            ContradictedIsObserved
    <2>3. ASSUME Abort, AcknowledgedIsDone' /\ (~Vapix => ContradictedIsObserved')
          PROVE  AnswerInv'
        BY <2>3 DEF Abort, FreshRun, AnswerInv, OutcomeInv, ExecutedInv, AnsweredInv
    <2>4. ASSUME pc' = "emitted", UNCHANGED <<cur, run, cameraVars>>,
                 AcknowledgedIsDone' /\ (~Vapix => ContradictedIsObserved')
          PROVE  AnswerInv'
        BY <1>12, <2>4
        DEF EmitBundle, cameraVars, AnswerInv, OutcomeInv, ExecutedInv, AnsweredInv
    <2>. QED
        BY <1>12, <2>1, <2>2, <2>3, <2>4 DEF EmitBundle, Abort, cameraVars
<1>13. CASE RecordBundle \/ Crash
    BY <1>13, AbortAnswers DEF RecordBundle, Crash
<1>14. CASE Environment
    <2>1. UNCHANGED <<pc, cur, run, report>>
        BY <1>14 DEF Environment, adapterVars
    <2>2. /\ \A i \in Inv : execs[i] = 1 => execs'[i] = 1
          /\ answered \subseteq answered'
          /\ reply' # reply /\ reply' \in {"ok", "error", "unauth"} =>
                \E r \in net :
                    /\ r.n = sent
                    /\ r.op = "command" =>
                          r.inv \in answered' /\ (reply' = "ok" => execs'[r.inv] = 1)
        BY <1>14, EnvironmentAnswers DEF Environment
    <2>3. pc = "await" /\ reply' # reply /\ reply' \in {"ok", "error", "unauth"} =>
              cur \in answered' /\ (reply' = "ok" => execs'[cur] = 1)
        BY <2>2 DEF ProcessInv
    <2>4. OutcomeInv'
        BY <2>1 DEF OutcomeInv
    <2>5. ExecutedInv'
        BY <2>1, <2>2, <2>3 DEF ExecutedInv, AcknowledgedIsDone
    <2>6. AnsweredInv'
        BY <2>1, <2>2, <2>3 DEF AnsweredInv, ContradictedIsObserved
    <2>. QED
        BY <2>4, <2>5, <2>6 DEF AnswerInv
<1>15. CASE UNCHANGED vars
    BY <1>15
    DEF vars, cameraVars, adapterVars, AnswerInv, OutcomeInv, ExecutedInv, AnsweredInv,
        AcknowledgedIsDone, ContradictedIsObserved
<1>. QED
    BY <1>3, <1>4, <1>5, <1>6, <1>7, <1>8, <1>9, <1>10, <1>11, <1>12, <1>13, <1>14,
       <1>15 DEF Next, EpStep

\* The inductive invariant behind what a bundle says.
THEOREM EpAnswerInv == Spec => [](TypeOK /\ CommandInv /\ AnswerInv)
<1>1. Init => AnswerInv
    BY InitAnswers
<1>2. TypeOK /\ CommandInv /\ AnswerInv /\ [Next]_vars => AnswerInv'
    BY NextAnswers
<1>. QED
    BY <1>1, <1>2, EpCommandInv, PTL DEF Spec

\* A bundle that says device_acknowledged is true, whichever adapter, path,
\* crash or rerun it comes from: the device executed the command once, and a
\* camera move was undone and its undoing read back.
THEOREM EpAcknowledgedIsDone == Spec => []AcknowledgedIsDone
<1>1. AnswerInv => AcknowledgedIsDone
    BY DEF AnswerInv, ExecutedInv
<1>. QED
    BY <1>1, EpAnswerInv, PTL

\* Behind the mediator (adapters/vms) a stream view that is reported
\* contradicted was answered by the device; adapters/vapix does not keep this.
THEOREM EpContradictedIsObserved == ~Vapix => (Spec => []ContradictedIsObserved)
<1>1. SUFFICES ASSUME ~Vapix
      PROVE  Spec => []ContradictedIsObserved
    OBVIOUS
<1>2. AnswerInv => ContradictedIsObserved
    BY <1>1 DEF AnswerInv, AnsweredInv
<1>. QED
    BY <1>2, EpAnswerInv, PTL

-----------------------------------------------------------------------------
(***************************************************************************)
(* The refinement: under the mapping of EpProducer (Armed, execs and the   *)
(* level of the last bundle) every step of the enforcement point is a step *)
(* of OnceCommand, or none.                                                *)
(***************************************************************************)
AbstractLevel == [i \in Inv |-> report[i].level]

OnceStep == [Once!OnceNext]_(Once!onceVars)

-----------------------------------------------------------------------------
(* What an abstract step looks like from below. *)

\* Only whether cur is armed may change, and it is armed only if it has not
\* taken effect.
LEMMA ArmsOrDisarms ==
    ASSUME cur \in Inv, UNCHANGED <<execs, AbstractLevel>>,
           \A j \in Inv : j # cur => (j \in Armed' <=> j \in Armed),
           cur \in Armed' => cur \in Armed \/ execs[cur] = 0
    PROVE  OnceStep
<1>0. Armed \subseteq Inv /\ Armed' \subseteq Inv
    BY DEF Armed
<1>1. CASE (cur \in Armed') <=> (cur \in Armed)
    <2>1. Armed' = Armed
        BY <1>0, <1>1
    <2>. QED
        BY <2>1 DEF OnceStep, Once!onceVars, AbstractLevel
<1>2. CASE cur \in Armed' /\ cur \notin Armed
    <2>1. Armed' = Armed \cup {cur} /\ execs[cur] = 0
        BY <1>0, <1>2
    <2>. QED
        BY <2>1 DEF OnceStep, Once!OnceNext, Once!Arm, AbstractLevel
<1>3. CASE cur \notin Armed' /\ cur \in Armed
    <2>1. Armed' = Armed \ {cur}
        BY <1>0, <1>3
    <2>. QED
        BY <2>1 DEF OnceStep, Once!OnceNext, Once!Disarm, AbstractLevel
<1>. QED
    BY <1>1, <1>2, <1>3

\* A step of the process that sends no command: nothing is put on the wire,
\* and no run but the current one is concerned.
LEMMA ProcessStep ==
    ASSUME cur \in Inv, UNCHANGED <<cur, execs, report>>,
           \A j \in Inv : InFlight(j)' <=> InFlight(j),
           Dispatching(cur)' => cur \in Armed \/ execs[cur] = 0
    PROVE  OnceStep
<1>1. UNCHANGED AbstractLevel
    BY DEF AbstractLevel
<1>2. \A j \in Inv : j # cur => (j \in Armed' <=> j \in Armed)
    BY DEF Armed, Dispatching
<1>3. cur \in Armed' => cur \in Armed \/ execs[cur] = 0
    BY DEF Armed
<1>. QED
    BY <1>1, <1>2, <1>3, ArmsOrDisarms

LEMMA AbortStep ==
    ASSUME cur \in Inv, Abort, UNCHANGED report
    PROVE  OnceStep
<1>1. ~Dispatching(cur)'
    BY DEF Abort, Dispatching, AdapterPhases
<1>. QED
    BY <1>1, ProcessStep DEF Abort, InFlight

LEMMA AdapterRefines ==
    ASSUME TypeOK, CommandInv, AnswerInv, AdapterStep, UNCHANGED report
    PROVE  OnceStep
<1>0. /\ cur \in Inv /\ run \in Run /\ pc \in AdapterPhases /\ cur' = cur /\ execs' = execs
    BY DEF TypeOK, AdapterStep, ReadBaseline, PersistRecovery, SendCommand,
           CommandTimesOut, CommandAccepted, CommandRejected, CommandUnauthorized,
           CommandFailed, NotDispatched, ReadAfterRejection, PollMatches, PollMisses,
           PollExpires, PollFails, SendRestore, RestoreAccepted, RestoreRepairsNonce,
           RestoreFails, VerifyMatches, VerifyExpires, RestoreUnverified, RestoreDone,
           Transmit, StopWaiting, Abort, Goto, Conclude, cameraVars, AdapterPhases
<1>1. CASE run.resumed
    <2>1. pc \in {"restore", "awaitRestore", "verify"}
        BY <1>0, <1>1 DEF AnswerInv, OutcomeInv, Undecided, AdapterPhases
    <2>2. ~Dispatching(cur)'
        BY <1>0, <1>1, <2>1
        DEF Dispatching, AdapterPhases, AdapterStep, ReadBaseline, PersistRecovery,
            SendCommand, CommandTimesOut, CommandAccepted, CommandRejected,
            CommandUnauthorized, ReadAfterRejection, PollMatches, PollMisses, PollExpires,
            PollFails, SendRestore, RestoreAccepted, RestoreRepairsNonce, RestoreFails,
            VerifyMatches, VerifyExpires, RestoreUnverified, RestoreDone, Abort, Goto, Run
    <2>3. UNCHANGED net \/ \E to : Transmit(cur, "restore", to)
        BY <2>1
        DEF AdapterStep, ReadBaseline, PersistRecovery, SendCommand,
            CommandTimesOut, CommandAccepted, CommandRejected, CommandUnauthorized,
            ReadAfterRejection, PollMatches, PollMisses, PollExpires, PollFails,
            SendRestore, RestoreAccepted, RestoreRepairsNonce, RestoreFails,
            VerifyMatches, VerifyExpires, StopWaiting, Abort, cameraVars
    <2>4. \A j \in Inv : InFlight(j)' <=> InFlight(j)
        BY <2>3 DEF Transmit, InFlight
    <2>. QED
        BY <1>0, <2>2, <2>4, ProcessStep
<1>2. CASE ~run.resumed
    <2>1. cur \in Armed
        BY <1>0, <1>2 DEF Armed, Dispatching
    <2>2. ASSUME NEW op, NEW to, Transmit(cur, op, to)
          PROVE  \A j \in Inv : j # cur => (InFlight(j)' <=> InFlight(j))
        BY <2>2 DEF Transmit, InFlight
    <2>3. ASSUME UNCHANGED net
          PROVE  \A j \in Inv : InFlight(j)' <=> InFlight(j)
        BY <2>3 DEF InFlight
    <2>4. UNCHANGED net \/ \E op, to : Transmit(cur, op, to)
        BY DEF AdapterStep, ReadBaseline, PersistRecovery, SendCommand, CommandTimesOut,
               CommandAccepted, CommandRejected, CommandUnauthorized, CommandFailed,
               NotDispatched, ReadAfterRejection, PollMatches, PollMisses, PollExpires,
               PollFails, SendRestore, RestoreAccepted, RestoreRepairsNonce,
               RestoreFails, VerifyMatches, VerifyExpires, RestoreUnverified,
               StopWaiting, Abort, cameraVars
    <2>5. \A j \in Inv : j # cur => (j \in Armed' <=> j \in Armed)
        BY <1>0, <2>2, <2>3, <2>4 DEF Armed, Dispatching
    <2>. QED
        BY <1>0, <2>1, <2>5, ArmsOrDisarms DEF AbstractLevel
<1>. QED
    BY <1>1, <1>2

\* The device takes up a command, or drops it; the path loses it.
LEMMA EnvironmentRefines ==
    ASSUME TypeOK, CommandInv, Environment
    PROVE  OnceStep
<1>0. /\ execs \in [Inv -> Nat] /\ net \subseteq Requests /\ CameraNext
      /\ \A i \in Inv : InFlight(i) => execs[i] = 0
      /\ UNCHANGED <<pc, cur, run, report>> /\ UNCHANGED AbstractLevel
      /\ \A i \in Inv : Dispatching(i)' <=> Dispatching(i)
    BY DEF TypeOK, CameraTypeOK, CommandInv, NetworkInv, Environment, adapterVars,
           AbstractLevel, Dispatching
<1>1. ASSUME NEW r \in net, net' = net \ {r}
      PROVE  /\ r.inv \in Inv
             /\ Armed' \in {Armed, Armed \ {r.inv}}
    <2>1. r.inv \in Inv
        BY <1>0 DEF Requests
    <2>2. \A i \in Inv : i # r.inv => (InFlight(i)' <=> InFlight(i))
        BY <1>1 DEF InFlight
    <2>3. InFlight(r.inv)' => InFlight(r.inv)
        BY <1>1 DEF InFlight
    <2>4. Armed' \subseteq Armed /\ Armed \ {r.inv} \subseteq Armed'
        BY <1>0, <2>1, <2>2, <2>3 DEF Armed
    <2>. QED
        BY <2>1, <2>4
<1>2. CASE DeviceExecutes
    <2>1. PICK r \in net :
              /\ net' = net \ {r}
              /\ execs' = IF r.op = "command" THEN [execs EXCEPT ![r.inv] = @ + 1]
                          ELSE execs
        BY <1>2 DEF DeviceExecutes
    <2>2. r.inv \in Inv /\ Armed' \in {Armed, Armed \ {r.inv}}
        BY <1>1, <2>1
    <2>3. CASE r.op = "command"
        <3>1. InFlight(r.inv)
            BY <2>3 DEF InFlight
        <3>2. r.inv \in Armed /\ execs[r.inv] = 0
            BY <1>0, <2>2, <3>1 DEF Armed
        <3>3. execs' = [execs EXCEPT ![r.inv] = 1]
            BY <1>0, <2>1, <2>2, <2>3, <3>2
        <3>. QED
            BY <1>0, <2>2, <3>2, <3>3
            DEF OnceStep, Once!OnceNext, Once!TakeEffect, AbstractLevel
    <2>4. CASE r.op # "command"
        BY <1>0, <2>1, <2>2, <2>4
        DEF OnceStep, Once!OnceNext, Once!Disarm, Once!onceVars, AbstractLevel
    <2>. QED
        BY <2>3, <2>4
<1>3. CASE DeviceRejects \/ NetworkLoses
    <2>1. PICK r \in net : net' = net \ {r} /\ execs' = execs
        BY <1>3 DEF DeviceRejects, NetworkLoses
    <2>2. r.inv \in Inv /\ Armed' \in {Armed, Armed \ {r.inv}}
        BY <1>1, <2>1
    <2>. QED
        BY <1>0, <2>1, <2>2
        DEF OnceStep, Once!OnceNext, Once!Disarm, Once!onceVars, AbstractLevel
<1>4. CASE CameraSettles
    <2>1. Armed' = Armed /\ execs' = execs
        BY <1>0, <1>4 DEF CameraSettles, Armed, InFlight
    <2>. QED
        BY <1>0, <2>1 DEF OnceStep, Once!onceVars, AbstractLevel
<1>. QED
    BY <1>0, <1>2, <1>3, <1>4 DEF CameraNext

\* A bundle is written: it may be said.
LEMMA EmitRefines ==
    ASSUME TypeOK, CommandInv, AnswerInv, EmitBundle
    PROVE  OnceStep
<1>0. /\ cur \in Inv /\ run \in Run /\ report \in [Inv -> Reports]
      /\ pc = "emit" /\ execs' = execs /\ cur' = cur /\ net' = net
      /\ RefusalIsHonest /\ OutcomeInv /\ ExecutedInv
    BY DEF TypeOK, CommandInv, AnswerInv, EmitBundle, Abort, cameraVars
<1>1. \A j \in Inv : InFlight(j)' <=> InFlight(j)
    BY <1>0 DEF InFlight
<1>2. CASE report' = report
    <2>1. Dispatching(cur)' => cur \in Armed
        BY <1>0, <1>2 DEF EmitBundle, Abort, Dispatching, Armed, AdapterPhases
    <2>. QED
        BY <1>0, <1>1, <1>2, <2>1, ProcessStep
<1>3. CASE report' = [report EXCEPT ![cur] =
                          [level |-> run.outcome, restored |-> run.verified]]
    <2>1. AbstractLevel' = [AbstractLevel EXCEPT ![cur] = run.outcome]
        BY <1>0, <1>3 DEF AbstractLevel
    <2>2. Dispatching(cur)' => Dispatching(cur)
        BY <1>0 DEF EmitBundle, Abort, Dispatching, AdapterPhases
    <2>3. \A j \in Inv : j # cur => (j \in Armed' <=> j \in Armed)
        BY <1>0, <1>1 DEF Armed, Dispatching
    <2>4. cur \in Armed' => cur \in Armed
        BY <1>0, <1>1, <2>2 DEF Armed, Dispatching
    <2>5. Armed' \subseteq Inv /\ Armed \subseteq Inv
        BY DEF Armed
    <2>6. Armed' \in {Armed, Armed \ {cur}}
        BY <2>3, <2>4, <2>5
    <2>7. run.outcome \in {"refused", "device_acknowledged", "contradicted", "unknown"}
        BY <1>0 DEF Run, Levels, OutcomeInv, Undecided
    <2>8. run.outcome = "refused" => execs[cur] = 0 /\ cur \notin Armed
        BY <1>0 DEF RefusalIsHonest, Armed, Dispatching, AdapterPhases
    <2>9. run.outcome = "device_acknowledged" => execs[cur] = 1
        BY <1>0 DEF ExecutedInv
    <2>10. run.outcome = "contradicted" => cur \in Armed
        BY <1>0 DEF OutcomeInv, Armed, Dispatching
    <2>11. Once!Allowed(cur, run.outcome)
        BY <2>7, <2>8, <2>9, <2>10 DEF Once!Allowed
    <2>12. Once!Report(cur, run.outcome)
        BY <1>0, <2>1, <2>6, <2>11 DEF Once!Report, AbstractLevel
    <2>. QED
        BY <1>0, <2>7, <2>12
        DEF OnceStep, Once!OnceNext, Once!Report, Once!Allowed
<1>. QED
    BY <1>2, <1>3 DEF EmitBundle

LEMMA InitRefines == Init => Once!OnceInit
<1>1. Init => Armed = {}
    BY DEF Init, CameraInit, Armed, InFlight, Dispatching, AdapterPhases
<1>. QED
    BY <1>1 DEF Init, CameraInit, NoReport, Once!OnceInit

LEMMA NextRefines ==
    ASSUME TypeOK, CommandInv, AnswerInv, [Next]_vars
    PROVE  OnceStep
<1>0. cur \in Inv /\ run \in Run /\ ProcessInv /\ OutcomeInv
    BY DEF TypeOK, CommandInv, AnswerInv
<1>1. ASSUME UNCHANGED <<cur, net, execs, report>>,
             Dispatching(cur)' => Dispatching(cur) \/ execs[cur] = 0
      PROVE  OnceStep
    BY <1>0, <1>1, ProcessStep DEF InFlight, Armed
<1>2. ASSUME NEW i \in Inv, Start(i)
      PROVE  OnceStep
    <2>1. Armed' = Armed /\ UNCHANGED <<execs, report>>
        BY <1>2 DEF Start, cameraVars, Armed, InFlight, Dispatching, AdapterPhases
    <2>. QED
        BY <2>1 DEF OnceStep, Once!onceVars
<1>3. ASSUME NEW e, NEW p, RecordOrAbort(e, p), UNCHANGED report,
             \/ p \notin AdapterPhases \cup {"observe", "emit", "emitted"}
             \/ pc = "intent"
             \/ pc = "observe"
             \/ p = "emit" /\ pc = "refuse"
      PROVE  OnceStep
    <2>1. CASE Abort
        BY <1>0, <1>3, <2>1, AbortStep
    <2>2. CASE pc' = p /\ UNCHANGED <<cur, run, cameraVars>>
        <3>1. Dispatching(cur)' => Dispatching(cur) \/ execs[cur] = 0
            BY <1>0, <1>3, <2>2
            DEF Dispatching, ProcessInv, OutcomeInv, Untouched, AdapterPhases
        <3>. QED
            BY <1>1, <1>3, <2>2, <3>1 DEF cameraVars
    <2>. QED
        BY <1>3, <2>1, <2>2 DEF RecordOrAbort
<1>4. CASE RecordRequest \/ RecordAuthorization
    BY <1>3, <1>4 DEF RecordRequest, RecordAuthorization, AdapterPhases
<1>5. ASSUME Goto("emit", [run EXCEPT !.outcome = "refused"]),
             UNCHANGED <<cameraVars, report>>
      PROVE  OnceStep
    <2>1. ~Dispatching(cur)'
        BY <1>0, <1>5 DEF Goto, Run, Dispatching, AdapterPhases
    <2>. QED
        BY <1>1, <1>5, <2>1 DEF Goto, cameraVars
<1>6. CASE RefuseUnauthorized
    BY <1>0, <1>5, <1>6, AbortStep DEF RefuseUnauthorized
<1>7. CASE Branch
    <2>1. CASE Reconcile
        <3>1. ~Dispatching(cur)'
            BY <1>0, <2>1 DEF Reconcile, Goto, Run, Dispatching
        <3>. QED
            BY <1>1, <1>7, <2>1, <3>1 DEF Branch, Reconcile, Goto, cameraVars
    <2>2. CASE Goto("commit", run) /\ UNCHANGED cameraVars
        <3>1. ~Dispatching(cur)'
            BY <2>2 DEF Goto, Dispatching, AdapterPhases
        <3>. QED
            BY <1>1, <1>7, <2>2, <3>1 DEF Branch, Goto, cameraVars
    <2>. QED
        BY <1>0, <1>7, <2>1, <2>2, AbortStep DEF Branch
<1>8. CASE CommitAttempt
    <2>1. ~Dispatching(cur)'
        BY <1>8 DEF CommitAttempt, Goto, Dispatching, AdapterPhases
    <2>. QED
        BY <1>1, <1>8, <2>1 DEF CommitAttempt, Goto, cameraVars
<1>9. CASE RecordJournalRefusal
    BY <1>5, <1>9 DEF RecordJournalRefusal
<1>10. CASE RecordIntent
    BY <1>3, <1>10 DEF RecordIntent
<1>11. CASE Dispatch
    BY <1>11, AdapterRefines DEF Dispatch
<1>12. CASE RecordDispatch \/ RecordRefusal
    BY <1>3, <1>12 DEF RecordDispatch, RecordRefusal
<1>13. CASE EmitBundle
    BY <1>13, EmitRefines
<1>14. CASE RecordBundle \/ Crash
    BY <1>0, <1>14, AbortStep DEF RecordBundle, Crash
<1>15. CASE Environment
    BY <1>15, EnvironmentRefines
<1>16. CASE UNCHANGED vars
    <2>1. UNCHANGED <<pc, cur, run, net, execs, report>>
        BY <1>16 DEF vars, adapterVars, cameraVars
    <2>2. Dispatching(cur)' => Dispatching(cur)
        BY <2>1 DEF Dispatching
    <2>. QED
        BY <1>1, <2>1, <2>2
<1>. QED
    BY <1>2, <1>4, <1>6, <1>7, <1>8, <1>9, <1>10, <1>11, <1>12, <1>13, <1>14, <1>15,
       <1>16 DEF Next, EpStep

\* produce() with its journal, adapter, device and network, through crashes
\* and reruns, is an implementation of the abstract command: one that takes
\* effect at most once and only while armed, and of which no more is said
\* than was or could be.
THEOREM EpImplementsOnce == Spec => ImplementsOnce
<1>1. Init => Once!OnceInit
    BY InitRefines
<1>2. TypeOK /\ CommandInv /\ AnswerInv /\ [Next]_vars => [Once!OnceNext]_(Once!onceVars)
    BY NextRefines DEF OnceStep
<1>. QED
    BY <1>1, <1>2, EpAnswerInv, PTL DEF Spec, ImplementsOnce, Once!OnceSpec
=============================================================================

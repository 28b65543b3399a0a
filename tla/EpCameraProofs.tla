---------------------------- MODULE EpCameraProofs ----------------------------
(***************************************************************************)
(* Proofs about the camera that the enforcement point moves: what a run    *)
(* claims of its restore is true, and the camera is never displaced        *)
(* without a recovery record.  Both need a path that keeps the order of    *)
(* requests (Fifo); the second also that one invocation at most moves the  *)
(* camera, for a second one may take a displaced camera for its baseline.  *)
(***************************************************************************)
EXTENDS EpSafetyProofs

NumberInv == \A q, r \in net : q.n = r.n => q = r

\* From the baseline readback on, a camera move has a position to go back to.
BaselineInv ==
    /\ pc = "baseline" => cur \in Ptz
    /\ pc \in {"persist", "restore", "awaitRestore", "verify"} => run.baseline \in Positions
    /\ pc \in {"send", "await", "readback", "poll"} /\ cur \in Ptz =>
           run.baseline \in Positions

\* Once the restore was accepted nothing else is on its way to the camera.
UndoneInv ==
    /\ pc \notin {"observe", "emit", "emitted"} => ~run.verified
    /\ pc = "awaitRestore" => \A r \in net : r.n = sent => r.to = run.baseline
    /\ pc = "verify" \/ (pc = "awaitRestore" /\ reply = "ok") =>
           net = {} /\ goal = run.baseline
    /\ run.verified => /\ net = {} /\ pos = run.baseline /\ goal = run.baseline
                       /\ recovery[cur] = None

RestoreInv == NumberInv /\ BaselineInv /\ (Fifo => UndoneInv)

-----------------------------------------------------------------------------
(* The restore. *)

LEMMA EnvironmentCamera ==
    ASSUME CameraTypeOK, NetworkInv, NumberInv, CameraNext
    PROVE  /\ NumberInv' /\ net' \subseteq net /\ sent' = sent
           /\ Fifo /\ reply' = "ok" /\ reply # "ok" =>
                 \E r \in net : r.n = sent /\ net' = {} /\ (r.to # None => goal' = r.to)
           /\ goal' = goal \/ \E r \in net : goal' = r.to /\ r.to # None
           /\ pos' = pos \/ (pos' = goal /\ goal' = goal /\ execs' = execs /\ pos # goal)
<1>1. CASE DeviceExecutes
    <2>1. PICK r \in net :
              /\ Deliverable(r)
              /\ net' = net \ {r}
              /\ goal' = IF r.to = None THEN goal ELSE r.to
              /\ \E a \in {"ok", "error", "gateway"} : Answer(r, a)
              /\ UNCHANGED <<sent, pos>>
        BY <1>1 DEF DeviceExecutes
    <2>2. net \subseteq Requests /\ sent \in Nat /\ \A q \in net : q.n \in Nat /\ q.n <= sent
        BY DEF CameraTypeOK, NetworkInv, Requests
    <2>3. Fifo /\ r.n = sent => net' = {}
        <3>1. ASSUME Fifo, r.n = sent, NEW q \in net
              PROVE  q = r
            BY <2>1, <2>2, <3>1 DEF Deliverable, NumberInv
        <3>. QED
            BY <2>1, <3>1
    <2>. QED
        BY <2>1, <2>3 DEF Answer, NumberInv
<1>2. CASE DeviceRejects \/ NetworkLoses
    BY <1>2 DEF DeviceRejects, NetworkLoses, Answer, NumberInv
<1>3. CASE CameraSettles
    BY <1>3 DEF CameraSettles, NumberInv
<1>. QED
    BY <1>1, <1>2, <1>3 DEF CameraNext

\* A step that sends nothing and claims nothing.
LEMMA QuietRestores ==
    ASSUME RestoreInv, UNCHANGED net, BaselineInv', ~run'.verified,
           pc' \notin {"awaitRestore", "verify"}
    PROVE  RestoreInv'
BY DEF RestoreInv, NumberInv, UndoneInv

LEMMA AbortRestores ==
    ASSUME RestoreInv, Abort
    PROVE  RestoreInv'
BY QuietRestores DEF Abort, FreshRun, BaselineInv

\* A claim, once made, is carried to the bundle.
LEMMA ClaimKeeps ==
    ASSUME RestoreInv, UNCHANGED <<net, sent, pos, goal, cur, run, recovery>>,
           pc \in {"observe", "refuse", "emit"}, pc' \in {"emit", "emitted"}
    PROVE  RestoreInv'
BY DEF RestoreInv, NumberInv, BaselineInv, UndoneInv

\* What is sent has a number of its own.
LEMMA TransmitNumbers ==
    ASSUME CameraTypeOK, NetworkInv, NumberInv, NEW i, NEW op, NEW to, Transmit(i, op, to)
    PROVE  NumberInv' /\ (\A r \in net' : r.n = sent' => r.to = to) /\ reply' = "pending"
<1>1. sent \in Nat /\ \A r \in net : r.n \in Nat /\ r.n <= sent
    BY DEF CameraTypeOK, NetworkInv, Requests
<1>. QED
    BY <1>1 DEF Transmit, NumberInv

LEMMA AdapterRestores ==
    ASSUME TypeOK, CommandInv, RestoreInv, AdapterStep
    PROVE  RestoreInv'
<1>0. /\ cur \in Inv /\ run \in Run /\ CameraTypeOK /\ NetworkInv
      /\ NumberInv /\ BaselineInv /\ (Fifo => UndoneInv)
      /\ recovery \in [Inv -> Positions \cup {None}] /\ pos \in Positions
    BY DEF TypeOK, CommandInv, RestoreInv, CameraTypeOK
<1>. USE <1>0
<1>1. ASSUME NEW p \in {"persist", "readback", "poll", "restore", "observe", "refuse"},
             NEW r, Goto(p, r), UNCHANGED net, ~Fifo \/ ~r.verified,
             p = "persist" => r.baseline \in Positions,
             p \in {"restore", "readback", "poll"} => cur \in Ptz /\ r.baseline \in Positions
      PROVE  RestoreInv'
    BY <1>1 DEF Goto, RestoreInv, NumberInv, BaselineInv, UndoneInv
<1>2. ASSUME NEW o \in Levels, Conclude(o), UNCHANGED net,
             pc \in {"await", "readback", "poll"}
      PROVE  RestoreInv'
    <2>. DEFINE r == [run EXCEPT !.outcome = o, !.resent = FALSE]
    <2>1. r.verified = run.verified /\ r.baseline = run.baseline
        BY DEF Run
    <2>2. Goto(IF cur \in Ptz THEN "restore" ELSE "observe", r)
        BY <1>2 DEF Conclude
    <2>. HIDE DEF r
    <2>. QED
        BY <1>1, <1>2, <2>1, <2>2 DEF BaselineInv, UndoneInv
<1>3. ASSUME NotDispatched, pc \in {"send", "await"}
      PROVE  RestoreInv'
    <2>1. CASE /\ pc' = "refuse"
               /\ run' = [run EXCEPT !.outcome = "refused"]
               /\ StopWaiting
        BY <1>3, <2>1 DEF StopWaiting, RestoreInv, NumberInv, BaselineInv, UndoneInv, Run
    <2>. QED
        BY <1>3, <2>1, AbortRestores DEF NotDispatched
<1>4. ASSUME pc = "await", CommandFailed
      PROVE  RestoreInv'
    <2>1. StreamFailure(reply) \in Levels
        BY DEF StreamFailure, Levels
    <2>. QED
        BY <1>1, <1>2, <1>4, <2>1
        DEF CommandFailed, StopWaiting, BaselineInv, UndoneInv
<1>5. ASSUME RestoreDone(FALSE), UNCHANGED net
      PROVE  RestoreInv'
    BY <1>5 DEF RestoreDone, Run, RestoreInv, NumberInv, BaselineInv, UndoneInv
<1>6. ASSUME NEW op, NEW to, Transmit(cur, op, to), NEW r, NEW p, Goto(p, r),
             ~Fifo \/ ~r.verified, r.baseline = run.baseline,
             \/ p = "await" /\ pc \in {"send", "await"}
             \/ /\ p = "awaitRestore" /\ to = run.baseline
                /\ pc \in {"restore", "awaitRestore"}
      PROVE  RestoreInv'
    <2>1. NumberInv' /\ (\A q \in net' : q.n = sent' => q.to = to) /\ reply' = "pending"
        BY <1>6, TransmitNumbers
    <2>. QED
        BY <1>6, <2>1 DEF Goto, RestoreInv, BaselineInv, UndoneInv
<1>7. CASE ReadBaseline
    <2>1. /\ [run EXCEPT !.baseline = pos].verified = run.verified
          /\ [run EXCEPT !.baseline = pos].baseline = pos
          /\ [run EXCEPT !.outcome = "refused"].verified = run.verified
        BY DEF Run
    <2>. QED
        BY <1>1, <1>7, <2>1 DEF ReadBaseline, UndoneInv, cameraVars
<1>8. CASE PersistRecovery
    BY <1>8, AbortRestores
    DEF PersistRecovery, cameraVars, RestoreInv, NumberInv, BaselineInv, UndoneInv
<1>9. CASE SendCommand
    BY <1>3, <1>6, <1>9 DEF SendCommand, UndoneInv
<1>10. CASE CommandTimesOut
    BY <1>2, <1>10 DEF CommandTimesOut, StopWaiting, Levels
<1>11. CASE CommandAccepted
    <2>1. /\ [run EXCEPT !.last = None].verified = run.verified
          /\ [run EXCEPT !.last = None].baseline = run.baseline
        BY DEF Run
    <2>. QED
        BY <1>1, <1>2, <1>11, <2>1
        DEF CommandAccepted, StopWaiting, Levels, BaselineInv, UndoneInv
<1>12. CASE CommandRejected
    BY <1>4, <1>12 DEF CommandRejected
<1>13. [run EXCEPT !.resent = TRUE].verified = run.verified
       /\ [run EXCEPT !.resent = TRUE].baseline = run.baseline
    BY DEF Run
<1>14. CASE CommandUnauthorized
    BY <1>3, <1>4, <1>6, <1>13, <1>14 DEF CommandUnauthorized, UndoneInv
<1>15. CASE ReadAfterRejection \/ PollMatches \/ PollExpires \/ PollFails
    BY <1>2, <1>15
    DEF ReadAfterRejection, PollMatches, PollExpires, PollFails, cameraVars, Levels
<1>16. CASE PollMisses
    BY <1>16
    DEF PollMisses, Goto, Run, cameraVars, RestoreInv, NumberInv, BaselineInv, UndoneInv
<1>17. CASE SendRestore
    BY <1>5, <1>6, <1>17 DEF SendRestore, RestoreUnverified, cameraVars, UndoneInv
<1>18. CASE RestoreAccepted
    BY <1>18
    DEF RestoreAccepted, StopWaiting, Goto, RestoreInv, NumberInv, BaselineInv, UndoneInv
<1>19. CASE RestoreRepairsNonce
    BY <1>6, <1>13, <1>19 DEF RestoreRepairsNonce, UndoneInv
<1>20. CASE RestoreFails \/ VerifyExpires
    BY <1>5, <1>20
    DEF RestoreFails, VerifyExpires, RestoreUnverified, StopWaiting, cameraVars
<1>21. CASE VerifyMatches
    <2>1. CASE /\ RestoreDone(TRUE)
               /\ recovery' = [recovery EXCEPT ![cur] = None]
               /\ UNCHANGED cameraVars
        BY <1>21, <2>1
        DEF VerifyMatches, RestoreDone, Run, cameraVars, RestoreInv, NumberInv,
            BaselineInv, UndoneInv
    <2>. QED
        BY <1>21, <2>1, AbortRestores DEF VerifyMatches
<1>. QED
    BY <1>7, <1>8, <1>9, <1>10, <1>11, <1>12, <1>14, <1>15, <1>16, <1>17, <1>18,
       <1>19, <1>20, <1>21 DEF AdapterStep

LEMMA NextRestores ==
    ASSUME TypeOK, CommandInv, RestoreInv, [Next]_vars
    PROVE  RestoreInv'
<1>0. /\ cur \in Inv /\ run \in Run /\ CameraTypeOK /\ NetworkInv
      /\ NumberInv /\ BaselineInv /\ (Fifo => UndoneInv)
      /\ recovery \in [Inv -> Positions \cup {None}]
    BY DEF TypeOK, CommandInv, RestoreInv
<1>. USE <1>0
<1>1. ASSUME UNCHANGED net, BaselineInv', run'.verified = run.verified,
             pc \notin {"observe", "emit", "emitted"}, pc' \notin {"awaitRestore", "verify"}
      PROVE  RestoreInv'
    BY <1>1 DEF RestoreInv, NumberInv, UndoneInv
<1>2. ASSUME NEW e, NEW p, RecordOrAbort(e, p),
             \/ pc \in {"request", "authorize"} /\ p \in {"authorize", "branch"}
             \/ pc = "intent" /\ p = DispatchEntry
             \/ pc \in {"observe", "refuse", "emit"} /\ p \in {"emit", "emitted"}
      PROVE  RestoreInv'
    <2>1. CASE pc' = p /\ UNCHANGED <<cur, run, recovery, cameraVars>>
        <3>1. CASE pc \in {"request", "authorize", "intent"}
            <4>1. BaselineInv'
                BY <1>2, <2>1, <3>1 DEF BaselineInv, DispatchEntry
            <4>. QED
                BY <1>1, <1>2, <2>1, <3>1, <4>1 DEF cameraVars, DispatchEntry
        <3>2. CASE pc \in {"observe", "refuse", "emit"}
            BY <1>2, <2>1, <3>2, ClaimKeeps DEF cameraVars
        <3>. QED
            BY <1>2, <3>1, <3>2
    <2>. QED
        BY <1>2, <2>1, AbortRestores DEF RecordOrAbort
<1>3. ASSUME Goto("emit", [run EXCEPT !.outcome = "refused"]), UNCHANGED cameraVars,
             pc \in {"branch", "journalRefusal"}
      PROVE  RestoreInv'
    <2>1. run'.verified = run.verified /\ BaselineInv'
        BY <1>3 DEF Goto, BaselineInv, Run
    <2>. QED
        BY <1>1, <1>3, <2>1 DEF Goto, cameraVars
<1>4. ASSUME NEW i \in Inv, Start(i) PROVE RestoreInv'
    BY <1>1, <1>4 DEF Start, cameraVars, BaselineInv
<1>5. CASE RecordRequest \/ RecordAuthorization
    BY <1>2, <1>5 DEF RecordRequest, RecordAuthorization
<1>6. CASE RefuseUnauthorized
    BY <1>3, <1>6, AbortRestores DEF RefuseUnauthorized
<1>7. CASE Branch
    <2>1. CASE Reconcile
        <3>1. run'.verified = run.verified /\ pc' \in {"restore", "emit"} /\ BaselineInv'
            BY <2>1 DEF Reconcile, Goto, Run, BaselineInv
        <3>. QED
            BY <1>1, <1>7, <2>1, <3>1 DEF Branch, Reconcile, cameraVars
    <2>2. CASE Goto("commit", run) /\ UNCHANGED cameraVars
        BY <1>1, <1>7, <2>2 DEF Branch, Goto, cameraVars, BaselineInv
    <2>. QED
        BY <1>7, <2>1, <2>2, AbortRestores DEF Branch
<1>8. CASE CommitAttempt
    BY <1>1, <1>8 DEF CommitAttempt, Goto, cameraVars, BaselineInv
<1>9. CASE RecordJournalRefusal
    BY <1>3, <1>9 DEF RecordJournalRefusal
<1>10. CASE RecordIntent
    BY <1>2, <1>10 DEF RecordIntent
<1>11. CASE Dispatch
    BY <1>11, AdapterRestores DEF Dispatch
<1>12. CASE RecordDispatch \/ RecordRefusal
    BY <1>2, <1>12 DEF RecordDispatch, RecordRefusal
<1>13. CASE EmitBundle
    BY <1>13, AbortRestores, ClaimKeeps DEF EmitBundle, cameraVars
<1>14. CASE RecordBundle \/ Crash
    BY <1>14, AbortRestores DEF RecordBundle, Crash
<1>15. CASE Environment
    <2>1. UNCHANGED <<pc, cur, run, recovery>>
        BY <1>15 DEF Environment, adapterVars
    <2>2. /\ NumberInv' /\ net' \subseteq net /\ sent' = sent
          /\ Fifo /\ reply' = "ok" /\ reply # "ok" =>
                \E r \in net : r.n = sent /\ net' = {} /\ (r.to # None => goal' = r.to)
          /\ goal' = goal \/ \E r \in net : goal' = r.to /\ r.to # None
          /\ pos' = pos \/ (pos' = goal /\ goal' = goal /\ execs' = execs /\ pos # goal)
        BY <1>15, EnvironmentCamera DEF Environment
    <2>3. Fifo => UndoneInv'
        BY <2>1, <2>2, DeploymentAssumption DEF UndoneInv, BaselineInv
    <2>. QED
        BY <2>1, <2>2, <2>3 DEF RestoreInv, BaselineInv
<1>16. CASE UNCHANGED vars
    BY <1>16
    DEF vars, adapterVars, cameraVars, RestoreInv, NumberInv, BaselineInv, UndoneInv
<1>. QED
    BY <1>4, <1>5, <1>6, <1>7, <1>8, <1>9, <1>10, <1>11, <1>12, <1>13, <1>14, <1>15,
       <1>16 DEF Next, EpStep

\* The inductive invariant of the restore.
THEOREM EpRestoreInv == Spec => [](TypeOK /\ CommandInv /\ RestoreInv)
<1>1. Init => RestoreInv
    BY DEF Init, CameraInit, FreshRun, RestoreInv, NumberInv, BaselineInv, UndoneInv
<1>2. TypeOK /\ CommandInv /\ RestoreInv /\ [Next]_vars => RestoreInv'
    BY NextRestores
<1>. QED
    BY <1>1, <1>2, EpCommandInv, PTL DEF Spec

\* When dispatchPreset or reconcile goes on to claim restore_verified, the
\* camera stands at the baseline and nothing is under way that moves it,
\* however many invocations share the camera.
THEOREM EpRestoreClaimIsTrue == Fifo => (Spec => []RestoreClaimIsTrue)
<1>1. SUFFICES ASSUME Fifo
      PROVE  Spec => []RestoreClaimIsTrue
    OBVIOUS
<1>2. RestoreInv => RestoreClaimIsTrue
    BY <1>1 DEF RestoreInv, UndoneInv, RestoreClaimIsTrue
<1>. QED
    BY <1>2, EpRestoreInv, PTL

-----------------------------------------------------------------------------
(* The recovery record. *)

OneMove == \A i, j \in Ptz : i = j

Displaced == goal # Home \/ \E r \in net : r.to \notin {None, Home}

\* Every baseline is the park position, and only the one move leaves it: with
\* its recovery record in place, until the restore is verified.
DisplacementInv ==
    /\ \A i \in Inv : recovery[i] \in {None, Home}
    /\ run.baseline \in {None, Home}
    /\ \A r \in net : r.to \in {None, Home} \/ (r.op = "command" /\ r.inv \in Ptz)
    /\ (\A i \in Ptz : execs[i] = 0) => goal = Home /\ pos = Home
    /\ pc \in {"send", "await"} /\ cur \in Ptz => recovery[cur] = Home
    /\ Displaced => \E i \in Ptz : recovery[i] = Home

\* A step that leaves the camera, the path and the records alone.
LEMMA QuietDisplaces ==
    ASSUME DisplacementInv, UNCHANGED <<net, pos, goal, execs, recovery>>,
           run'.baseline \in {None, Home},
           pc' \in {"send", "await"} /\ cur' \in Ptz =>
               pc \in {"send", "await"} /\ cur' = cur
    PROVE  DisplacementInv'
BY DEF DisplacementInv, Displaced

LEMMA AbortDisplaces ==
    ASSUME DisplacementInv, Abort
    PROVE  DisplacementInv'
BY QuietDisplaces DEF Abort, FreshRun

LEMMA AdapterDisplaces ==
    ASSUME TypeOK, CommandInv, RestoreInv, DisplacementInv, AdapterStep, OneMove, Fifo
    PROVE  DisplacementInv'
<1>0. /\ cur \in Inv /\ run \in Run /\ CameraTypeOK /\ NetworkInv /\ ProcessInv
      /\ BaselineInv /\ UndoneInv
      /\ recovery \in [Inv -> Positions \cup {None}]
      /\ Ptz \subseteq Inv /\ None \notin Positions /\ Home \in Positions
    BY DeploymentAssumption DEF TypeOK, CommandInv, RestoreInv
<1>. USE <1>0
<1>1. ASSUME Untouched(cur), cur \in Ptz
      PROVE  goal = Home /\ pos = Home /\ ~Displaced
    <2>1. goal = Home /\ pos = Home
        BY <1>1 DEF OneMove, Untouched, DisplacementInv
    <2>2. \A r \in net : r.op = "command" => r.inv \notin Ptz
        BY <1>1 DEF OneMove, Untouched, InFlight
    <2>. QED
        BY <2>1, <2>2 DEF Displaced, DisplacementInv
<1>2. ASSUME NEW o, Conclude(o), UNCHANGED <<net, pos, goal, execs>>
      PROVE  DisplacementInv'
    <2>1. run'.baseline = run.baseline /\ pc' \in {"restore", "observe"}
        BY <1>2 DEF Conclude, Goto, Run
    <2>. QED
        BY <1>2, <2>1, QuietDisplaces DEF Conclude, Goto, DisplacementInv
<1>3. ASSUME NotDispatched, Untouched(cur)
      PROVE  DisplacementInv'
    <2>1. CASE Abort
        BY <2>1, AbortDisplaces
    <2>2. CASE /\ recovery' = [recovery EXCEPT ![cur] = None]
               /\ pc' = "refuse" /\ cur' = cur
               /\ run' = [run EXCEPT !.outcome = "refused"]
               /\ StopWaiting
        <3>1. run'.baseline = run.baseline
            BY <2>2 DEF Run
        <3>2. Displaced' => Displaced /\ cur \notin Ptz
            BY <1>1, <1>3, <2>2 DEF Displaced, StopWaiting
        <3>. QED
            BY <2>2, <3>1, <3>2 DEF StopWaiting, DisplacementInv
    <2>. QED
        BY <1>3, <2>1, <2>2 DEF NotDispatched
<1>4. ASSUME CommandFailed
      PROVE  DisplacementInv'
    BY <1>2, <1>4, QuietDisplaces DEF CommandFailed, StopWaiting, Goto, DisplacementInv
<1>5. ASSUME RestoreDone(FALSE), UNCHANGED <<net, pos, goal, execs, recovery>>
      PROVE  DisplacementInv'
    <2>1. run'.baseline = run.baseline /\ pc' \in {"emit", "observe"}
        BY <1>5 DEF RestoreDone, Run
    <2>. QED
        BY <1>5, <2>1, QuietDisplaces DEF DisplacementInv
<1>6. ASSUME NEW op, NEW to, Transmit(cur, op, to), NEW r, NEW p, Goto(p, r),
             r.baseline = run.baseline,
             \/ /\ op = "command" /\ to = Target(cur) /\ p = "await"
                /\ pc \in {"send", "await"}
             \/ op = "restore" /\ to = run.baseline /\ p = "awaitRestore"
      PROVE  DisplacementInv'
    <2>1. /\ UNCHANGED <<pos, goal, execs, recovery, cur>> /\ pc' = p /\ run' = r
          /\ \A q \in net' : q \in net \/ (q.op = op /\ q.inv = cur /\ q.to = to)
        BY <1>6 DEF Transmit, Goto
    <2>2. to \in {None, Home} \/ (op = "command" /\ cur \in Ptz /\ recovery[cur] = Home)
        BY <1>6 DEF Target, DisplacementInv
    <2>3. Displaced' => \E i \in Ptz : recovery[i] = Home
        BY <2>1, <2>2 DEF Displaced, DisplacementInv
    <2>. QED
        BY <1>6, <2>1, <2>2, <2>3 DEF DisplacementInv
<1>7. [run EXCEPT !.resent = TRUE].baseline = run.baseline
      /\ [run EXCEPT !.last = None].baseline = run.baseline
    BY DEF Run
<1>8. CASE ReadBaseline
    <2>1. Untouched(cur) /\ cur \in Ptz
        BY <1>8 DEF ReadBaseline, ProcessInv, BaselineInv
    <2>2. run'.baseline \in {run.baseline, pos} /\ pc' \in {"persist", "refuse"}
        BY <1>8 DEF ReadBaseline, Goto, Run
    <2>. QED
        BY <1>1, <1>8, <2>1, <2>2, QuietDisplaces
        DEF ReadBaseline, Goto, cameraVars, DisplacementInv
<1>9. CASE PersistRecovery
    <2>1. CASE /\ recovery' = [recovery EXCEPT ![cur] = run.baseline]
               /\ pc' = "send"
               /\ UNCHANGED <<cur, run, cameraVars>>
        <3>1. run.baseline = Home
            BY <1>9 DEF PersistRecovery, BaselineInv, DisplacementInv
        <3>2. /\ \A i \in Inv : recovery'[i] \in {None, Home}
              /\ \A i \in Inv : recovery[i] = Home => recovery'[i] = Home
              /\ recovery'[cur] = Home
            BY <2>1, <3>1 DEF DisplacementInv
        <3>. QED
            BY <2>1, <3>2 DEF cameraVars, Displaced, DisplacementInv
    <2>. QED
        BY <1>9, <2>1, AbortDisplaces DEF PersistRecovery
<1>10. CASE SendCommand
    BY <1>3, <1>6, <1>10 DEF SendCommand, ProcessInv
<1>11. CASE CommandTimesOut
    BY <1>2, <1>11 DEF CommandTimesOut, StopWaiting
<1>12. CASE CommandAccepted
    BY <1>2, <1>7, <1>12, QuietDisplaces
    DEF CommandAccepted, StopWaiting, Goto, DisplacementInv
<1>13. CASE CommandRejected
    BY <1>4, <1>13 DEF CommandRejected
<1>14. CASE CommandUnauthorized
    BY <1>3, <1>4, <1>6, <1>7, <1>14 DEF CommandUnauthorized, ProcessInv
<1>15. CASE ReadAfterRejection \/ PollMatches \/ PollExpires \/ PollFails
    BY <1>2, <1>15
    DEF ReadAfterRejection, PollMatches, PollExpires, PollFails, cameraVars
<1>16. CASE PollMisses
    <2>1. run'.baseline = run.baseline
        BY <1>16 DEF PollMisses, Goto, Run
    <2>. QED
        BY <1>16, <2>1, QuietDisplaces DEF PollMisses, Goto, cameraVars, DisplacementInv
<1>17. CASE SendRestore
    BY <1>5, <1>6, <1>17 DEF SendRestore, RestoreUnverified, cameraVars
<1>18. CASE RestoreAccepted
    BY <1>18, QuietDisplaces DEF RestoreAccepted, StopWaiting, Goto, DisplacementInv
<1>19. CASE RestoreRepairsNonce
    BY <1>6, <1>7, <1>19 DEF RestoreRepairsNonce
<1>20. CASE RestoreFails \/ VerifyExpires
    BY <1>5, <1>20
    DEF RestoreFails, VerifyExpires, RestoreUnverified, StopWaiting, cameraVars
<1>21. CASE VerifyMatches
    <2>1. CASE /\ RestoreDone(TRUE)
               /\ recovery' = [recovery EXCEPT ![cur] = None]
               /\ UNCHANGED cameraVars
        <3>1. net = {} /\ goal = Home
            BY <1>21 DEF VerifyMatches, UndoneInv, BaselineInv, DisplacementInv
        <3>2. run'.baseline = run.baseline /\ pc' \in {"emit", "observe"}
            BY <2>1 DEF RestoreDone, Run
        <3>. QED
            BY <2>1, <3>1, <3>2 DEF cameraVars, Displaced, DisplacementInv
    <2>. QED
        BY <1>21, <2>1, AbortDisplaces DEF VerifyMatches
<1>. QED
    BY <1>8, <1>9, <1>10, <1>11, <1>12, <1>13, <1>14, <1>15, <1>16, <1>17, <1>18,
       <1>19, <1>20, <1>21 DEF AdapterStep

LEMMA NextDisplaces ==
    ASSUME TypeOK, CommandInv, RestoreInv, DisplacementInv, [Next]_vars, OneMove, Fifo
    PROVE  DisplacementInv'
<1>0. /\ cur \in Inv /\ run \in Run /\ CameraTypeOK /\ NetworkInv /\ NumberInv
      /\ Ptz \subseteq Inv /\ None \notin Positions /\ Home \in Positions
    BY DeploymentAssumption DEF TypeOK, CommandInv, RestoreInv
<1>. USE <1>0
<1>1. ASSUME UNCHANGED <<net, pos, goal, execs, recovery>>,
             run'.baseline = run.baseline, pc' \notin {"send", "await"}
      PROVE  DisplacementInv'
    BY <1>1, QuietDisplaces DEF DisplacementInv
<1>2. ASSUME NEW e, NEW p, RecordOrAbort(e, p),
             p \notin {"send", "await"} \/ cur \notin Ptz
      PROVE  DisplacementInv'
    BY <1>2, QuietDisplaces, AbortDisplaces DEF RecordOrAbort, cameraVars, DisplacementInv
<1>3. [run EXCEPT !.outcome = "refused"].baseline = run.baseline
    BY DEF Run
<1>4. ASSUME NEW i \in Inv, Start(i) PROVE DisplacementInv'
    BY <1>1, <1>4 DEF Start, cameraVars
<1>5. CASE RecordRequest \/ RecordAuthorization
    BY <1>2, <1>5 DEF RecordRequest, RecordAuthorization
<1>6. CASE RefuseUnauthorized
    BY <1>1, <1>3, <1>6, AbortDisplaces DEF RefuseUnauthorized, Goto, cameraVars
<1>7. CASE Branch
    <2>1. CASE Reconcile
        <3>1. run'.baseline \in {None, Home} /\ pc' \in {"restore", "emit"}
            BY <2>1 DEF Reconcile, Goto, Run, DisplacementInv
        <3>. QED
            BY <2>1, <3>1, QuietDisplaces DEF Reconcile, Goto, cameraVars
    <2>. QED
        BY <1>1, <1>7, <2>1, AbortDisplaces DEF Branch, Goto, cameraVars
<1>8. CASE CommitAttempt \/ RecordJournalRefusal
    BY <1>1, <1>3, <1>8 DEF CommitAttempt, RecordJournalRefusal, Goto, cameraVars
<1>9. CASE RecordIntent
    BY <1>2, <1>9 DEF RecordIntent, DispatchEntry
<1>10. CASE Dispatch
    BY <1>10, AdapterDisplaces DEF Dispatch
<1>11. CASE RecordDispatch \/ RecordRefusal
    BY <1>2, <1>11 DEF RecordDispatch, RecordRefusal
<1>12. CASE EmitBundle
    BY <1>1, <1>12, AbortDisplaces DEF EmitBundle, cameraVars
<1>13. CASE RecordBundle \/ Crash
    BY <1>13, AbortDisplaces DEF RecordBundle, Crash
<1>14. CASE Environment
    <2>1. UNCHANGED <<pc, cur, run, recovery>> /\ CameraNext
        BY <1>14 DEF Environment, adapterVars
    <2>2. /\ net' \subseteq net
          /\ goal' = goal \/ \E r \in net : goal' = r.to /\ r.to # None
          /\ pos' = pos \/ (pos' = goal /\ goal' = goal /\ execs' = execs /\ pos # goal)
        BY <2>1, EnvironmentCamera
    <2>3. Displaced' => Displaced
        BY <2>2 DEF Displaced
    <2>4. (\A i \in Ptz : execs'[i] = 0) => goal' = Home /\ pos' = Home
        <3>1. CASE DeviceExecutes
            <4>1. PICK r \in net :
                      /\ goal' = IF r.to = None THEN goal ELSE r.to
                      /\ execs' = IF r.op = "command" THEN [execs EXCEPT ![r.inv] = @ + 1]
                                  ELSE execs
                      /\ pos' = pos
                BY <3>1 DEF DeviceExecutes
            <4>2. r.inv \in Inv /\ execs \in [Inv -> Nat]
                BY DEF CameraTypeOK, Requests
            <4>3. CASE r.to \in {None, Home}
                <5>1. \A i \in Inv : execs'[i] = 0 => execs[i] = 0
                    BY <4>1, <4>2
                <5>. QED
                    BY <4>1, <4>3, <5>1 DEF DisplacementInv
            <4>4. CASE r.op = "command" /\ r.inv \in Ptz
                BY <4>1, <4>2, <4>4
            <4>. QED
                BY <4>3, <4>4 DEF DisplacementInv
        <3>2. CASE DeviceRejects \/ NetworkLoses
            BY <3>2 DEF DeviceRejects, NetworkLoses, DisplacementInv
        <3>3. CASE CameraSettles
            BY <3>3 DEF CameraSettles, DisplacementInv
        <3>. QED
            BY <2>1, <3>1, <3>2, <3>3 DEF CameraNext
    <2>. QED
        BY <2>1, <2>2, <2>3, <2>4 DEF DisplacementInv
<1>15. CASE UNCHANGED vars
    BY <1>15 DEF vars, adapterVars, cameraVars, Displaced, DisplacementInv
<1>. QED
    BY <1>4, <1>5, <1>6, <1>7, <1>8, <1>9, <1>10, <1>11, <1>12, <1>13, <1>14, <1>15
    DEF Next, EpStep

\* Where one invocation may move the camera, it is never away from the park
\* position, nor about to leave it, without a recovery record that names it.
THEOREM EpDisplacementIsRecorded ==
    OneMove /\ Fifo => (Spec => []DisplacementIsRecorded)
<1>1. SUFFICES ASSUME OneMove, Fifo
      PROVE  Spec => []DisplacementIsRecorded
    OBVIOUS
<1>2. Init => DisplacementInv
    BY DEF Init, CameraInit, FreshRun, DisplacementInv, Displaced
<1>3. TypeOK /\ CommandInv /\ RestoreInv /\ DisplacementInv /\ [Next]_vars =>
          DisplacementInv'
    BY <1>1, NextDisplaces
<1>4. DisplacementInv => DisplacementIsRecorded
    BY DeploymentAssumption DEF DisplacementInv, Displaced, DisplacementIsRecorded
<1>. QED
    BY <1>2, <1>3, <1>4, EpRestoreInv, PTL DEF Spec
=============================================================================

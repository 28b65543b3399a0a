---------------------------- MODULE EpSafetyProofs ----------------------------
(***************************************************************************)
(* Proofs about the enforcement point, for every set of invocations,       *)
(* positions and every bound on the number of runs, either adapter, and a  *)
(* network that may reorder: its types first, then its safety, CommandInv  *)
(* of EpProducer, which is inductive.                                      *)
(***************************************************************************)
EXTENDS EpProducer, SequenceTheorems, TLAPS

-----------------------------------------------------------------------------
(* The journal. *)

\* An opening record makes the dispatch pending, whatever came before.
LEMMA OpeningMakesPending ==
    ASSUME NEW log \in Seq(Events), NEW e \in Events, OpensDispatch(e)
    PROVE  PendingIn(Append(log, e))
<1> DEFINE ext == Append(log, e)
<1>1. /\ Len(log) \in Nat
      /\ DOMAIN ext = 1 .. Len(log) + 1
      /\ ext[Len(log) + 1] = e
    OBVIOUS
<1>2. \A m \in DOMAIN ext : ~(m > Len(log) + 1)
    BY <1>1
<1>. QED
    BY <1>1, <1>2 DEF PendingIn

\* A pending dispatch stays pending unless a closing record is appended.
LEMMA PendingStays ==
    ASSUME NEW log \in Seq(Events), NEW e \in Events, ~ClosesDispatch(e),
           PendingIn(log)
    PROVE  PendingIn(Append(log, e))
<1> DEFINE ext == Append(log, e)
<1>1. /\ Len(log) \in Nat
      /\ DOMAIN log = 1 .. Len(log)
      /\ DOMAIN ext = 1 .. Len(log) + 1
      /\ ext[Len(log) + 1] = e
      /\ \A k \in DOMAIN log : ext[k] = log[k]
    OBVIOUS
<1>2. PICK k \in DOMAIN log :
          /\ OpensDispatch(log[k])
          /\ \A m \in DOMAIN log : m > k => ~ClosesDispatch(log[m])
    BY DEF PendingIn
<1>3. ASSUME NEW m \in DOMAIN ext, m > k
      PROVE  ~ClosesDispatch(ext[m])
    <2>1. CASE m \in DOMAIN log
        BY <2>1, <1>1, <1>2, <1>3
    <2>2. CASE m = Len(log) + 1
        BY <2>2, <1>1
    <2>. QED
        BY <2>1, <2>2, <1>1
<1>4. k \in DOMAIN ext /\ OpensDispatch(ext[k])
    BY <1>1, <1>2
<1>. QED
    BY <1>3, <1>4 DEF PendingIn

-----------------------------------------------------------------------------
(* Types. *)

LEMMA AppendTyped ==
    ASSUME JournalTypeOK, NEW i \in Inv, NEW e \in Events,
           AppendReturns(i, e) \/ AppendThrows(i, e)
    PROVE  JournalTypeOK'
<1>1. Append(journal[i], e) \in Seq(Events)
    <2>1. journal[i] \in Seq(Events)
        BY DEF JournalTypeOK
    <2>. QED
        BY <2>1
<1>2. CASE Persist(i, e)
    BY <1>1, <1>2 DEF JournalTypeOK, Persist
<1>3. CASE Tear
    BY <1>3 DEF JournalTypeOK, Tear
<1>4. CASE UNCHANGED journalVars
    BY <1>4 DEF JournalTypeOK, journalVars
<1>. QED
    BY <1>2, <1>3, <1>4 DEF AppendReturns, AppendThrows

LEMMA AbortTyped ==
    ASSUME TypeOK, Abort
    PROVE  /\ CameraTypeOK'
           /\ pc' \in Phases /\ cur' \in Inv /\ run' \in Run
           /\ recovery' \in [Inv -> Positions \cup {None}]
BY DEF TypeOK, Abort, CameraTypeOK, Phases, Run, FreshRun, Replies, Levels

LEMMA TransmitTyped ==
    ASSUME CameraTypeOK, NEW i \in Inv, NEW op \in {"command", "restore"},
           NEW to \in Positions \cup {None}, Transmit(i, op, to)
    PROVE  CameraTypeOK'
BY DEF CameraTypeOK, Transmit, Requests, Replies

LEMMA EnvironmentTyped ==
    ASSUME CameraTypeOK, CameraNext
    PROVE  CameraTypeOK'
<1>1. CASE DeviceExecutes
    BY <1>1 DEF CameraTypeOK, DeviceExecutes, Deliverable, Requests, Replies, Answer,
                DeviceAnswered
<1>2. CASE DeviceRejects
    BY <1>2 DEF CameraTypeOK, DeviceRejects, Deliverable, Requests, Replies, Answer,
                DeviceAnswered
<1>3. CASE NetworkLoses
    BY <1>3 DEF CameraTypeOK, NetworkLoses, Requests, Replies, Answer
<1>4. CASE CameraSettles
    BY <1>4 DEF CameraTypeOK, CameraSettles
<1>. QED
    BY <1>1, <1>2, <1>3, <1>4 DEF CameraNext

LEMMA AdapterTyped ==
    ASSUME TypeOK, AdapterStep
    PROVE  /\ CameraTypeOK'
           /\ pc' \in Phases /\ cur' \in Inv /\ run' \in Run
           /\ recovery' \in [Inv -> Positions \cup {None}]
<1>. USE DEF Phases, AdapterPhases
<1>0. /\ Target(cur) \in Positions \cup {None}
      /\ run.baseline \in Positions \cup {None}
      /\ cur \in Inv /\ run \in Run
      /\ CameraTypeOK /\ pos \in Positions
    BY DeploymentAssumption DEF TypeOK, CameraTypeOK, Target, Run
<1>. DEFINE Good == /\ CameraTypeOK'
                    /\ pc' \in Phases /\ cur' \in Inv /\ run' \in Run
                    /\ recovery' \in [Inv -> Positions \cup {None}]
<1>1. CASE Abort
    BY <1>1, AbortTyped
<1>2. ASSUME StopWaiting \/ UNCHANGED cameraVars
      PROVE  CameraTypeOK'
    BY <1>0, <1>2 DEF StopWaiting, cameraVars, CameraTypeOK, Replies
<1>3. ASSUME NEW p \in Phases, NEW r \in Run, Goto(p, r)
      PROVE  /\ pc' \in Phases /\ cur' \in Inv /\ run' \in Run
             /\ recovery' \in [Inv -> Positions \cup {None}]
    BY <1>3 DEF Goto, TypeOK
<1>4. ASSUME NEW o \in Levels, Conclude(o)
      PROVE  /\ pc' \in Phases /\ cur' \in Inv /\ run' \in Run
             /\ recovery' \in [Inv -> Positions \cup {None}]
    BY <1>0, <1>4 DEF Conclude, Goto, TypeOK, Run, Levels
<1>5. ASSUME NotDispatched
      PROVE  Good
    BY <1>0, <1>1, <1>2, <1>5 DEF NotDispatched, TypeOK, Run
<1>6. ASSUME CommandFailed
      PROVE  Good
    <2>1. StreamFailure(reply) \in Levels
        BY DEF StreamFailure, Levels
    <2>. QED
        BY <1>0, <1>2, <1>3, <1>4, <1>6, <2>1 DEF CommandFailed
<1>7. ASSUME NEW v \in BOOLEAN, RestoreDone(v),
             \/ UNCHANGED recovery
             \/ recovery' = [recovery EXCEPT ![cur] = None]
      PROVE  /\ pc' \in Phases /\ cur' \in Inv /\ run' \in Run
             /\ recovery' \in [Inv -> Positions \cup {None}]
    BY <1>0, <1>7 DEF RestoreDone, TypeOK, Run, Levels
<1>8. CASE ReadBaseline
    BY <1>0, <1>2, <1>8 DEF ReadBaseline, Goto, TypeOK, Run
<1>9. CASE PersistRecovery
    BY <1>0, <1>1, <1>2, <1>9 DEF PersistRecovery, TypeOK, cameraVars
<1>10. CASE SendCommand
    BY <1>0, <1>3, <1>5, <1>10, TransmitTyped DEF SendCommand
<1>11. CASE CommandTimesOut
    BY <1>2, <1>4, <1>11 DEF CommandTimesOut, Levels
<1>12. CASE CommandAccepted
    <2>1. [run EXCEPT !.last = None] \in Run
        BY <1>0 DEF Run
    <2>. QED
        BY <1>2, <1>3, <1>4, <1>12, <2>1 DEF CommandAccepted, Levels
<1>13. CASE CommandRejected
    BY <1>6, <1>13 DEF CommandRejected
<1>14. CASE CommandUnauthorized
    <2>1. [run EXCEPT !.resent = TRUE] \in Run
        BY <1>0 DEF Run
    <2>. QED
        BY <1>0, <1>3, <1>5, <1>6, <1>14, <2>1, TransmitTyped DEF CommandUnauthorized
<1>15. CASE ReadAfterRejection
    BY <1>2, <1>4, <1>15 DEF ReadAfterRejection, Levels
<1>16. CASE PollMatches \/ PollExpires \/ PollFails
    BY <1>2, <1>4, <1>16 DEF PollMatches, PollExpires, PollFails, Levels
<1>17. CASE PollMisses
    BY <1>0, <1>2, <1>17 DEF PollMisses, Goto, Readback, TypeOK, Run
<1>18. CASE SendRestore
    BY <1>0, <1>2, <1>3, <1>7, <1>18, TransmitTyped DEF SendRestore, RestoreUnverified
<1>19. CASE RestoreAccepted
    BY <1>0, <1>2, <1>3, <1>19 DEF RestoreAccepted
<1>20. CASE RestoreRepairsNonce
    <2>1. [run EXCEPT !.resent = TRUE] \in Run
        BY <1>0 DEF Run
    <2>. QED
        BY <1>0, <1>3, <1>20, <2>1, TransmitTyped DEF RestoreRepairsNonce
<1>21. CASE RestoreFails \/ VerifyExpires
    BY <1>2, <1>7, <1>21 DEF RestoreFails, VerifyExpires, RestoreUnverified
<1>22. CASE VerifyMatches
    BY <1>1, <1>2, <1>7, <1>22 DEF VerifyMatches
<1>. QED
    BY <1>8, <1>9, <1>10, <1>11, <1>12, <1>13, <1>14, <1>15, <1>16, <1>17, <1>18,
       <1>19, <1>20, <1>21, <1>22 DEF AdapterStep

LEMMA RecordTyped ==
    ASSUME TypeOK, NEW e \in Events, NEW p \in Phases, RecordOrAbort(e, p),
           UNCHANGED <<starts, report>>
    PROVE  TypeOK'
<1>1. cur \in Inv
    BY DEF TypeOK
<1>2. JournalTypeOK'
    BY <1>1, AppendTyped DEF RecordOrAbort, TypeOK
<1>3. CASE Abort
    BY <1>2, <1>3, AbortTyped DEF TypeOK
<1>4. CASE pc' = p /\ UNCHANGED <<cur, run, recovery, cameraVars>>
    BY <1>2, <1>4 DEF TypeOK, CameraTypeOK, cameraVars
<1>. QED
    BY <1>3, <1>4 DEF RecordOrAbort

LEMMA InitTyped == Init => TypeOK
<1>. SUFFICES ASSUME Init PROVE TypeOK
    OBVIOUS
<1>. USE DeploymentAssumption DEF Init
<1>1. JournalTypeOK
    <2>1. <<>> \in Seq(Events)
        BY EmptySeq
    <2>. QED
        BY <2>1 DEF JournalInit, JournalTypeOK
<1>2. CameraTypeOK
    BY DEF CameraInit, CameraTypeOK, Replies
<1>3. pc \in Phases /\ run \in Run /\ recovery \in [Inv -> Positions \cup {None}]
    BY DEF Phases, FreshRun, Run
<1>4. starts \in 0 .. MaxStarts
    OBVIOUS
<1>5. report \in [Inv -> Reports]
    BY DEF NoReport, Reports
<1>. QED
    BY <1>1, <1>2, <1>3, <1>4, <1>5 DEF TypeOK

LEMMA NextTyped ==
    ASSUME TypeOK, [Next]_vars
    PROVE  TypeOK'
<1>. USE DEF Phases
<1>0. cur \in Inv /\ run \in Run
    BY DEF TypeOK
<1>1. ASSUME UNCHANGED cameraVars PROVE CameraTypeOK'
    BY <1>1 DEF cameraVars, CameraTypeOK, TypeOK
<1>2. ASSUME UNCHANGED journalVars PROVE JournalTypeOK'
    BY <1>2 DEF journalVars, JournalTypeOK, TypeOK
<1>3. ASSUME NEW p \in Phases, Goto(p, [run EXCEPT !.outcome = "refused"])
      PROVE  /\ pc' \in Phases /\ cur' \in Inv /\ run' \in Run
             /\ recovery' \in [Inv -> Positions \cup {None}]
    BY <1>0, <1>3 DEF Goto, TypeOK, Run
<1>4. ASSUME NEW i \in Inv, Start(i) PROVE TypeOK'
    <2>1. starts' \in 0 .. MaxStarts
        BY <1>4, DeploymentAssumption DEF Start, TypeOK
    <2>. QED
        BY <1>1, <1>2, <1>4, <2>1 DEF Start, TypeOK
<1>5. CASE RecordRequest
    BY <1>5, RecordTyped DEF RecordRequest, Events
<1>6. CASE RecordAuthorization
    BY <1>6, RecordTyped DEF RecordAuthorization, Events
<1>7. CASE RefuseUnauthorized
    <2>1. JournalTypeOK'
        BY <1>0, <1>7, AppendTyped DEF RefuseUnauthorized, TypeOK, Events
    <2>. QED
        BY <1>1, <1>3, <1>7, <2>1, AbortTyped DEF RefuseUnauthorized, TypeOK
<1>8. CASE Branch
    <2>1. CASE Abort
        BY <1>2, <1>8, <2>1, AbortTyped DEF Branch, TypeOK
    <2>2. CASE Reconcile
        <3>1. /\ pc' \in Phases /\ cur' \in Inv /\ run' \in Run
              /\ recovery' \in [Inv -> Positions \cup {None}]
            BY <1>0, <2>2 DEF Reconcile, Goto, TypeOK, Run, Levels, AdapterPhases
        <3>. QED
            BY <1>1, <1>2, <1>8, <2>2, <3>1 DEF Branch, Reconcile, TypeOK
    <2>3. CASE Goto("commit", run) /\ UNCHANGED cameraVars
        BY <1>1, <1>2, <1>8, <2>3 DEF Branch, Goto, TypeOK
    <2>. QED
        BY <1>8, <2>1, <2>2, <2>3 DEF Branch
<1>9. CASE CommitAttempt
    <2>1. JournalTypeOK'
        BY <1>0, <1>9, AppendTyped DEF CommitAttempt, TypeOK, Events
    <2>. QED
        BY <1>1, <1>9, <2>1 DEF CommitAttempt, Goto, TypeOK
<1>10. CASE RecordJournalRefusal
    <2>1. JournalTypeOK'
        BY <1>0, <1>10, AppendTyped DEF RecordJournalRefusal, TypeOK, Events
    <2>. QED
        BY <1>1, <1>3, <1>10, <2>1 DEF RecordJournalRefusal, TypeOK
<1>11. CASE RecordIntent
    BY <1>11, RecordTyped DEF RecordIntent, DispatchEntry, Events, AdapterPhases
<1>12. CASE Dispatch
    BY <1>2, <1>12, AdapterTyped DEF Dispatch, TypeOK
<1>13. CASE RecordDispatch
    BY <1>13, RecordTyped DEF RecordDispatch, Events
<1>14. CASE RecordRefusal
    BY <1>14, RecordTyped DEF RecordRefusal, Events
<1>15. CASE EmitBundle
    <2>1. [level |-> run.outcome, restored |-> run.verified] \in Reports
        BY <1>0 DEF Run, Reports
    <2>2. report' \in [Inv -> Reports]
        BY <1>15, <2>1 DEF EmitBundle, TypeOK
    <2>3. CASE Abort
        BY <1>2, <1>15, <2>2, <2>3, AbortTyped DEF EmitBundle, TypeOK
    <2>4. CASE pc' = "emitted" /\ UNCHANGED <<cur, run, recovery, cameraVars>>
        BY <1>1, <1>2, <1>15, <2>2, <2>4 DEF EmitBundle, TypeOK
    <2>. QED
        BY <1>15, <2>3, <2>4 DEF EmitBundle
<1>16. CASE RecordBundle
    <2>1. JournalTypeOK'
        BY <1>0, <1>16, AppendTyped DEF RecordBundle, TypeOK, Events
    <2>. QED
        BY <1>16, <2>1, AbortTyped DEF RecordBundle, TypeOK
<1>17. CASE Crash
    BY <1>2, <1>17, AbortTyped DEF Crash, TypeOK
<1>18. CASE Environment
    BY <1>2, <1>18, EnvironmentTyped DEF Environment, adapterVars, TypeOK
<1>19. CASE UNCHANGED vars
    BY <1>1, <1>2, <1>19 DEF vars, adapterVars, TypeOK
<1>. QED
    BY <1>4, <1>5, <1>6, <1>7, <1>8, <1>9, <1>10, <1>11, <1>12, <1>13, <1>14, <1>15,
       <1>16, <1>17, <1>18, <1>19 DEF Next, EpStep

\* Type correctness of the enforcement point: journal, camera, process.
THEOREM EpTypeCorrect == Spec => []TypeOK
<1>1. Init => TypeOK
    BY InitTyped
<1>2. TypeOK /\ [Next]_vars => TypeOK'
    BY NextTyped
<1>. QED
    BY <1>1, <1>2, PTL DEF Spec

-----------------------------------------------------------------------------
(* What an append to the journal preserves, and what it adds. *)

LEMMA PersistKeeps ==
    ASSUME JournalTypeOK, NEW i \in Inv, NEW e \in Events, Persist(i, e),
           NEW j \in Inv
    PROVE  /\ \A f : Recorded(j, f) => Recorded(j, f)'
           /\ ~ClosesDispatch(e) /\ MustNotRedispatch(j) => MustNotRedispatch(j)'
           /\ Recorded(i, e)'
           /\ OpensDispatch(e) => MustNotRedispatch(i)'
<1>. DEFINE log == journal[i]
<1>1. log \in Seq(Events) /\ journal[j] \in Seq(Events)
    BY DEF JournalTypeOK
<1>2. journal'[i] = Append(log, e) /\ (j # i => journal'[j] = journal[j])
    BY DEF Persist, JournalTypeOK
<1>3. /\ Len(log) \in Nat
      /\ DOMAIN log = 1 .. Len(log)
      /\ DOMAIN Append(log, e) = 1 .. Len(log) + 1
      /\ Append(log, e)[Len(log) + 1] = e
      /\ \A k \in DOMAIN log : Append(log, e)[k] = log[k]
    BY <1>1
<1>4. Recorded(i, e)'
    BY <1>2, <1>3 DEF Recorded
<1>5. ASSUME NEW f, Recorded(j, f)
      PROVE  Recorded(j, f)'
    <2>1. CASE j # i
        BY <1>2, <1>5, <2>1 DEF Recorded
    <2>2. CASE j = i
        BY <1>2, <1>3, <1>5, <2>2 DEF Recorded
    <2>. QED
        BY <2>1, <2>2
<1>6. ASSUME ~ClosesDispatch(e), MustNotRedispatch(j)
      PROVE  MustNotRedispatch(j)'
    <2>1. CASE j # i
        BY <1>2, <1>6, <2>1 DEF MustNotRedispatch, PendingIn, OpensDispatch, ClosesDispatch
    <2>2. CASE j = i
        <3>1. PendingIn(Append(log, e))
            BY <1>1, <1>6, <2>2, PendingStays DEF MustNotRedispatch
        <3>. QED
            BY <1>2, <2>2, <3>1 DEF MustNotRedispatch, PendingIn, OpensDispatch, ClosesDispatch
    <2>. QED
        BY <2>1, <2>2
<1>7. ASSUME OpensDispatch(e)
      PROVE  MustNotRedispatch(i)'
    <2>1. PendingIn(Append(log, e))
        BY <1>1, <1>7, OpeningMakesPending
    <2>. QED
        BY <1>2, <2>1 DEF MustNotRedispatch, PendingIn, OpensDispatch, ClosesDispatch
<1>. QED
    BY <1>4, <1>5, <1>6, <1>7

\* However an append ends, the journal guards what it guarded, unless the
\* record says that nothing was sent.
LEMMA AppendGuards ==
    ASSUME JournalTypeOK, NEW i \in Inv, NEW e \in Events,
           AppendReturns(i, e) \/ AppendThrows(i, e), NEW j \in Inv
    PROVE  /\ torn => torn'
           /\ \A f : Recorded(j, f) => Recorded(j, f)'
           /\ ~ClosesDispatch(e) \/ i # j => (Guarded(j) => Guarded(j)')
<1>1. CASE Persist(i, e)
    <2>1. torn' = torn
        BY <1>1 DEF Persist
    <2>2. i # j /\ MustNotRedispatch(j) => MustNotRedispatch(j)'
        BY <1>1 DEF Persist, JournalTypeOK, MustNotRedispatch, PendingIn, OpensDispatch,
                    ClosesDispatch
    <2>. QED
        BY <1>1, <2>1, <2>2, PersistKeeps DEF Guarded
<1>2. CASE Tear
    BY <1>2 DEF Tear, Guarded, Recorded
<1>3. CASE UNCHANGED journalVars
    BY <1>3 DEF journalVars, Guarded, Recorded, MustNotRedispatch, PendingIn,
                OpensDispatch, ClosesDispatch
<1>. QED
    BY <1>1, <1>2, <1>3 DEF AppendReturns, AppendThrows

\* What append() wrote when it returned.
LEMMA AppendWrites ==
    ASSUME JournalTypeOK, NEW i \in Inv, NEW e \in Events, AppendReturns(i, e)
    PROVE  /\ torn' \/ Recorded(i, e)'
           /\ OpensDispatch(e) => torn' \/ MustNotRedispatch(i)'
<1>1. CASE Persist(i, e)
    BY <1>1, PersistKeeps
<1>2. CASE Tear
    BY <1>2 DEF Tear
<1>. QED
    BY <1>1, <1>2 DEF AppendReturns

-----------------------------------------------------------------------------
(* The network. *)

QuietNetwork == UNCHANGED <<net, sent, execs>>

LEMMA QuietKeeps ==
    ASSUME QuietNetwork
    PROVE  /\ NetworkInv => NetworkInv'
           /\ \A i \in Inv : Untouched(i) <=> Untouched(i)'
BY DEF QuietNetwork, NetworkInv, Untouched, InFlight

\* Sending an untouched command for the first, or again the only, time.
LEMMA TransmitKeeps ==
    ASSUME CameraTypeOK, NetworkInv, NEW i \in Inv, NEW op \in {"command", "restore"},
           NEW to \in Positions \cup {None}, Transmit(i, op, to),
           op = "command" => Untouched(i)
    PROVE  /\ NetworkInv'
           /\ \A j \in Inv : j # i \/ op = "restore" => (Untouched(j) => Untouched(j)')
           /\ \A r \in net' : r.n = sent' => r.inv = i /\ r.op = op
<1>. DEFINE new == [n |-> sent + 1, inv |-> i, op |-> op, to |-> to]
<1>1. /\ net' = net \cup {new} /\ sent' = sent + 1 /\ execs' = execs
      /\ sent \in Nat /\ net \subseteq Requests
    BY DEF Transmit, CameraTypeOK
<1>2. /\ new.n = sent + 1 /\ new.inv = i /\ new.op = op
    OBVIOUS
<1>. HIDE DEF new
<1>3. \A r \in net : r.n \in Nat /\ r.n <= sent
    BY <1>1 DEF NetworkInv, Requests
<1>4. \A r \in net' : r.n <= sent'
    BY <1>1, <1>2, <1>3
<1>5. \A q, r \in net' :
          q.op = "command" /\ r.op = "command" /\ q.inv = r.inv => q = r
    BY <1>1, <1>2 DEF NetworkInv, Untouched, InFlight
<1>6. \A j \in Inv : execs'[j] <= 1 /\ (InFlight(j)' => execs'[j] = 0)
    BY <1>1, <1>2 DEF NetworkInv, Untouched, InFlight
<1>7. \A j \in Inv : j # i \/ op = "restore" => (Untouched(j) => Untouched(j)')
    BY <1>1, <1>2 DEF Untouched, InFlight
<1>8. \A r \in net' : r.n = sent' => r.inv = i /\ r.op = op
    BY <1>1, <1>2, <1>3
<1>. QED
    BY <1>4, <1>5, <1>6, <1>7, <1>8 DEF NetworkInv

\* The device and the path create no request, execute one command once, and
\* leave what is untouched alone; a 401 for the only request of a command
\* means that it is untouched.
LEMMA EnvironmentKeeps ==
    ASSUME CameraTypeOK, NetworkInv, CameraNext
    PROVE  /\ NetworkInv'
           /\ \A i \in Inv : Untouched(i) => Untouched(i)'
           /\ net' \subseteq net /\ sent' = sent
           /\ reply' = "unauth" /\ reply # "unauth" =>
                 \E r \in net : r.n = sent /\ (r.op = "command" => Untouched(r.inv)')
<1>1. CASE DeviceExecutes
    <2>1. PICK r \in net :
              /\ net' = net \ {r}
              /\ execs' = IF r.op = "command" THEN [execs EXCEPT ![r.inv] = @ + 1]
                          ELSE execs
              /\ \E a \in {"ok", "error", "gateway"} : Answer(r, a)
              /\ UNCHANGED sent
        BY <1>1 DEF DeviceExecutes
    <2>2. r.inv \in Inv /\ r.op \in {"command", "restore"} /\ execs \in [Inv -> Nat]
        BY DEF CameraTypeOK, Requests
    <2>3. \A i \in Inv : execs[i] <= 1 /\ execs[i] \in Nat
        BY <2>2 DEF NetworkInv
    <2>4. \A i \in Inv : InFlight(i)' => InFlight(i)
        BY <2>1 DEF InFlight
    <2>5. CASE r.op = "command"
        <3>1. InFlight(r.inv) /\ ~InFlight(r.inv)'
            BY <2>1, <2>5 DEF InFlight, NetworkInv
        <3>2. execs[r.inv] = 0 /\ execs'[r.inv] = 1
            BY <2>1, <2>2, <2>3, <2>5, <3>1 DEF NetworkInv
        <3>3. \A i \in Inv : i # r.inv => execs'[i] = execs[i]
            BY <2>1, <2>2, <2>5
        <3>4. NetworkInv'
            BY <2>1, <2>3, <2>4, <3>1, <3>2, <3>3 DEF NetworkInv
        <3>. QED
            BY <2>1, <2>2, <2>4, <3>1, <3>2, <3>3, <3>4 DEF Untouched, Answer
    <2>6. CASE r.op = "restore"
        BY <2>1, <2>4, <2>6 DEF NetworkInv, Untouched, InFlight, Answer
    <2>. QED
        BY <2>2, <2>5, <2>6
<1>2. CASE DeviceRejects \/ NetworkLoses
    <2>1. PICK r \in net :
              /\ net' = net \ {r}
              /\ \E a \in Replies : Answer(r, a)
              /\ UNCHANGED <<sent, execs>>
        BY <1>2 DEF DeviceRejects, NetworkLoses, Replies
    <2>2. \A i \in Inv : InFlight(i)' => InFlight(i)
        BY <2>1 DEF InFlight
    <2>3. NetworkInv'
        BY <2>1, <2>2 DEF NetworkInv
    <2>4. r.op = "command" => Untouched(r.inv)'
        BY <2>1 DEF NetworkInv, Untouched, InFlight, CameraTypeOK, Requests
    <2>. QED
        BY <2>1, <2>2, <2>3, <2>4 DEF Untouched, Answer
<1>3. CASE CameraSettles
    BY <1>3 DEF CameraSettles, NetworkInv, Untouched, InFlight
<1>. QED
    BY <1>1, <1>2, <1>3 DEF CameraNext

-----------------------------------------------------------------------------
(* The process. *)

\* A step that leaves the network and the journal alone, and stays where
\* sending is no longer at issue, or keeps what ProcessInv asks of its place.
LEMMA QuietStep ==
    ASSUME TypeOK, CommandInv, QuietNetwork, UNCHANGED journalVars,
           ProcessInv', AuthorizedInv', RefusalIsHonest',
           \A i \in Unauthorized : recovery'[i] = recovery[i]
    PROVE  CommandInv'
<1>1. NetworkInv' /\ \A i \in Inv : Untouched(i) <=> Untouched(i)'
    BY QuietKeeps DEF CommandInv
<1>2. \A i \in Inv : Guarded(i) <=> Guarded(i)'
    BY DEF Guarded, journalVars, Recorded, MustNotRedispatch, PendingIn, OpensDispatch,
           ClosesDispatch
<1>3. JournalInv'
    BY <1>1, <1>2 DEF CommandInv, JournalInv
<1>4. UnauthorizedNeverSent'
    BY <1>1, DeploymentAssumption DEF CommandInv, UnauthorizedNeverSent, Untouched
<1>. QED
    BY <1>1, <1>3, <1>4 DEF CommandInv

\* The process ends: whatever it was doing.
LEMMA AbortKeeps ==
    ASSUME TypeOK, CommandInv, Abort, UNCHANGED journalVars
    PROVE  CommandInv'
BY QuietStep DEF Abort, QuietNetwork, ProcessInv, AuthorizedInv, AdapterPhases,
                 RefusalIsHonest

\* An append that fails or not, followed by a step that leaves the network
\* and the recovery files alone and keeps what ProcessInv asks of its place.
LEMMA AppendStep ==
    ASSUME TypeOK, CommandInv, NEW e \in Events,
           AppendReturns(cur, e) \/ AppendThrows(cur, e),
           ClosesDispatch(e) => Untouched(cur),
           QuietNetwork, UNCHANGED recovery,
           ProcessInv', AuthorizedInv', RefusalIsHonest'
    PROVE  CommandInv'
<1>1. NetworkInv' /\ \A i \in Inv : Untouched(i) <=> Untouched(i)'
    BY QuietKeeps DEF CommandInv
<1>2. cur \in Inv /\ JournalTypeOK
    BY DEF TypeOK
<1>3. \A j \in Inv : ~ClosesDispatch(e) \/ cur # j => (Guarded(j) => Guarded(j)')
    BY <1>2, AppendGuards
<1>4. JournalInv'
    BY <1>1, <1>3 DEF CommandInv, JournalInv
<1>5. UnauthorizedNeverSent'
    BY <1>1, DeploymentAssumption DEF CommandInv, UnauthorizedNeverSent, Untouched
<1>. QED
    BY <1>1, <1>4, <1>5 DEF CommandInv

\* RecordOrAbort, from a phase where sending is not at issue to another.
LEMMA RecordKeeps ==
    ASSUME TypeOK, CommandInv, NEW e \in Events, NEW p, RecordOrAbort(e, p),
           ClosesDispatch(e) => Untouched(cur),
           AppendReturns(cur, e) /\ pc' = p /\ UNCHANGED <<cur, run, recovery, cameraVars>>
               => ProcessInv' /\ AuthorizedInv' /\ RefusalIsHonest'
    PROVE  CommandInv'
<1>1. CASE Abort
    <2>1. ProcessInv' /\ AuthorizedInv' /\ RefusalIsHonest' /\ QuietNetwork
          /\ UNCHANGED recovery
        BY <1>1 DEF Abort, QuietNetwork, ProcessInv, AuthorizedInv, AdapterPhases,
                    RefusalIsHonest
    <2>. QED
        BY <2>1, AppendStep DEF RecordOrAbort
<1>2. CASE AppendReturns(cur, e) /\ pc' = p /\ UNCHANGED <<cur, run, recovery, cameraVars>>
    BY <1>2, AppendStep DEF QuietNetwork, cameraVars
<1>. QED
    BY <1>1, <1>2 DEF RecordOrAbort

\* One step of an adapter.
LEMMA AdapterKeeps ==
    ASSUME TypeOK, CommandInv, AdapterStep, UNCHANGED journalVars
    PROVE  CommandInv'
<1>. DEFINE Places == ProcessInv' /\ AuthorizedInv' /\ RefusalIsHonest'
<1>0. /\ cur \in Inv /\ run \in Run /\ CameraTypeOK
      /\ NetworkInv /\ JournalInv /\ ProcessInv /\ AuthorizedInv
      /\ RefusalIsHonest /\ UnauthorizedNeverSent
      /\ Target(cur) \in Positions \cup {None}
      /\ run.baseline \in Positions \cup {None}
      /\ recovery \in [Inv -> Positions \cup {None}]
    BY DeploymentAssumption DEF TypeOK, CommandInv, Run, Target
<1>1. ASSUME StopWaiting \/ UNCHANGED cameraVars
      PROVE  /\ QuietNetwork
             /\ \A i \in Inv : Untouched(i) <=> Untouched(i)'
    BY <1>1, QuietKeeps DEF StopWaiting, cameraVars, QuietNetwork
<1>2. \A i \in Inv : Guarded(i) <=> Guarded(i)'
    BY DEF Guarded, journalVars, Recorded, MustNotRedispatch, PendingIn, OpensDispatch,
           ClosesDispatch
<1>3. ASSUME NEW p \in {"readback", "poll", "verify", "persist"}, NEW r, Goto(p, r),
             StopWaiting \/ UNCHANGED cameraVars,
             p = "persist" => Untouched(cur) /\ Guarded(cur),
             p = "verify" => r.outcome # "refused",
             pc \in AdapterPhases
      PROVE  CommandInv'
    <2>1. cur' = cur /\ pc' = p /\ run' = r /\ recovery' = recovery
        BY <1>3 DEF Goto
    <2>2. Places
        BY <1>0, <1>1, <1>2, <1>3, <2>1 DEF ProcessInv, AuthorizedInv, RefusalIsHonest,
                                           AdapterPhases
    <2>. QED
        BY <1>1, <1>3, <2>1, <2>2, QuietStep
<1>4. ASSUME NEW o \in Levels, Conclude(o), StopWaiting \/ UNCHANGED cameraVars,
             pc \in AdapterPhases
      PROVE  CommandInv'
    <2>1. cur' = cur /\ pc' \in {"restore", "observe"} /\ recovery' = recovery
        BY <1>4 DEF Conclude, Goto
    <2>2. run'.outcome = o
        BY <1>0, <1>4 DEF Conclude, Goto, Run
    <2>3. Places
        BY <1>0, <1>4, <2>1, <2>2 DEF ProcessInv, AuthorizedInv, RefusalIsHonest,
                                      AdapterPhases, Levels
    <2>. QED
        BY <1>1, <1>4, <2>1, <2>3, QuietStep
<1>5. ASSUME NotDispatched, Untouched(cur), pc \in AdapterPhases
      PROVE  CommandInv'
    <2>1. CASE Abort
        BY <2>1, AbortKeeps
    <2>2. CASE /\ recovery' = [recovery EXCEPT ![cur] = None]
               /\ pc' = "refuse"
               /\ StopWaiting
               /\ UNCHANGED cur
        <3>1. Places
            BY <1>0, <1>1, <1>5, <2>2 DEF ProcessInv, AuthorizedInv, RefusalIsHonest,
                                          AdapterPhases
        <3>2. \A i \in Unauthorized : recovery'[i] = recovery[i]
            BY <1>0, <2>2, DeploymentAssumption DEF UnauthorizedNeverSent
        <3>. QED
            BY <1>1, <2>2, <3>1, <3>2, QuietStep
    <2>. QED
        BY <1>5, <2>1, <2>2 DEF NotDispatched
<1>6. ASSUME CommandFailed, pc \in AdapterPhases
      PROVE  CommandInv'
    <2>1. StreamFailure(reply) \in Levels
        BY DEF StreamFailure, Levels
    <2>. QED
        BY <1>3, <1>4, <1>6, <2>1 DEF CommandFailed
<1>7. ASSUME NEW v, RestoreDone(v), run.outcome # "refused", pc \in AdapterPhases,
             StopWaiting \/ UNCHANGED cameraVars,
             \/ UNCHANGED recovery
             \/ recovery' = [recovery EXCEPT ![cur] = None]
      PROVE  CommandInv'
    <2>1. cur' = cur /\ pc' \in {"emit", "observe"} /\ run'.outcome # "refused"
        BY <1>0, <1>7 DEF RestoreDone, Run
    <2>2. Places
        BY <1>0, <1>7, <2>1 DEF ProcessInv, AuthorizedInv, RefusalIsHonest, AdapterPhases
    <2>3. \A i \in Unauthorized : recovery'[i] = recovery[i]
        BY <1>0, <1>7, DeploymentAssumption DEF UnauthorizedNeverSent
    <2>. QED
        BY <1>1, <1>7, <2>2, <2>3, QuietStep
<1>8. ASSUME NEW op \in {"command", "restore"}, NEW to \in Positions \cup {None},
             Transmit(cur, op, to), NEW p, NEW r, Goto(p, r), pc \in AdapterPhases,
             \/ op = "command" /\ p = "await" /\ Untouched(cur) /\ Guarded(cur)
             \/ op = "restore" /\ p = "awaitRestore" /\ r.outcome # "refused"
      PROVE  CommandInv'
    <2>1. cur' = cur /\ pc' = p /\ run' = r /\ recovery' = recovery
        BY <1>8 DEF Goto
    <2>2. /\ NetworkInv'
          /\ \A j \in Inv : j # cur \/ op = "restore" => (Untouched(j) => Untouched(j)')
          /\ \A q \in net' : q.n = sent' => q.inv = cur /\ q.op = op
        BY <1>0, <1>8, TransmitKeeps
    <2>3. JournalInv'
        BY <1>0, <1>2, <1>8, <2>2 DEF JournalInv
    <2>4. reply' = "pending"
        BY <1>8 DEF Transmit
    <2>5. Places
        BY <1>0, <1>2, <1>8, <2>1, <2>2, <2>4
        DEF ProcessInv, AuthorizedInv, RefusalIsHonest, AdapterPhases
    <2>6. UnauthorizedNeverSent'
        <3>1. cur \notin Unauthorized \/ op = "restore"
            BY <1>0, <1>8 DEF AuthorizedInv
        <3>. QED
            BY <1>0, <2>1, <2>2, <3>1, DeploymentAssumption
            DEF UnauthorizedNeverSent, Untouched
    <2>. QED
        BY <2>2, <2>3, <2>5, <2>6 DEF CommandInv
<1>9. CASE ReadBaseline
    <2>1. Untouched(cur) /\ Guarded(cur) /\ pc \in AdapterPhases
        BY <1>0, <1>9 DEF ReadBaseline, ProcessInv, AdapterPhases
    <2>2. CASE Goto("persist", [run EXCEPT !.baseline = pos])
        BY <1>3, <1>9, <2>1, <2>2 DEF ReadBaseline
    <2>3. CASE Goto("refuse", [run EXCEPT !.outcome = "refused"])
        <3>1. QuietNetwork /\ Places
            BY <1>0, <1>1, <1>9, <2>1, <2>3
            DEF ReadBaseline, Goto, ProcessInv, AuthorizedInv, RefusalIsHonest,
                AdapterPhases
        <3>. QED
            BY <2>3, <3>1, QuietStep DEF Goto
    <2>. QED
        BY <1>9, <2>2, <2>3 DEF ReadBaseline
<1>10. CASE PersistRecovery
    <2>1. Untouched(cur) /\ Guarded(cur) /\ cur \notin Unauthorized
        BY <1>0, <1>10 DEF PersistRecovery, ProcessInv, AuthorizedInv, AdapterPhases
    <2>2. CASE /\ recovery' = [recovery EXCEPT ![cur] = run.baseline]
               /\ pc' = "send"
               /\ UNCHANGED <<cur, run, cameraVars>>
        <3>1. QuietNetwork /\ Places
            BY <1>0, <1>1, <1>2, <2>1, <2>2
            DEF ProcessInv, AuthorizedInv, RefusalIsHonest, AdapterPhases
        <3>2. \A i \in Unauthorized : recovery'[i] = recovery[i]
            BY <1>0, <2>1, <2>2, DeploymentAssumption
        <3>. QED
            BY <3>1, <3>2, QuietStep
    <2>. QED
        BY <1>10, <2>2, AbortKeeps DEF PersistRecovery
<1>11. CASE SendCommand
    <2>1. Untouched(cur) /\ Guarded(cur) /\ pc \in AdapterPhases
        BY <1>0, <1>11 DEF SendCommand, ProcessInv, AdapterPhases
    <2>. QED
        BY <1>0, <1>5, <1>8, <1>11, <2>1 DEF SendCommand
<1>12. CASE CommandUnauthorized
    <2>1. Untouched(cur) /\ Guarded(cur) /\ pc \in AdapterPhases
        BY <1>0, <1>12 DEF CommandUnauthorized, ProcessInv, AdapterPhases
    <2>. QED
        BY <1>0, <1>5, <1>6, <1>8, <1>12, <2>1 DEF CommandUnauthorized
<1>13. CASE CommandTimesOut \/ CommandRejected
    BY <1>4, <1>6, <1>13 DEF CommandTimesOut, CommandRejected, AdapterPhases, Levels
<1>14. CASE CommandAccepted
    BY <1>3, <1>4, <1>14 DEF CommandAccepted, AdapterPhases, Levels
<1>15. CASE ReadAfterRejection
    BY <1>4, <1>15 DEF ReadAfterRejection, AdapterPhases, Levels
<1>16. CASE PollMatches \/ PollExpires \/ PollFails
    BY <1>4, <1>16 DEF PollMatches, PollExpires, PollFails, AdapterPhases, Levels
<1>17. CASE PollMisses
    BY <1>3, <1>17 DEF PollMisses, AdapterPhases
<1>18. ASSUME pc \in {"restore", "awaitRestore", "verify"}
       PROVE  run.outcome # "refused" /\ pc \in AdapterPhases
    BY <1>0, <1>18 DEF ProcessInv, AdapterPhases
<1>19. CASE SendRestore
    BY <1>0, <1>7, <1>8, <1>18, <1>19 DEF SendRestore, RestoreUnverified
<1>20. CASE RestoreAccepted
    BY <1>3, <1>18, <1>20 DEF RestoreAccepted
<1>21. CASE RestoreRepairsNonce
    <2>1. [run EXCEPT !.resent = TRUE].outcome = run.outcome
        BY <1>0 DEF Run
    <2>. QED
        BY <1>0, <1>8, <1>18, <1>21, <2>1 DEF RestoreRepairsNonce
<1>22. CASE RestoreFails \/ VerifyExpires
    BY <1>7, <1>18, <1>22 DEF RestoreFails, VerifyExpires, RestoreUnverified
<1>23. CASE VerifyMatches
    BY <1>7, <1>18, <1>23, AbortKeeps DEF VerifyMatches
<1>. QED
    BY <1>9, <1>10, <1>11, <1>12, <1>13, <1>14, <1>15, <1>16, <1>17, <1>19, <1>20,
       <1>21, <1>22, <1>23 DEF AdapterStep

-----------------------------------------------------------------------------
(* The whole enforcement point. *)

LEMMA InitKeeps == Init => CommandInv
BY DeploymentAssumption
DEF Init, JournalInit, CameraInit, CommandInv, NetworkInv, JournalInv, ProcessInv,
    AuthorizedInv, AdapterPhases, RefusalIsHonest, UnauthorizedNeverSent, Untouched,
    InFlight

LEMMA NextKeeps ==
    ASSUME TypeOK, CommandInv, [Next]_vars
    PROVE  CommandInv'
<1>. DEFINE Places == ProcessInv' /\ AuthorizedInv' /\ RefusalIsHonest'
<1>. USE DEF QuietNetwork, ClosesDispatch
<1>0. /\ cur \in Inv /\ run \in Run /\ JournalTypeOK /\ CameraTypeOK
      /\ NetworkInv /\ JournalInv /\ ProcessInv /\ AuthorizedInv
      /\ RefusalIsHonest /\ UnauthorizedNeverSent
    BY DEF TypeOK, CommandInv
<1>1. \A i \in Unauthorized : i \in Inv /\ Untouched(i)
    BY <1>0, DeploymentAssumption DEF UnauthorizedNeverSent, Untouched
<1>2. [run EXCEPT !.outcome = "refused"].outcome = "refused"
    BY <1>0 DEF Run
<1>3. ASSUME NEW i \in Inv, Start(i) PROVE CommandInv'
    BY <1>3, QuietStep DEF Start, journalVars, cameraVars, ProcessInv, AuthorizedInv,
                           AdapterPhases, RefusalIsHonest
<1>4. CASE RecordRequest
    BY <1>4, RecordKeeps
    DEF RecordRequest, Events, ProcessInv, AuthorizedInv, AdapterPhases, RefusalIsHonest
<1>5. CASE RecordAuthorization
    BY <1>5, RecordKeeps
    DEF RecordAuthorization, Events, ProcessInv, AuthorizedInv, AdapterPhases,
        RefusalIsHonest
<1>6. CASE RefuseUnauthorized
    <2>1. UNCHANGED <<net, sent, execs, recovery, cur>>
        BY <1>6 DEF RefuseUnauthorized, Goto, Abort, cameraVars
    <2>2. Untouched(cur)'
        BY <1>1, <1>6, <2>1 DEF RefuseUnauthorized, Untouched, InFlight
    <2>3. Places
        BY <1>6, <2>2
        DEF RefuseUnauthorized, Goto, Abort, ProcessInv, AuthorizedInv, AdapterPhases,
            RefusalIsHonest, Untouched
    <2>. QED
        BY <1>6, <2>1, <2>3, AppendStep DEF RefuseUnauthorized, Events
<1>7. CASE Branch
    <2>1. CASE Abort
        BY <1>7, <2>1, AbortKeeps DEF Branch
    <2>2. CASE Reconcile
        <3>1. Places
            BY <1>0, <1>7, <2>2
            DEF Branch, Reconcile, Goto, ProcessInv, AuthorizedInv, AdapterPhases,
                RefusalIsHonest, Run
        <3>. QED
            BY <1>7, <2>2, <3>1, QuietStep DEF Branch, Reconcile, Goto, cameraVars
    <2>3. CASE ~torn /\ ~MustNotRedispatch(cur) /\ Goto("commit", run) /\ UNCHANGED cameraVars
        <3>1. Untouched(cur) /\ QuietNetwork /\ cur' = cur /\ pc' = "commit"
            BY <1>0, <2>3 DEF JournalInv, Guarded, Goto, cameraVars
        <3>2. Places
            BY <1>7, <3>1, QuietKeeps, <1>0
            DEF Branch, ProcessInv, AuthorizedInv, AdapterPhases, RefusalIsHonest
        <3>. QED
            BY <1>7, <2>3, <3>1, <3>2, QuietStep DEF Branch, Goto
    <2>. QED
        BY <1>7, <2>1, <2>2, <2>3 DEF Branch
<1>8. CASE CommitAttempt
    <2>1. /\ Untouched(cur) /\ cur \notin Unauthorized
          /\ QuietNetwork /\ cur' = cur /\ recovery' = recovery
        BY <1>0, <1>8 DEF CommitAttempt, Goto, cameraVars, ProcessInv, AuthorizedInv
    <2>2. Untouched(cur)'
        BY <1>0, <2>1, QuietKeeps
    <2>3. CASE AppendReturns(cur, "action_attempt_committed") /\ Goto("intent", run)
        <3>1. torn' \/ Recorded(cur, "action_attempt_committed")'
            BY <1>0, <2>1, <2>3, AppendWrites DEF Events
        <3>2. Places
            BY <2>1, <2>2, <2>3, <3>1
            DEF Goto, ProcessInv, AuthorizedInv, AdapterPhases, RefusalIsHonest
        <3>. QED
            BY <2>1, <2>3, <3>2, AppendStep DEF Events
    <2>4. CASE /\ AppendThrows(cur, "action_attempt_committed")
               /\ Goto("journalRefusal", run)
        <3>1. Places
            BY <2>1, <2>2, <2>4
            DEF Goto, ProcessInv, AuthorizedInv, AdapterPhases, RefusalIsHonest
        <3>. QED
            BY <2>1, <2>4, <3>1, AppendStep DEF Events
    <2>. QED
        BY <1>8, <2>3, <2>4 DEF CommitAttempt
<1>9. CASE RecordJournalRefusal
    <2>1. Untouched(cur) /\ QuietNetwork /\ cur' = cur /\ recovery' = recovery
        BY <1>0, <1>9 DEF RecordJournalRefusal, Goto, cameraVars, ProcessInv
    <2>2. Places
        BY <1>0, <1>9, <2>1, QuietKeeps
        DEF RecordJournalRefusal, Goto, ProcessInv, AuthorizedInv, AdapterPhases,
            RefusalIsHonest, Untouched
    <2>. QED
        BY <1>9, <2>1, <2>2, AppendStep DEF RecordJournalRefusal, Events
<1>10. CASE RecordIntent
    <2>1. /\ Untouched(cur) /\ cur \notin Unauthorized
          /\ torn \/ Recorded(cur, "action_attempt_committed")
        BY <1>0, <1>10 DEF RecordIntent, ProcessInv, AuthorizedInv
    <2>2. ASSUME AppendReturns(cur, "dispatch_intent_persisted"),
                 pc' = DispatchEntry, UNCHANGED <<cur, run, recovery, cameraVars>>
          PROVE  Places
        <3>1. /\ torn' \/ MustNotRedispatch(cur)'
              /\ torn' \/ Recorded(cur, "dispatch_intent_persisted")'
            BY <1>0, <2>2, AppendWrites DEF Events, OpensDispatch
        <3>2. torn' \/ Recorded(cur, "action_attempt_committed")'
            BY <1>0, <2>1, <2>2, AppendGuards DEF Events
        <3>3. Guarded(cur)' /\ Untouched(cur)' /\ cur' = cur
            BY <1>0, <2>1, <2>2, <3>1, <3>2, QuietKeeps DEF Guarded, cameraVars
        <3>4. Guarded(cur') <=> Guarded(cur)
            BY <2>2
        <3>5. pc' \in {"baseline", "send"}
            BY <2>2 DEF DispatchEntry
        <3>. QED
            BY <2>1, <2>2, <3>3, <3>5
            DEF ProcessInv, AuthorizedInv, AdapterPhases, RefusalIsHonest, Guarded,
                Recorded, MustNotRedispatch, PendingIn, OpensDispatch, Untouched, InFlight
    <2>. QED
        BY <1>10, <2>2, RecordKeeps DEF RecordIntent, Events
<1>11. CASE Dispatch
    BY <1>11, AdapterKeeps DEF Dispatch
<1>12. CASE RecordDispatch
    <2>1. run.outcome # "refused"
        BY <1>0, <1>12 DEF RecordDispatch, ProcessInv
    <2>. QED
        BY <1>12, <2>1, RecordKeeps
        DEF RecordDispatch, Events, ProcessInv, AuthorizedInv, AdapterPhases,
            RefusalIsHonest
<1>13. CASE RecordRefusal
    <2>1. Untouched(cur)
        BY <1>0, <1>13 DEF RecordRefusal, ProcessInv
    <2>. QED
        BY <1>13, <2>1, RecordKeeps
        DEF RecordRefusal, Events, ProcessInv, AuthorizedInv, AdapterPhases,
            RefusalIsHonest, Untouched, InFlight, cameraVars
<1>14. CASE EmitBundle
    <2>1. CASE Abort
        BY <1>14, <2>1, AbortKeeps DEF EmitBundle
    <2>2. CASE pc' = "emitted" /\ UNCHANGED <<cur, run, recovery, cameraVars>>
        <3>1. Places /\ QuietNetwork
            BY <1>0, <1>14, <2>2
            DEF EmitBundle, ProcessInv, AuthorizedInv, AdapterPhases, RefusalIsHonest,
                InFlight, cameraVars
        <3>. QED
            BY <1>14, <2>2, <3>1, QuietStep DEF EmitBundle
    <2>. QED
        BY <1>14, <2>1, <2>2 DEF EmitBundle
<1>15. CASE RecordBundle
    <2>1. Places /\ QuietNetwork /\ UNCHANGED recovery
        BY <1>15 DEF RecordBundle, Abort, ProcessInv, AuthorizedInv, AdapterPhases,
                     RefusalIsHonest
    <2>. QED
        BY <1>15, <2>1, AppendStep DEF RecordBundle, Events
<1>16. CASE Crash
    BY <1>16, AbortKeeps DEF Crash
<1>17. CASE Environment
    <2>1. /\ NetworkInv'
          /\ \A i \in Inv : Untouched(i) => Untouched(i)'
          /\ net' \subseteq net /\ sent' = sent
          /\ reply' = "unauth" /\ reply # "unauth" =>
                \E r \in net : r.n = sent /\ (r.op = "command" => Untouched(r.inv)')
        BY <1>0, <1>17, EnvironmentKeeps DEF Environment
    <2>2. UNCHANGED <<journalVars, pc, cur, run, recovery>>
        BY <1>17 DEF Environment, adapterVars
    <2>3. /\ \A i \in Inv : Guarded(i) => Guarded(i)'
          /\ \A f : Recorded(cur, f) => Recorded(cur, f)'
          /\ torn' = torn
        BY <2>2 DEF Guarded, journalVars, Recorded, MustNotRedispatch, PendingIn,
                    OpensDispatch, ClosesDispatch
    <2>4. JournalInv'
        BY <1>0, <2>1, <2>3 DEF JournalInv
    <2>5. pc = "await" /\ reply' = "unauth" => Untouched(cur)'
        BY <1>0, <2>1, <2>2 DEF ProcessInv, Untouched, InFlight
    <2>6. ProcessInv'
        BY <1>0, <2>1, <2>2, <2>3, <2>5
        DEF ProcessInv, Guarded, Recorded, MustNotRedispatch, Untouched, InFlight
    <2>7. AuthorizedInv' /\ RefusalIsHonest' /\ UnauthorizedNeverSent'
        BY <1>0, <1>1, <2>1, <2>2
        DEF AuthorizedInv, RefusalIsHonest, UnauthorizedNeverSent, Untouched, InFlight
    <2>. QED
        BY <2>1, <2>4, <2>6, <2>7 DEF CommandInv
<1>18. CASE UNCHANGED vars
    BY <1>18, QuietStep
    DEF vars, cameraVars, adapterVars, CommandInv, ProcessInv, AuthorizedInv,
        RefusalIsHonest, Guarded, Recorded, MustNotRedispatch, Untouched, InFlight,
        journalVars
<1>. QED
    BY <1>3, <1>4, <1>5, <1>6, <1>7, <1>8, <1>9, <1>10, <1>11, <1>12, <1>13, <1>14,
       <1>15, <1>16, <1>17, <1>18 DEF Next, EpStep

\* The inductive invariant of the enforcement point holds.
THEOREM EpCommandInv == Spec => [](TypeOK /\ CommandInv)
<1>1. Init => TypeOK /\ CommandInv
    BY InitTyped, InitKeeps
<1>2. TypeOK /\ CommandInv /\ [Next]_vars => (TypeOK /\ CommandInv)'
    BY NextTyped, NextKeeps
<1>. QED
    BY <1>1, <1>2, PTL DEF Spec

\* produce(), the journal and the adapters execute a command at most once,
\* through any number of crashes, reruns, timeouts and resent requests.
THEOREM EpAtMostOnce == Spec => []AtMostOnce
<1>1. TypeOK /\ CommandInv => AtMostOnce
    BY DEF CommandInv, NetworkInv, AtMostOnce
<1>. QED
    BY <1>1, EpCommandInv, PTL

\* The pre-send gate (D3): no command leaves before its attempt and intent
\* are in the journal, short of a torn file.
THEOREM EpNoUncommittedDispatch == Spec => []NoUncommittedDispatch
<1>1. ASSUME TypeOK, CommandInv PROVE NoUncommittedDispatch
    <2>1. execs \in [Inv -> Nat] /\ JournalInv
        BY <1>1 DEF TypeOK, CameraTypeOK, CommandInv
    <2>. QED
        BY <2>1 DEF JournalInv, Guarded, Untouched, NoUncommittedDispatch
<1>. QED
    BY <1>1, EpCommandInv, PTL

\* A refusal that produce() is about to sign is true: the command was not
\* executed and is not on its way to the device.
THEOREM EpRefusalIsHonest == Spec => []RefusalIsHonest
<1>1. TypeOK /\ CommandInv => RefusalIsHonest
    BY DEF CommandInv
<1>. QED
    BY <1>1, EpCommandInv, PTL

\* evaluateAuthorization's refusal is respected: an expired delegation never
\* reaches the wire, nor a recovery file.
THEOREM EpUnauthorizedNeverSent == Spec => []UnauthorizedNeverSent
<1>1. TypeOK /\ CommandInv => UnauthorizedNeverSent
    BY DEF CommandInv
<1>. QED
    BY <1>1, EpCommandInv, PTL
=============================================================================

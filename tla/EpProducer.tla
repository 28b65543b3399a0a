------------------------------ MODULE EpProducer ------------------------------
(***************************************************************************)
(* produce() of demo/ep/producer.ts: one process that takes an invocation  *)
(* from its signed request to its bundle, recording each step in the       *)
(* journal before it takes the next, and that an operator may run again,   *)
(* after a crash or after it finished.  The invocations share the journal  *)
(* file, the camera and the output directory; one process runs at a time.  *)
(***************************************************************************)
EXTENDS Journal, Adapter

VARIABLES
    starts,                 \* how many runs were started
    report                  \* report[i]: what the last bundle written for i says

vars == <<journalVars, cameraVars, adapterVars, starts, report>>

NoReport == [level |-> "none", restored |-> FALSE]
Reports == [level : Levels \cup {"none", "refused"}, restored : BOOLEAN]

Phases == AdapterPhases \cup
          {"idle", "request", "authorize", "branch", "commit", "journalRefusal",
           "intent", "observe", "refuse", "emit", "emitted"}

TypeOK ==
    /\ JournalTypeOK
    /\ CameraTypeOK
    /\ pc \in Phases
    /\ cur \in Inv
    /\ run \in Run
    /\ recovery \in [Inv -> Positions \cup {None}]
    /\ starts \in 0 .. MaxStarts
    /\ report \in [Inv -> Reports]

Init ==
    /\ JournalInit
    /\ CameraInit
    /\ pc = "idle"
    /\ cur \in Inv
    /\ run = FreshRun
    /\ recovery = [i \in Inv |-> None]
    /\ starts = 0
    /\ report = [i \in Inv |-> NoReport]

-----------------------------------------------------------------------------

\* An operator runs an invocation, for the first time or again.
Start(i) ==
    /\ pc = "idle"
    /\ starts < MaxStarts
    /\ pc' = "request"
    /\ cur' = i
    /\ starts' = starts + 1
    /\ UNCHANGED <<journalVars, cameraVars, run, recovery, report>>

\* Records an event; produce() does not catch a failure of this append.
RecordOrAbort(e, next) ==
    \/ /\ AppendReturns(cur, e)
       /\ pc' = next
       /\ UNCHANGED <<cur, run, recovery, cameraVars>>
    \/ /\ AppendThrows(cur, e)
       /\ Abort

RecordRequest ==
    /\ pc = "request"
    /\ RecordOrAbort("request_signed", "authorize")
    /\ UNCHANGED <<starts, report>>

RecordAuthorization ==
    /\ pc = "authorize"
    /\ RecordOrAbort("authorization_evaluated", "branch")
    /\ UNCHANGED <<starts, report>>

\* An expired delegation is refused without a look at the journal.
RefuseUnauthorized ==
    /\ pc = "branch"
    /\ cur \in Unauthorized
    /\ \/ /\ AppendReturns(cur, "refusal_persisted")
          /\ Goto("emit", [run EXCEPT !.outcome = "refused"])
          /\ UNCHANGED cameraVars
       \/ /\ AppendThrows(cur, "refusal_persisted")
          /\ Abort
    /\ UNCHANGED <<starts, report>>

\* The journal decides between dispatching and reconciling; a journal that
\* does not parse stops the run.
Branch ==
    /\ pc = "branch"
    /\ cur \notin Unauthorized
    /\ \/ torn /\ Abort
       \/ ~torn /\ MustNotRedispatch(cur) /\ Reconcile
       \/ ~torn /\ ~MustNotRedispatch(cur) /\ Goto("commit", run) /\ UNCHANGED cameraVars
    /\ UNCHANGED <<journalVars, starts, report>>

\* Mutant: the attempt goes on although it could not be recorded.
CommitAttemptUngated ==
    /\ pc = "commit"
    /\ AppendThrows(cur, "action_attempt_committed")
    /\ Goto("intent", run)
    /\ UNCHANGED <<cameraVars, starts, report>>

\* The pre-send gate: an attempt that cannot be recorded is not dispatched.
CommitAttempt ==
    /\ pc = "commit"
    /\ \/ AppendReturns(cur, "action_attempt_committed") /\ Goto("intent", run)
       \/ AppendThrows(cur, "action_attempt_committed") /\ Goto("journalRefusal", run)
    /\ UNCHANGED <<cameraVars, starts, report>>

\* journal/unavailable: recording the refusal is best effort.
RecordJournalRefusal ==
    /\ pc = "journalRefusal"
    /\ AppendThrows(cur, "refusal_persisted")
    /\ Goto("emit", [run EXCEPT !.outcome = "refused"])
    /\ UNCHANGED <<cameraVars, starts, report>>

\* Mutant: the command is sent although its intent could not be recorded.
RecordIntentUngated ==
    /\ pc = "intent"
    /\ AppendThrows(cur, "dispatch_intent_persisted")
    /\ Goto(DispatchEntry, run)
    /\ UNCHANGED <<cameraVars, starts, report>>

RecordIntent ==
    /\ pc = "intent"
    /\ RecordOrAbort("dispatch_intent_persisted", DispatchEntry)
    /\ UNCHANGED <<starts, report>>

Dispatch ==
    /\ AdapterStep
    /\ UNCHANGED <<journalVars, starts, report>>

RecordDispatch ==
    /\ pc = "observe"
    /\ RecordOrAbort("dispatch_observed", "emit")
    /\ UNCHANGED <<starts, report>>

\* The adapter says nothing was sent: the intent is closed.
RecordRefusal ==
    /\ pc = "refuse"
    /\ RecordOrAbort("pre_transport_refusal_observed", "emit")
    /\ UNCHANGED <<starts, report>>

\* Anchors the manifest and writes the bundle, over an earlier one; either
\* may fail, and so may the trust policy that is written after the bundle.
EmitBundle ==
    /\ pc = "emit"
    /\ \/ /\ report' = [report EXCEPT ![cur] =
                            [level |-> run.outcome, restored |-> run.verified]]
          /\ \/ pc' = "emitted" /\ UNCHANGED <<cur, run, recovery, cameraVars>>
             \/ Abort
       \/ Abort /\ UNCHANGED report
    /\ UNCHANGED <<journalVars, starts>>

\* The last record; the process is done, whether or not it could write it.
RecordBundle ==
    /\ pc = "emitted"
    /\ AppendThrows(cur, "bundle_emitted")
    /\ Abort
    /\ UNCHANGED <<starts, report>>

\* The process is killed, wherever it is.
Crash ==
    /\ pc # "idle"
    /\ Abort
    /\ UNCHANGED <<journalVars, starts, report>>

Environment ==
    /\ CameraNext
    /\ UNCHANGED <<journalVars, adapterVars, starts, report>>

EpStep ==
    \/ RecordRequest \/ RecordAuthorization \/ RefuseUnauthorized \/ Branch
    \/ CommitAttempt \/ RecordJournalRefusal \/ RecordIntent \/ Dispatch
    \/ RecordDispatch \/ RecordRefusal \/ EmitBundle \/ RecordBundle

Next ==
    \/ \E i \in Inv : Start(i)
    \/ EpStep
    \/ Crash
    \/ Environment

Spec == Init /\ [][Next]_vars

\* The process's own steps are not put off for ever: every exchange has a
\* deadline, and so has polling, however often it misses.  Starts, crashes
\* and the environment owe nothing.
Deadline == PollExpires /\ UNCHANGED <<journalVars, starts, report>>
FairSpec == Spec /\ WF_vars(EpStep) /\ WF_vars(Deadline)

-----------------------------------------------------------------------------
(***************************************************************************)
(* Properties.                                                             *)
(***************************************************************************)

\* However often an invocation is run, crashes, times out or repairs a stale
\* nonce, the device executes its command at most once.
AtMostOnce == \A i \in Inv : execs[i] <= 1

Recorded(i, e) == \E k \in DOMAIN journal[i] : journal[i][k] = e

\* journal/uncommitted-dispatch: a command on the wire or executed has its
\* committed attempt and its intent in the journal, unless a write that
\* claimed to succeed tore the file (append() does not look at the count).
NoUncommittedDispatch ==
    \A i \in Inv : InFlight(i) \/ execs[i] > 0 =>
        torn \/ (Recorded(i, "action_attempt_committed") /\
                 Recorded(i, "dispatch_intent_persisted"))

\* A run that is about to sign a refusal has a command that was not executed
\* and cannot be any more: nothing of it is on the wire.
RefusalIsHonest ==
    pc \in {"emit", "emitted"} /\ run.outcome = "refused" =>
        execs[cur] = 0 /\ ~InFlight(cur)

\* An invocation whose delegation expired never reaches the wire.
UnauthorizedNeverSent ==
    \A i \in Unauthorized : execs[i] = 0 /\ ~InFlight(i) /\ recovery[i] = None

\* A bundle that says device_acknowledged describes a command the device
\* executed and, for a camera move, undid.
AcknowledgedIsDone ==
    \A i \in Inv : report[i].level = "device_acknowledged" =>
        execs[i] = 1 /\ (i \in Ptz => report[i].restored)

\* When a run goes on to claim restore_verified, the camera stands at the
\* baseline, is not about to leave it, and the recovery record is gone.
RestoreClaimIsTrue ==
    pc \in {"observe", "emit", "emitted"} /\ run.verified =>
        /\ pos = run.baseline /\ goal = run.baseline
        /\ recovery[cur] = None
        /\ \A r \in net : r.to = None

\* The camera is never away from the operator's park position, nor about to
\* leave it, without a recovery record that names that position.
DisplacementIsRecorded ==
    goal # Home \/ (\E r \in net : r.to \notin {None, Home}) =>
        \E i \in Inv : recovery[i] = Home

\* A stream view is called contradicted only if the device itself answered.
ContradictedIsObserved ==
    \A i \in Inv \ Ptz : report[i].level = "contradicted" => i \in answered

\* A run that was started comes to an end, bundle or not.
RunsEnd == pc # "idle" ~> pc = "idle"

-----------------------------------------------------------------------------
(***************************************************************************)
(* The abstract specification.  A command may still take effect while a    *)
(* request carrying it is on the wire, or while the process is dispatching *)
(* it (a resumed run is not).                                              *)
(***************************************************************************)
Dispatching(i) ==
    /\ cur = i
    /\ ~run.resumed
    /\ \/ pc \in AdapterPhases \cup {"observe"}
       \/ pc \in {"emit", "emitted"} /\ run.outcome # "refused"

Armed == {i \in Inv : InFlight(i) \/ Dispatching(i)}

Once == INSTANCE OnceCommand WITH
            armed <- Armed,
            executed <- execs,
            level <- [i \in Inv |-> report[i].level]

\* The enforcement point implements it.
ImplementsOnce == Once!OnceSpec

-----------------------------------------------------------------------------
(***************************************************************************)
(* The inductive invariant from which AtMostOnce, NoUncommittedDispatch,   *)
(* RefusalIsHonest and UnauthorizedNeverSent are proved (EpSafetyProofs).  *)
(***************************************************************************)
Untouched(i) == ~InFlight(i) /\ execs[i] = 0

\* The journal would stop another dispatch of i, and shows the whole attempt.
Guarded(i) == torn \/ (/\ MustNotRedispatch(i)
                       /\ Recorded(i, "action_attempt_committed")
                       /\ Recorded(i, "dispatch_intent_persisted"))

\* At most one request carries a command, and then it was not executed.
NetworkInv ==
    /\ \A r \in net : r.n <= sent
    /\ \A q, r \in net : q.op = "command" /\ r.op = "command" /\ q.inv = r.inv => q = r
    /\ \A i \in Inv : execs[i] <= 1 /\ (InFlight(i) => execs[i] = 0)

JournalInv == \A i \in Inv : Untouched(i) \/ Guarded(i)

\* Where the process may still send a command, none was sent and the journal
\* is ahead of it; the awaited request is the command; a 401 executed nothing.
ProcessInv ==
    /\ pc \in {"commit", "journalRefusal", "intent", "baseline", "persist", "send",
               "refuse"} => Untouched(cur)
    /\ pc = "intent" => torn \/ Recorded(cur, "action_attempt_committed")
    /\ pc \in {"baseline", "persist", "send", "await"} => Guarded(cur)
    /\ pc = "await" => \A r \in net : r.n = sent => r.inv = cur /\ r.op = "command"
    /\ pc = "await" /\ reply = "unauth" => Untouched(cur)
    /\ pc \in {"observe", "restore", "awaitRestore", "verify"} => run.outcome # "refused"

AuthorizedInv ==
    pc \in AdapterPhases \cup {"commit", "journalRefusal", "intent", "observe", "refuse"} =>
        cur \notin Unauthorized

CommandInv ==
    /\ NetworkInv /\ JournalInv /\ ProcessInv /\ AuthorizedInv
    /\ RefusalIsHonest /\ UnauthorizedNeverSent
=============================================================================

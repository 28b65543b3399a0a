------------------------------- MODULE Adapter -------------------------------
(***************************************************************************)
(* The two device adapters, adapters/vapix/adapter.ts and                  *)
(* adapters/vms/adapter.ts, which share one control: dispatchPreset with   *)
(* its baseline capture, preset move, polling and restore; dispatchStream; *)
(* and reconcile, which a resumed invocation gets instead of a dispatch.   *)
(*                                                                         *)
(* The adapter runs inside the enforcement point's process, so `pc' and    *)
(* the locals in `run' are the process's own and a crash loses them.  The  *)
(* recovery records are files, one per invocation.  Each step is one       *)
(* exchange or one file operation; an exception that dispatchPreset does   *)
(* not catch ends the process (Abort).                                     *)
(***************************************************************************)
EXTENDS Camera

VARIABLES
    pc,                 \* what the process does next
    cur,                \* the invocation it runs
    run,                \* the locals of produce() and of the adapter
    recovery            \* recovery[i]: baseline in i's recovery file, or None

adapterVars == <<pc, cur, run, recovery>>

Levels == {"device_acknowledged", "contradicted", "unknown"}

AdapterPhases == {"baseline", "persist", "send", "await", "readback", "poll",
                  "restore", "awaitRestore", "verify"}

Run == [baseline : Positions \cup {None},    \* position to restore
        last     : Positions \cup {None},    \* last position a poll read
        outcome  : Levels \cup {"none", "refused"},
        verified : BOOLEAN,                  \* restore_verified
        resumed  : BOOLEAN,                  \* reconciling, not dispatching
        resent   : BOOLEAN]                  \* a stale nonce was already repaired

FreshRun == [baseline |-> None, last |-> None, outcome |-> "none",
             verified |-> FALSE, resumed |-> FALSE, resent |-> FALSE]

\* The process ends without finishing its work: files and network stay.
Abort ==
    /\ pc' = "idle"
    /\ run' = FreshRun
    /\ reply' = "none"
    /\ UNCHANGED <<cur, recovery, net, sent, pos, goal, execs, answered>>

Goto(p, r) == pc' = p /\ run' = r /\ UNCHANGED <<cur, recovery>>

Target(i) == IF i \in Ptz THEN Preset ELSE None

-----------------------------------------------------------------------------
(* dispatchPreset up to the preset move, dispatchStream up to the request. *)

\* A position readback: a position, or one that is missing or unreadable.
Readback == {pos, None}

\* F19 baseline: unreadable means the move is refused before any transport.
ReadBaseline ==
    /\ pc = "baseline"
    /\ \/ Goto("persist", [run EXCEPT !.baseline = pos])
       \/ Goto("refuse", [run EXCEPT !.outcome = "refused"])
    /\ UNCHANGED cameraVars

\* Written aside and renamed: there is no partly written record.
PersistRecovery ==
    /\ pc = "persist"
    /\ \/ /\ recovery' = [recovery EXCEPT ![cur] = run.baseline]
          /\ pc' = "send"
          /\ UNCHANGED <<cur, run, cameraVars>>
       \/ Abort

\* Nothing was sent, says dispatchPreset: discard the baseline, or fail to.
NotDispatched ==
    \/ /\ recovery' = [recovery EXCEPT ![cur] = None]
       /\ pc' = "refuse"
       /\ run' = [run EXCEPT !.outcome = "refused"]
       /\ StopWaiting
       /\ UNCHANGED cur
    \/ cur \in Ptz /\ Abort

\* The digest client may fail before the action is sent: no challenge, no
\* credential.  The mediator client has nothing to do before sending.
SendCommand ==
    /\ pc = "send"
    /\ \/ /\ Transmit(cur, "command", Target(cur))
          /\ Goto("await", run)
       \/ Vapix /\ NotDispatched

\* An outcome is known: a PTZ move is undone, a stream view is done.
Conclude(o) ==
    Goto(IF cur \in Ptz THEN "restore" ELSE "observe",
         [run EXCEPT !.outcome = o, !.resent = FALSE])

\* Mutant: a deadline that passed is taken for a command that was not sent.
CommandTimesOutUnsent == pc = "await" /\ NotDispatched

\* No answer before the deadline (or a hook that throws): sent, and unknown.
CommandTimesOut ==
    /\ pc = "await"
    /\ StopWaiting
    /\ Conclude("unknown")

CommandAccepted ==
    /\ pc = "await"
    /\ reply = "ok"
    /\ StopWaiting
    /\ IF cur \in Ptz
       THEN Goto("poll", [run EXCEPT !.last = None])
       ELSE \E o \in {"device_acknowledged", "contradicted"} : Conclude(o)

\* Mutant: the mediator's own failure contradicts, as the device's would.
StreamFailureOfAnyone(a) == "contradicted"

\* What a failed stream request is taken for: VAPIX calls every failure
\* contradicted, VMS only what the device itself answered.
StreamFailure(a) ==
    IF Vapix \/ a # "gateway" THEN "contradicted" ELSE "unknown"

\* Any answer but success: for the PTZ one readback decides.
CommandFailed ==
    /\ StopWaiting
    /\ IF cur \in Ptz
       THEN Goto("readback", run)
       ELSE Conclude(StreamFailure(reply))

CommandRejected == pc = "await" /\ reply \in {"error", "gateway"} /\ CommandFailed

\* 401: sent once more for a stale nonce; otherwise a failure like others;
\* and if the first challenge does not parse, the client throws a plain
\* error, which the adapter takes for a request that was never sent.
CommandUnauthorized ==
    /\ pc = "await"
    /\ reply = "unauth"
    /\ \/ /\ ~run.resent
          /\ Transmit(cur, "command", Target(cur))
          /\ Goto("await", [run EXCEPT !.resent = TRUE])
       \/ CommandFailed
       \/ ~run.resent /\ NotDispatched

-----------------------------------------------------------------------------
(* dispatchPreset after the move: one readback, or polling to tolerance. *)

\* Only a position that is not the preset contradicts a rejected move.
ReadAfterRejection ==
    /\ pc = "readback"
    /\ \E p \in Readback :
           Conclude(IF p \in Positions \ {Preset} THEN "contradicted" ELSE "unknown")
    /\ UNCHANGED cameraVars

PollMatches ==
    /\ pc = "poll"
    /\ pos = Preset
    /\ Conclude("device_acknowledged")
    /\ UNCHANGED cameraVars

PollMisses ==
    /\ pc = "poll"
    /\ \E p \in Readback \ {Preset} : Goto("poll", [run EXCEPT !.last = p])
    /\ UNCHANGED cameraVars

\* Mutant: polling gives up only once a position was read.
PollExpiresIfRead ==
    /\ pc = "poll"
    /\ run.last # None
    /\ Conclude("contradicted")
    /\ UNCHANGED cameraVars

\* The settling deadline: what the last poll read decides.
PollExpires ==
    /\ pc = "poll"
    /\ Conclude(IF run.last = None THEN "unknown" ELSE "contradicted")
    /\ UNCHANGED cameraVars

\* A poll that throws leaves the move sent and its effect unknown.
PollFails ==
    /\ pc = "poll"
    /\ Conclude("unknown")
    /\ UNCHANGED cameraVars

-----------------------------------------------------------------------------
(* restoreAndVerify, and the end of dispatchPreset and of reconcile. *)

\* Mutant: an acknowledgement survives a restore that was not verified.
RestoreDoneUndowngraded(verified) ==
    /\ pc' = IF run.resumed THEN "emit" ELSE "observe"
    /\ run' = [run EXCEPT !.verified = verified]
    /\ UNCHANGED cur

\* An acknowledged move whose restore is not verified counts as unknown.
RestoreDone(verified) ==
    /\ pc' = IF run.resumed THEN "emit" ELSE "observe"
    /\ run' = [run EXCEPT !.verified = verified,
                          !.outcome = IF verified \/ run.outcome # "device_acknowledged"
                                      THEN @ ELSE "unknown"]
    /\ UNCHANGED cur

\* Mutant: the recovery record is discarded whatever became of the restore.
RestoreUnverifiedForgets ==
    /\ RestoreDone(FALSE)
    /\ recovery' = [recovery EXCEPT ![cur] = None]

RestoreUnverified == RestoreDone(FALSE) /\ UNCHANGED recovery

SendRestore ==
    /\ pc = "restore"
    /\ \/ /\ Transmit(cur, "restore", run.baseline)
          /\ Goto("awaitRestore", run)
       \/ Vapix /\ RestoreUnverified /\ UNCHANGED cameraVars

RestoreAccepted ==
    /\ pc = "awaitRestore"
    /\ reply = "ok"
    /\ StopWaiting
    /\ Goto("verify", run)

RestoreRepairsNonce ==
    /\ pc = "awaitRestore"
    /\ reply = "unauth"
    /\ ~run.resent
    /\ Transmit(cur, "restore", run.baseline)
    /\ Goto("awaitRestore", [run EXCEPT !.resent = TRUE])

\* Rejected, refused, or not answered in time.
RestoreFails ==
    /\ pc = "awaitRestore"
    /\ StopWaiting
    /\ RestoreUnverified

\* Mutant: any position that reads back verifies the restore.
VerifyMatchesAnything ==
    /\ pc = "verify"
    /\ RestoreDone(TRUE)
    /\ recovery' = [recovery EXCEPT ![cur] = None]
    /\ UNCHANGED cameraVars

\* The baseline was read back: only now is the recovery record discarded.
VerifyMatches ==
    /\ pc = "verify"
    /\ pos = run.baseline
    /\ \/ /\ RestoreDone(TRUE)
          /\ recovery' = [recovery EXCEPT ![cur] = None]
          /\ UNCHANGED cameraVars
       \/ Abort

\* The settling deadline passed, or a poll threw.
VerifyExpires ==
    /\ pc = "verify"
    /\ RestoreUnverified
    /\ UNCHANGED cameraVars

-----------------------------------------------------------------------------
\* Mutant: a command that must not be sent again is reported as refused.
ReconcileRefuses ==
    /\ Goto("emit", [run EXCEPT !.resumed = TRUE, !.outcome = "refused"])
    /\ UNCHANGED cameraVars

(***************************************************************************)
(* reconcile: never the command again.  With a recovery record the camera  *)
(* is restored; without one, or for a stream, there is nothing to do.      *)
(* Either way the outcome stays unknown.                                   *)
(***************************************************************************)
Reconcile ==
    /\ LET resumed == [run EXCEPT !.resumed = TRUE, !.outcome = "unknown"] IN
       IF cur \in Ptz /\ recovery[cur] # None
       THEN Goto("restore", [resumed EXCEPT !.baseline = recovery[cur]])
       ELSE Goto("emit", resumed)
    /\ UNCHANGED cameraVars

\* Where dispatch() of this command starts.
DispatchEntry == IF cur \in Ptz THEN "baseline" ELSE "send"

AdapterStep ==
    \/ ReadBaseline \/ PersistRecovery \/ SendCommand
    \/ CommandTimesOut \/ CommandAccepted \/ CommandRejected \/ CommandUnauthorized
    \/ ReadAfterRejection
    \/ PollMatches \/ PollMisses \/ PollExpires \/ PollFails
    \/ SendRestore \/ RestoreAccepted \/ RestoreRepairsNonce \/ RestoreFails
    \/ VerifyMatches \/ VerifyExpires
=============================================================================

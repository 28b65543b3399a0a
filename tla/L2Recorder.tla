------------------------------ MODULE L2Recorder ------------------------------
(***************************************************************************)
(* One session of the L2 emitter for Claude Code                           *)
(* (emitter/l2-claude-code): every tool call starts a process of           *)
(* recorder.ts, every stop of the agent one of close.ts; they share three  *)
(* files of the session directory, the key files of the installation,      *)
(* which the first hook creates, and no lock.  verify.ts reads the session *)
(* and the published key at any time.                                      *)
(*                                                                         *)
(* A receipt's digest is modelled by the call that wrote it: each call     *)
(* writes at most one.  A key is modelled by the hook that generated it.   *)
(* writeFileSync truncates the file and then writes it, so a file being    *)
(* replaced is Empty for a while, and for ever if the hook is killed in    *)
(* between.                                                                *)
(*                                                                         *)
(* Time is that of the machine's clock, read where the code reads it: a    *)
(* reading may be any time, also one before the last.  A reading and the   *)
(* file operation that follows it are one step.                            *)
(***************************************************************************)
EXTENDS Integers, Sequences, FiniteSets

CONSTANTS
    Calls,              \* tool calls, each with its PostToolUse process
    Stops,              \* Stop hook processes
    None,               \* no digest, no key
    Absent, Empty,      \* a file that does not exist, a file just truncated
    Earlier,            \* the key of an installation that has had a session before
    MaxFirst,           \* bound: the hooks that run in an installation that had none
    MaxUnsteady,        \* bound: the hooks that run where the clock is set back
    MaxKills,           \* bound: the hooks that the harness kills
    Times,              \* what Date.now() may give, in seconds
    MaxItems            \* the greatest item_count that verify.ts takes (10000)

ASSUME L2Assumption ==
    /\ Calls \cap Stops = {}
    /\ {None, Absent, Empty, Earlier} \cap (Calls \cup Stops) = {}
    /\ Earlier \notin {None, Absent, Empty}
    /\ Absent # Empty
    /\ {MaxFirst, MaxUnsteady, MaxKills} \subseteq Nat
    /\ Times \subseteq Int /\ None \notin Times
    /\ MaxItems \in Nat

Hooks == Calls \cup Stops

VARIABLES
    keyFile,            \* recorder.key
    pubFile,            \* recorder.pub
    key,                \* key[h]: the key that h signs with, once it has one
    receipts,           \* receipts.hexl, append only
    stateFile,          \* state.json
    closeFile,          \* close.hex
    dropped,            \* the session's errors.log: calls dropped after the close
    errors,             \* the install's errors.log: hooks that threw
    pc,                 \* pc[h]: what hook h does next
    seen,               \* seen[h]: what h has read of the files, None once it has exited
    orderly,            \* no two hooks were in a critical section together, and none was
                        \* killed midway (history)
    clock,              \* the last reading of the clock
    steady              \* no reading was before an earlier one (history)

keys == <<keyFile, pubFile, key>>
files == <<receipts, stateFile, closeFile, dropped>>
clocks == <<clock, steady>>
l2vars == <<keys, files, errors, pc, seen, orderly, clocks>>

Keys     == Hooks \cup {Earlier}
Digests  == Calls \cup {None}
State    == [seq : Nat, prev : Digests, opened : Times]
Receipt  == [id : Calls, seq : Nat, prev : Digests, signer : Keys, at : Times]
Endpoints == [count : Nat, first : Digests, last : Digests]
Closing  == [ends : Endpoints, opened : Times, closed : Times, signer : Keys]

\* What a closer knows of its record so far.
Draft    == [ends : Endpoints, opened : Times \cup {None}, closed : Times \cup {None}]

\* A truncated or missing file is not a record.
ASSUME RecordAssumption == {Absent, Empty} \cap (State \cup Closing) = {}

\* The critical sections.  Two hooks in one of them spoil each other's work: from the close
\* check of recorder.ts:34 and close.ts:20 to the last write, and from the check of lib.ts:34
\* that finds no key to the write of it.
Section    == {"read", "append", "truncate", "write", "readState"}
KeySection == {"createKey", "writeKey"}

TypeOK ==
    /\ {keyFile, pubFile} \subseteq Keys \cup {Absent, Empty}
    /\ key \in [Hooks -> Keys \cup {None}]
    /\ receipts \in Seq(Receipt)
    /\ stateFile \in State \cup {Absent, Empty}
    /\ closeFile \in Closing \cup {Absent, Empty}
    /\ dropped \subseteq Calls
    /\ errors \subseteq Hooks
    /\ pc \in [Hooks -> {"ready", "publish", "createPub", "writePub", "check", "done", "killed"}
                             \cup KeySection \cup Section]
    /\ seen \in [Hooks -> State \cup Draft \cup {None}]
    /\ orderly \in BOOLEAN
    /\ clock \in Times
    /\ steady \in BOOLEAN

Init ==
    /\ keyFile \in {Absent, Earlier}
    /\ pubFile = keyFile
    /\ key = [h \in Hooks |-> None]
    /\ receipts = <<>>
    /\ stateFile = Absent
    /\ closeFile = Absent
    /\ dropped = {}
    /\ errors = {}
    /\ pc = [h \in Hooks |-> "ready"]
    /\ seen = [h \in Hooks |-> None]
    /\ orderly = TRUE
    /\ clock \in Times
    /\ steady = TRUE

Goto(h, from, to) == pc[h] = from /\ pc' = [pc EXCEPT ![h] = to]
Step(h, from, to) == Goto(h, from, to) /\ UNCHANGED <<orderly, clocks>>

\* A step into a critical section.
Enters(h, from, to, section) ==
    /\ Goto(h, from, to)
    /\ orderly' = (orderly /\ \A g \in Hooks : pc[g] \notin section)
    /\ UNCHANGED clocks

Started == Cardinality({h \in Hooks : pc[h] # "ready"})

\* Math.floor(Date.now() / 1000)
StepAt(h, from, to, now) ==
    /\ Goto(h, from, to)
    /\ clock <= now \/ Started <= MaxUnsteady
    /\ clock' = now
    /\ steady' = (steady /\ clock <= now)
    /\ UNCHANGED orderly

\* What a hook knows is gone with its process.
Forget(h) ==
    /\ seen' = [seen EXCEPT ![h] = None]
    /\ key' = [key EXCEPT ![h] = None]

\* An exception is logged, and the hook exits with 0 all the same.
Fails(h, from) ==
    /\ Step(h, from, "done")
    /\ errors' = errors \cup {h}
    /\ Forget(h)
    /\ UNCHANGED <<keyFile, pubFile, files>>

-----------------------------------------------------------------------------
(* loadOrCreateRecorderKey() of lib.ts *)

\* The harness starts hooks at any time, others running or not.
MayStart ==
    /\ keyFile = Earlier \/ Started < MaxFirst
    /\ steady \/ Started < MaxUnsteady

\* A file that was truncated holds no key.
LoadsKey(h) ==
    /\ MayStart
    /\ \/ keyFile = Empty /\ Fails(h, "ready")
       \/ /\ keyFile \in Keys
          /\ Step(h, "ready", "publish")
          /\ key' = [key EXCEPT ![h] = keyFile]
          /\ UNCHANGED <<keyFile, pubFile, files, errors, seen>>
       \/ /\ keyFile = Absent
          /\ Enters(h, "ready", "createKey", KeySection)
          /\ UNCHANGED <<keys, files, errors, seen>>

CreatesKey(h) ==
    /\ Step(h, "createKey", "writeKey")
    /\ keyFile' = Empty
    /\ UNCHANGED <<pubFile, key, files, errors, seen>>

WritesKey(h) ==
    /\ Step(h, "writeKey", "publish")
    /\ keyFile' = h
    /\ key' = [key EXCEPT ![h] = h]
    /\ UNCHANGED <<pubFile, files, errors, seen>>

\* The public key is written once, whatever is in the file.
PublishesKey(h) ==
    /\ Step(h, "publish", IF pubFile = Absent THEN "createPub" ELSE "check")
    /\ UNCHANGED <<keys, files, errors, seen>>

CreatesPub(h) ==
    /\ Step(h, "createPub", "writePub")
    /\ pubFile' = Empty
    /\ UNCHANGED <<keyFile, key, files, errors, seen>>

WritesPub(h) ==
    /\ Step(h, "writePub", "check")
    /\ pubFile' = key[h]
    /\ UNCHANGED <<keyFile, key, files, errors, seen>>

Keying(h) ==
    \/ LoadsKey(h) \/ CreatesKey(h) \/ WritesKey(h)
    \/ PublishesKey(h) \/ CreatesPub(h) \/ WritesPub(h)

-----------------------------------------------------------------------------
(* recorder.ts *)

\* Mutant: the close file is not looked at.
RecorderIgnoresClose(c) ==
    /\ Enters(c, "check", "read", Section)
    /\ UNCHANGED <<keys, files, errors, seen>>

\* A call after the close is dropped and logged.
RecorderChecksClose(c) ==
    \/ /\ closeFile # Absent
       /\ Step(c, "check", "done")
       /\ dropped' = dropped \cup {c}
       /\ Forget(c)
       /\ UNCHANGED <<keyFile, pubFile, receipts, stateFile, closeFile, errors>>
    \/ /\ closeFile = Absent
       /\ Enters(c, "check", "read", Section)
       /\ UNCHANGED <<keys, files, errors, seen>>

\* No state file: genesis, and the session opens now.  A truncated one does not parse.
RecorderReadsState(c) ==
    \/ stateFile = Empty /\ Fails(c, "read")
    \/ /\ stateFile = Absent
       /\ \E now \in Times :
             /\ StepAt(c, "read", "append", now)
             /\ seen' = [seen EXCEPT ![c] = [seq |-> 0, prev |-> None, opened |-> now]]
       /\ UNCHANGED <<keys, files, errors>>
    \/ /\ stateFile \notin {Absent, Empty}
       /\ Step(c, "read", "append")
       /\ seen' = [seen EXCEPT ![c] = stateFile]
       /\ UNCHANGED <<keys, files, errors>>

\* committed_at is read just before.
RecorderAppends(c) ==
    \E now \in Times :
        /\ StepAt(c, "append", "truncate", now)
        /\ receipts' = Append(receipts, [id |-> c, seq |-> seen[c].seq, prev |-> seen[c].prev,
                                         signer |-> key[c], at |-> now])
        /\ UNCHANGED <<keys, stateFile, closeFile, dropped, errors, seen>>

RecorderTruncatesState(c) ==
    /\ Step(c, "truncate", "write")
    /\ stateFile' = Empty
    /\ UNCHANGED <<keys, receipts, closeFile, dropped, errors, seen>>

\* Mutant: the state keeps the digest it was read with.
RecorderKeepsPrev(c) ==
    /\ Step(c, "write", "done")
    /\ stateFile' = [seq |-> seen[c].seq + 1, prev |-> seen[c].prev, opened |-> seen[c].opened]
    /\ Forget(c)
    /\ UNCHANGED <<keyFile, pubFile, receipts, closeFile, dropped, errors>>

RecorderWritesState(c) ==
    /\ Step(c, "write", "done")
    /\ stateFile' = [seq |-> seen[c].seq + 1, prev |-> c, opened |-> seen[c].opened]
    /\ Forget(c)
    /\ UNCHANGED <<keyFile, pubFile, receipts, closeFile, dropped, errors>>

-----------------------------------------------------------------------------
(* close.ts *)

\* Mutant: a session without receipts is not closed.
CloserSkipsEmpty(s) ==
    /\ IF closeFile = Absent /\ receipts # <<>> THEN Enters(s, "check", "read", Section)
                                                ELSE Step(s, "check", "done")
    /\ UNCHANGED <<keys, files, errors, seen>>

\* A session that has a close file, whatever is in it, is not closed again.
CloserChecksClose(s) ==
    \/ /\ closeFile # Absent
       /\ Step(s, "check", "done")
       /\ Forget(s)
       /\ UNCHANGED <<keyFile, pubFile, files, errors>>
    \/ /\ closeFile = Absent
       /\ Enters(s, "check", "read", Section)
       /\ UNCHANGED <<keys, files, errors, seen>>

\* item_count, first_receipt_digest, final_chain_digest
Ends ==
    LET n == Len(receipts)
    IN [count |-> n,
        first |-> IF n = 0 THEN None ELSE receipts[1].id,
        last  |-> IF n = 0 THEN None ELSE receipts[n].id]

CloserReadsReceipts(s) ==
    /\ Step(s, "read", "readState")
    /\ seen' = [seen EXCEPT ![s] = [ends |-> Ends, opened |-> None, closed |-> None]]
    /\ UNCHANGED <<keys, files, errors>>

\* Mutant: the session is said to have opened when it is closed.
CloserOpensNow(s) ==
    \E now \in Times :
        /\ StepAt(s, "readState", "truncate", now)
        /\ seen' = [seen EXCEPT ![s].opened = now]
        /\ UNCHANGED <<keys, files, errors>>

\* openedAt comes from the state file, which may be truncated just now, or is now.
CloserReadsState(s) ==
    \/ stateFile = Empty /\ Fails(s, "readState")
    \/ /\ stateFile = Absent
       /\ \E now \in Times :
             /\ StepAt(s, "readState", "truncate", now)
             /\ seen' = [seen EXCEPT ![s].opened = now]
       /\ UNCHANGED <<keys, files, errors>>
    \/ /\ stateFile \notin {Absent, Empty}
       /\ Step(s, "readState", "truncate")
       /\ seen' = [seen EXCEPT ![s].opened = stateFile.opened]
       /\ UNCHANGED <<keys, files, errors>>

\* closed_at is read just before.
CloserCreatesClose(s) ==
    \E now \in Times :
        /\ StepAt(s, "truncate", "write", now)
        /\ seen' = [seen EXCEPT ![s].closed = now]
        /\ closeFile' = Empty
        /\ UNCHANGED <<keys, receipts, stateFile, dropped, errors>>

CloserWritesClose(s) ==
    /\ Step(s, "write", "done")
    /\ closeFile' = [ends |-> seen[s].ends, opened |-> seen[s].opened, closed |-> seen[s].closed,
                     signer |-> key[s]]
    /\ Forget(s)
    /\ UNCHANGED <<keyFile, pubFile, receipts, stateFile, dropped, errors>>

-----------------------------------------------------------------------------

\* A hook killed here leaves files that later hooks take for those of a finished one: a receipt
\* that the state does not count, or a close file without a record.  A kill anywhere
\* else leaves the files as they were, or one empty on which its readers fail.
Midway(h) == (h \in Calls /\ pc[h] = "truncate") \/ (h \in Stops /\ pc[h] = "write")

Kill(h) ==
    /\ Cardinality({g \in Hooks : pc[g] = "killed"}) < MaxKills
    /\ pc[h] \notin {"ready", "done", "killed"}
    /\ pc' = [pc EXCEPT ![h] = "killed"]
    /\ orderly' = (orderly /\ ~ Midway(h))
    /\ Forget(h)
    /\ UNCHANGED <<keyFile, pubFile, files, errors, clocks>>

Recorder(c) ==
    \/ RecorderChecksClose(c) \/ RecorderReadsState(c) \/ RecorderAppends(c)
    \/ RecorderTruncatesState(c) \/ RecorderWritesState(c)

Closer(s) ==
    \/ CloserChecksClose(s) \/ CloserReadsReceipts(s) \/ CloserReadsState(s)
    \/ CloserCreatesClose(s) \/ CloserWritesClose(s)

Next ==
    \/ \E h \in Hooks : Keying(h) \/ Kill(h)
    \/ \E c \in Calls : Recorder(c)
    \/ \E s \in Stops : Closer(s)

Spec == Init /\ [][Next]_l2vars

-----------------------------------------------------------------------------
(***************************************************************************)
(* verify.ts: the signatures under the published key, the close record,    *)
(* the six checks of the chain, the limit and the window of the close.     *)
(* What every hook writes alike (content types, tenant, site, session,     *)
(* attestation point) agrees by itself.                                    *)
(***************************************************************************)
Closed == closeFile \in Closing

Genesis == {k \in DOMAIN receipts : receipts[k].prev = None}

SuccessorsUnique ==
    \A j, k \in DOMAIN receipts :
        receipts[j].prev # None /\ receipts[j].prev = receipts[k].prev => j = k

PredecessorsResolve ==
    \A k \in DOMAIN receipts :
        receipts[k].prev # None =>
            \E j \in DOMAIN receipts : receipts[j].id = receipts[k].prev

\* The receipts that name receipt k as their predecessor.
Successors(k) == {j \in DOMAIN receipts : k # 0 /\ receipts[j].prev = receipts[k].id}

\* The receipt after k on the walk, 0 past the end.
Onward(k) == IF Successors(k) = {} THEN 0 ELSE CHOOSE j \in Successors(k) : TRUE

\* The walk from the genesis receipt: the index reached after n steps.
Walk[n \in 0 .. Len(receipts)] ==
    IF n = 0 THEN CHOOSE k \in Genesis : TRUE ELSE Onward(Walk[n - 1])

Walked == Cardinality({n \in DOMAIN Walk : Walk[n] # 0})

\* Mutant: the receipts are counted, the chain is not walked.
ChainCounted ==
    /\ PredecessorsResolve
    /\ closeFile.ends.count = Len(receipts)

ChainIntact ==
    LET close == closeFile.ends
    IN IF close.count = 0
       THEN receipts = <<>>
       ELSE /\ Cardinality(Genesis) = 1
            /\ close.first = receipts[Walk[0]].id
            /\ SuccessorsUnique
            /\ PredecessorsResolve
            /\ close.last = receipts[Walk[Walked - 1]].id
            /\ Walked = close.count
            /\ Walked = Len(receipts)

\* Signatures and key ids.
Signed ==
    /\ closeFile.signer = pubFile
    /\ \A k \in DOMAIN receipts : receipts[k].signer = pubFile

\* Coordinate agreement: nothing is committed before the session opened or after it closed.
InWindow ==
    /\ closeFile.opened <= closeFile.closed
    /\ \A k \in DOMAIN receipts : receipts[k].at \in closeFile.opened .. closeFile.closed

\* Exit 0 of verify.ts.
Intact == Closed /\ Signed /\ closeFile.ends.count <= MaxItems /\ ChainIntact /\ InWindow

-----------------------------------------------------------------------------
(***************************************************************************)
(* Properties.                                                             *)
(***************************************************************************)

\* Whatever races and kills produced the files, an intact verdict means one
\* unforked chain that is the whole log in file order (a fork of the
\* unlocked state file is rejected, as recorder.ts:7-10 says), all of it
\* signed with one key (two first hooks may each create theirs, lib.ts:34).
\* That follows from signatures and chain alone, for sessions of any length and whatever
\* the clock did.
IntactIsOneChain ==
    Closed /\ Signed /\ ChainIntact =>
        /\ \A k \in DOMAIN receipts : receipts[k].signer = closeFile.signer
        /\ \A k \in DOMAIN receipts :
               /\ receipts[k].seq = k - 1
               /\ receipts[k].prev = IF k = 1 THEN None ELSE receipts[k - 1].id

\* No false alarm.  Hooks may run beside one another and be killed: as long as no two meet
\* in a critical section (what the lock file of recorder.ts:10 would see to), none is killed
\* midway and the clock is not set back, a session verifies as soon as it is closed and the
\* key is published, unless it has more receipts than verify.ts takes (close.ts:40 writes
\* any number); then it does not.
HonestSessionVerifies ==
    orderly /\ steady /\ Closed /\ pubFile # Empty => (Intact <=> Len(receipts) <= MaxItems)

\* As long as no two hooks meet in a critical section and none is killed midway, a closed
\* session is never extended, and never closed a second time, however the checks, reads and
\* writes of hooks interleave otherwise.
ClosedStays == [][orderly' /\ Closed => UNCHANGED <<receipts, closeFile>>]_l2vars

\* The same whatever the hooks do.
ClosedIsFinal == [][Closed => UNCHANGED <<receipts, closeFile>>]_l2vars

\* A recorder that threw, and so wrote no receipt, shows in the verdict: the
\* session is not reported intact.
LossIsVisible == Intact => errors \cap Calls = {}

\* Under the same condition a Stop hook that has run to its end, without an exception, leaves
\* the session closed or another one about to close it.
StopCloses ==
    orderly => \A s \in Stops :
        pc[s] = "done" /\ s \notin errors => Closed \/ \E t \in Stops : pc[t] = "write"
=============================================================================

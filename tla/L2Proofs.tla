------------------------------- MODULE L2Proofs -------------------------------
(***************************************************************************)
(* Proofs about L2Recorder, for any number of hooks.                       *)
(***************************************************************************)
EXTENDS L2Recorder, FiniteSetTheorems, WellFoundedInduction, TLAPS

\* What a hook has read, where it uses it.
LocalInv ==
    \A h \in Hooks :
        /\ pc[h] \in {"publish", "createPub", "writePub", "check"} \cup Section => key[h] \in Keys
        /\ h \in Calls /\ pc[h] \in {"append", "truncate", "write"} => seen[h] \in State
        /\ h \in Stops /\ pc[h] \in {"readState", "truncate", "write"} => seen[h] \in Draft
        /\ h \in Stops /\ pc[h] \in {"truncate", "write"} => seen[h].opened \in Times
        /\ h \in Stops /\ pc[h] = "write" => seen[h].closed \in Times

TypeInv == TypeOK /\ LocalInv

USE DEF Hooks, Keys, Digests, Section, KeySection, keys, files, clocks

LEMMA TypeInit == Init => TypeInv
BY L2Assumption DEF Init, TypeInv, TypeOK, LocalInv

LEMMA SharedTypes ==
  ASSUME TypeInv, NEW h \in Hooks, Keying(h) \/ Kill(h)
  PROVE  TypeInv'
<1> USE L2Assumption DEF TypeInv, TypeOK, LocalInv, Goto, Step, Enters, Forget
<1>1. CASE LoadsKey(h)
  <2>1. CASE keyFile # Absent
    BY <1>1, <2>1 DEF LoadsKey, Fails
  <2>2. CASE keyFile = Absent
    <3>1. /\ pc' = [pc EXCEPT ![h] = "createKey"] /\ pc[h] = "ready"
          /\ UNCHANGED <<keys, files, errors, seen, clocks>>
      BY <1>1, <2>2 DEF LoadsKey, Fails
    <3>2. orderly' \in BOOLEAN
      BY <1>1, <2>2 DEF LoadsKey, Fails
    <3> QED BY <3>1, <3>2
  <2> QED BY <2>1, <2>2
<1>2. CASE CreatesKey(h)
  BY <1>2 DEF CreatesKey
<1>3. CASE WritesKey(h)
  BY <1>3 DEF WritesKey
<1>4. CASE PublishesKey(h)
  <2>1. PICK to \in {"createPub", "check"} : pc' = [pc EXCEPT ![h] = to]
    BY <1>4 DEF PublishesKey
  <2> QED BY <1>4, <2>1 DEF PublishesKey
<1>5. CASE CreatesPub(h)
  BY <1>5 DEF CreatesPub
<1>6. CASE WritesPub(h)
  BY <1>6 DEF WritesPub
<1>7. CASE Kill(h)
  BY <1>7 DEF Kill
<1> QED
  BY <1>1, <1>2, <1>3, <1>4, <1>5, <1>6, <1>7 DEF Keying

LEMMA RecorderTypes ==
  ASSUME TypeInv, NEW c \in Calls, Recorder(c)
  PROVE  TypeInv'
<1> USE L2Assumption DEF TypeInv, TypeOK, LocalInv, Goto, Step, Enters, StepAt, Forget
<1>1. CASE RecorderChecksClose(c)
  <2>1. CASE closeFile # Absent
    <3>1. /\ pc' = [pc EXCEPT ![c] = "done"] /\ dropped' \subseteq Calls
          /\ seen' = [seen EXCEPT ![c] = None] /\ key' = [key EXCEPT ![c] = None]
          /\ UNCHANGED <<keyFile, pubFile, receipts, stateFile, closeFile, errors, orderly, clocks>>
      BY <1>1, <2>1 DEF RecorderChecksClose
    <3>2. pc'[c] = "done" /\ \A h \in Hooks \ {c} : pc'[h] = pc[h] /\ seen'[h] = seen[h] /\ key'[h] = key[h]
      BY <3>1
    <3> QED BY <3>1, <3>2
  <2>2. CASE closeFile = Absent
    <3>1. /\ pc' = [pc EXCEPT ![c] = "read"] /\ pc[c] = "check"
          /\ UNCHANGED <<keys, files, errors, seen, clocks>>
      BY <1>1, <2>2 DEF RecorderChecksClose
    <3>2. orderly' \in BOOLEAN
      BY <1>1, <2>2 DEF RecorderChecksClose
    <3> QED BY <3>1, <3>2
  <2> QED BY <2>1, <2>2
<1>2. CASE RecorderReadsState(c)
  <2>1. CASE stateFile = Empty
    BY <1>2, <2>1 DEF RecorderReadsState, Fails
  <2>2. CASE stateFile = Absent
    <3>1. PICK now \in Times : /\ StepAt(c, "read", "append", now)
                               /\ seen' = [seen EXCEPT ![c] = [seq |-> 0, prev |-> None, opened |-> now]]
      BY <1>2, <2>2 DEF RecorderReadsState, Fails
    <3>2. [seq |-> 0, prev |-> None, opened |-> now] \in State
      BY DEF State
    <3> QED BY <1>2, <2>2, <3>1, <3>2 DEF RecorderReadsState, Fails
  <2>3. CASE stateFile \notin {Absent, Empty}
    BY <1>2, <2>3 DEF RecorderReadsState, Fails
  <2> QED BY <2>1, <2>2, <2>3
<1>3. CASE RecorderAppends(c)
  <2>1. PICK now \in Times :
          /\ StepAt(c, "append", "truncate", now)
          /\ receipts' = Append(receipts, [id |-> c, seq |-> seen[c].seq, prev |-> seen[c].prev,
                                           signer |-> key[c], at |-> now])
    BY <1>3 DEF RecorderAppends
  <2>2. [id |-> c, seq |-> seen[c].seq, prev |-> seen[c].prev, signer |-> key[c], at |-> now] \in Receipt
    BY <2>1 DEF State, Receipt
  <2>3. receipts' \in Seq(Receipt)
    BY <2>1, <2>2
  <2> QED BY <1>3, <2>1, <2>3 DEF RecorderAppends
<1>4. CASE RecorderTruncatesState(c)
  BY <1>4 DEF RecorderTruncatesState
<1>5. CASE RecorderWritesState(c)
  <2>1. stateFile' \in State
    BY <1>5 DEF RecorderWritesState, State
  <2> QED BY <1>5, <2>1 DEF RecorderWritesState
<1> QED
  BY <1>1, <1>2, <1>3, <1>4, <1>5 DEF Recorder

LEMMA CloserTypes ==
  ASSUME TypeInv, NEW s \in Stops, Closer(s)
  PROVE  TypeInv'
<1> USE L2Assumption DEF TypeInv, TypeOK, LocalInv, Goto, Step, Enters, StepAt, Forget
<1>1. CASE CloserChecksClose(s)
  <2>1. CASE closeFile # Absent
    <3>1. /\ pc' = [pc EXCEPT ![s] = "done"] /\ UNCHANGED dropped
          /\ seen' = [seen EXCEPT ![s] = None] /\ key' = [key EXCEPT ![s] = None]
          /\ UNCHANGED <<keyFile, pubFile, receipts, stateFile, closeFile, errors, orderly, clocks>>
      BY <1>1, <2>1 DEF CloserChecksClose
    <3>2. pc'[s] = "done" /\ \A h \in Hooks \ {s} : pc'[h] = pc[h] /\ seen'[h] = seen[h] /\ key'[h] = key[h]
      BY <3>1
    <3> QED BY <3>1, <3>2
  <2>2. CASE closeFile = Absent
    <3>1. /\ pc' = [pc EXCEPT ![s] = "read"] /\ pc[s] = "check"
          /\ UNCHANGED <<keys, files, errors, seen, clocks>>
      BY <1>1, <2>2 DEF CloserChecksClose
    <3>2. orderly' \in BOOLEAN
      BY <1>1, <2>2 DEF CloserChecksClose
    <3> QED BY <3>1, <3>2
  <2> QED BY <2>1, <2>2
<1>2. CASE CloserReadsReceipts(s)
  <2>1. Ends \in Endpoints
    <3>1. /\ receipts \in Seq(Receipt)
          /\ Len(receipts) \in Nat
          /\ Len(receipts) # 0 => receipts[1] \in Receipt /\ receipts[Len(receipts)] \in Receipt
      OBVIOUS
    <3>2. \A r \in Receipt : r.id \in Calls
      BY DEF Receipt
    <3> QED BY <3>1, <3>2 DEF Ends, Endpoints
  <2>2. [ends |-> Ends, opened |-> None, closed |-> None] \in Draft
    BY <2>1 DEF Draft
  <2>3. seen' = [seen EXCEPT ![s] = [ends |-> Ends, opened |-> None, closed |-> None]]
    BY <1>2 DEF CloserReadsReceipts
  <2> QED BY <1>2, <2>2, <2>3 DEF CloserReadsReceipts
<1>3. CASE CloserReadsState(s)
  <2>1. CASE stateFile = Empty
    BY <1>3, <2>1 DEF CloserReadsState, Fails
  <2>2. CASE stateFile # Empty
    <3>1. PICK t \in Times : seen' = [seen EXCEPT ![s].opened = t]
      <4>1. CASE stateFile = Absent
        BY <1>3, <2>2, <4>1 DEF CloserReadsState
      <4>2. CASE stateFile # Absent
        <5>1. stateFile \in State
          BY <2>2, <4>2
        <5>2. stateFile.opened \in Times
          BY <5>1 DEF State
        <5> QED BY <1>3, <2>2, <4>2, <5>2 DEF CloserReadsState
      <4> QED BY <4>1, <4>2
    <3>2. pc[s] = "readState" /\ pc' = [pc EXCEPT ![s] = "truncate"] /\ UNCHANGED <<keys, files, errors>>
      BY <1>3, <2>2 DEF CloserReadsState, Fails
    <3>3. seen'[s] \in Draft /\ seen'[s].opened = t
      <4>1. seen'[s] = [seen[s] EXCEPT !.opened = t]
        BY <3>1
      <4> QED BY <3>2, <4>1 DEF Draft
    <3>4. seen' \in [Hooks -> State \cup Draft \cup {None}] /\ \A h \in Hooks \ {s} : seen'[h] = seen[h]
      BY <3>1, <3>3
    <3>5. orderly' \in BOOLEAN /\ clock' \in Times /\ steady' \in BOOLEAN
      BY <1>3, <2>2 DEF CloserReadsState, Fails
    <3> QED BY <3>2, <3>3, <3>4, <3>5
  <2> QED BY <2>1, <2>2
<1>4. CASE CloserCreatesClose(s)
  <2>1. PICK now \in Times : /\ StepAt(s, "truncate", "write", now)
                             /\ seen' = [seen EXCEPT ![s].closed = now]
    BY <1>4 DEF CloserCreatesClose
  <2>2. seen'[s] \in Draft /\ seen'[s].closed = now /\ seen'[s].opened \in Times
    <3>1. seen'[s] = [seen[s] EXCEPT !.closed = now]
      BY <2>1
    <3> QED BY <2>1, <3>1 DEF Draft
  <2>3. seen' \in [Hooks -> State \cup Draft \cup {None}] /\ \A h \in Hooks \ {s} : seen'[h] = seen[h]
    BY <2>1, <2>2
  <2>4. /\ pc' = [pc EXCEPT ![s] = "write"] /\ closeFile' = Empty
        /\ UNCHANGED <<keys, receipts, stateFile, dropped, errors, orderly>>
        /\ clock' \in Times /\ steady' \in BOOLEAN
    BY <1>4, <2>1 DEF CloserCreatesClose
  <2> QED BY <2>1, <2>2, <2>3, <2>4
<1>5. CASE CloserWritesClose(s)
  <2>1. closeFile' \in Closing
    BY <1>5 DEF CloserWritesClose, Draft, Closing
  <2> QED BY <1>5, <2>1 DEF CloserWritesClose
<1> QED
  BY <1>1, <1>2, <1>3, <1>4, <1>5 DEF Closer

LEMMA TypeStep == TypeInv /\ [Next]_l2vars => TypeInv'
<1> SUFFICES ASSUME TypeInv, [Next]_l2vars PROVE TypeInv'
  OBVIOUS
<1>1. CASE UNCHANGED l2vars
  BY <1>1 DEF l2vars, TypeInv, TypeOK, LocalInv
<1>2. CASE Next
  BY <1>2, SharedTypes, RecorderTypes, CloserTypes DEF Next
<1> QED BY <1>1, <1>2

\* Files and hooks have the types of TypeOK.
THEOREM L2TypeCorrect == Spec => []TypeOK
<1>1. TypeInv => TypeOK
  BY DEF TypeInv
<1> QED BY <1>1, TypeInit, TypeStep, PTL DEF Spec

-----------------------------------------------------------------------------
(***************************************************************************)
(* While no two hooks meet in a critical section and none is killed        *)
(* midway: the close file is there only when a closer has made it, and     *)
(* empty only while it is about to write it.                               *)
(***************************************************************************)
Alone == \A g, h \in Hooks : pc[g] \in Section /\ pc[h] \in Section => g = h

FilesInv ==
    orderly =>
        /\ Alone
        /\ closeFile = Empty => \E s \in Stops : pc[s] = "write"
        /\ \A c \in Calls : pc[c] \in Section => closeFile = Absent
        /\ \A s \in Stops : pc[s] \in {"read", "readState", "truncate"} => closeFile = Absent
        /\ \A s \in Stops : pc[s] = "write" => closeFile = Empty
        /\ \A s \in Stops : pc[s] = "done" /\ s \notin errors => closeFile # Absent

OrderInv == TypeInv /\ FilesInv

\* What has been disturbed stays so.
LEMMA StaysOrderly ==
  ASSUME orderly', Next
  PROVE  orderly
BY DEF Next, Keying, LoadsKey, CreatesKey, WritesKey, PublishesKey, CreatesPub, WritesPub, Kill,
       Recorder, RecorderChecksClose, RecorderReadsState, RecorderAppends, RecorderTruncatesState,
       RecorderWritesState, Closer, CloserChecksClose, CloserReadsReceipts, CloserReadsState,
       CloserCreatesClose, CloserWritesClose, Fails, Step, Enters, StepAt

LEMMA OrderInit == Init => OrderInv
<1> SUFFICES ASSUME Init PROVE FilesInv
  BY TypeInit DEF OrderInv
<1> QED BY L2Assumption DEF Init, FilesInv, Alone

\* A hook goes somewhere outside the critical section.
LEMMA OrderElsewhere ==
  ASSUME OrderInv, orderly, NEW h \in Hooks, NEW to, to \notin Section, pc' = [pc EXCEPT ![h] = to],
         UNCHANGED closeFile, errors \subseteq errors',
         h \in Stops => pc[h] # "write",
         h \in Stops /\ to = "done" => h \in errors' \/ closeFile # Absent
  PROVE  FilesInv'
<1>1. pc'[h] = to /\ \A g \in Hooks \ {h} : pc'[g] = pc[g]
  BY DEF OrderInv, TypeInv, TypeOK
<1>2. Alone'
  BY <1>1 DEF OrderInv, FilesInv, Alone
<1>3. closeFile = Empty => \E s \in Stops : pc'[s] = "write"
  BY <1>1 DEF OrderInv, FilesInv
<1>4. \A g \in Hooks : pc'[g] \in Section => pc'[g] = pc[g]
  BY <1>1
<1>5. \A s \in Stops : pc'[s] = "done" /\ s \notin errors' => closeFile # Absent
  BY <1>1 DEF OrderInv, FilesInv
<1>6. \A s \in Stops : pc'[s] \in {"read", "readState", "truncate", "write"} => pc'[s] = pc[s]
  BY <1>4
<1> QED BY <1>2, <1>3, <1>4, <1>5, <1>6 DEF OrderInv, FilesInv

LEMMA SharedOrder ==
  ASSUME OrderInv, NEW h \in Hooks, Keying(h) \/ Kill(h), orderly'
  PROVE  FilesInv'
<1>1. orderly
  BY StaysOrderly DEF Next
<1>2. UNCHANGED closeFile /\ errors \subseteq errors'
  BY DEF Keying, LoadsKey, CreatesKey, WritesKey, PublishesKey, CreatesPub, WritesPub, Kill, Fails
<1>3. CASE Keying(h)
  <2>1. PICK to \in {"createKey", "writeKey", "publish", "createPub", "writePub", "check", "done"} :
          /\ pc' = [pc EXCEPT ![h] = to]
          /\ to = "done" => h \in errors'
    BY <1>3 DEF Keying, LoadsKey, CreatesKey, WritesKey, PublishesKey, CreatesPub, WritesPub, Fails,
       Step, Enters, Goto
  <2>2. pc[h] # "write"
    BY <1>3 DEF Keying, LoadsKey, CreatesKey, WritesKey, PublishesKey, CreatesPub, WritesPub, Fails,
       Step, Enters, Goto
  <2> QED BY <1>1, <1>2, <2>1, <2>2, OrderElsewhere
<1>4. CASE Kill(h)
  <2>1. pc' = [pc EXCEPT ![h] = "killed"] /\ (h \in Stops => pc[h] # "write")
    BY <1>4 DEF Kill, Midway
  <2> QED BY <1>1, <1>2, <2>1, OrderElsewhere
<1> QED BY <1>3, <1>4

LEMMA RecorderOrder ==
  ASSUME OrderInv, NEW c \in Calls, Recorder(c), orderly'
  PROVE  FilesInv'
<1>1. orderly
  BY StaysOrderly DEF Next
<1>2. PICK to \in {"read", "append", "truncate", "write", "done"} :
        /\ pc' = [pc EXCEPT ![c] = to]
        /\ pc[c] = "check" /\ to # "done" => closeFile = Absent /\ \A g \in Hooks : pc[g] \notin Section
        /\ pc[c] \in Section \cup {"check"}
  BY DEF Recorder, RecorderChecksClose, RecorderReadsState, RecorderAppends, RecorderTruncatesState,
         RecorderWritesState, Fails, Step, Enters, StepAt, Goto
<1>3. UNCHANGED closeFile /\ errors \subseteq errors'
  BY DEF Recorder, RecorderChecksClose, RecorderReadsState, RecorderAppends, RecorderTruncatesState,
         RecorderWritesState, Fails
<1> QED BY <1>1, <1>2, <1>3, L2Assumption DEF OrderInv, TypeInv, TypeOK, FilesInv, Alone

LEMMA CloserOrder ==
  ASSUME OrderInv, NEW s \in Stops, Closer(s), orderly'
  PROVE  FilesInv'
<1>1. orderly
  BY StaysOrderly DEF Next
<1> USE L2Assumption, RecordAssumption, <1>1
    DEF OrderInv, TypeInv, TypeOK, FilesInv, Alone, Goto, Step, Enters, StepAt, Forget
<1>2. CASE CloserChecksClose(s)
  <2>1. CASE closeFile # Absent
    <3>1. /\ pc' = [pc EXCEPT ![s] = "done"] /\ pc[s] = "check"
          /\ UNCHANGED closeFile /\ errors \subseteq errors'
      BY <1>2, <2>1 DEF CloserChecksClose
    <3> QED BY <2>1, <3>1, OrderElsewhere
  <2>2. CASE closeFile = Absent
    <3>1. /\ pc' = [pc EXCEPT ![s] = "read"] /\ \A g \in Hooks : pc[g] \notin Section
          /\ UNCHANGED <<closeFile, errors>>
      BY <1>2, <2>2 DEF CloserChecksClose
    <3> QED BY <2>2, <3>1
  <2> QED BY <2>1, <2>2
<1>3. CASE CloserReadsReceipts(s)
  BY <1>3 DEF CloserReadsReceipts
<1>4. CASE CloserReadsState(s)
  <2>1. CASE stateFile = Empty
    <3>1. /\ pc' = [pc EXCEPT ![s] = "done"] /\ pc[s] = "readState"
          /\ UNCHANGED closeFile /\ errors \subseteq errors' /\ s \in errors'
      BY <1>4, <2>1 DEF CloserReadsState, Fails
    <3> QED BY <3>1, OrderElsewhere
  <2>2. CASE stateFile # Empty
    <3>1. pc[s] = "readState" /\ pc' = [pc EXCEPT ![s] = "truncate"] /\ UNCHANGED <<files, errors>>
      BY <1>4, <2>2 DEF CloserReadsState, Fails
    <3> QED BY <3>1
  <2> QED BY <2>1, <2>2
<1>5. CASE CloserCreatesClose(s)
  <2>1. pc[s] = "truncate" /\ pc' = [pc EXCEPT ![s] = "write"] /\ closeFile' = Empty /\ UNCHANGED errors
    BY <1>5 DEF CloserCreatesClose
  <2>2. \A c \in Calls : pc[c] \notin Section
    BY <2>1
  <2> QED BY <2>1, <2>2
<1>6. CASE CloserWritesClose(s)
  <2>1. closeFile' \in Closing
    BY <1>6 DEF CloserWritesClose, Draft, Closing, LocalInv
  <2>2. pc[s] = "write" /\ pc' = [pc EXCEPT ![s] = "done"] /\ UNCHANGED errors
    BY <1>6 DEF CloserWritesClose
  <2>3. \A h \in Hooks \ {s} : pc[h] \notin Section
    BY <2>2
  <2>4. closeFile' \notin {Absent, Empty}
    BY <2>1
  <2> QED BY <2>2, <2>3, <2>4
<1> QED
  BY <1>2, <1>3, <1>4, <1>5, <1>6 DEF Closer

LEMMA OrderStep == OrderInv /\ [Next]_l2vars => OrderInv'
<1> SUFFICES ASSUME OrderInv, [Next]_l2vars PROVE FilesInv'
  BY TypeStep DEF OrderInv
<1>1. CASE UNCHANGED l2vars
  BY <1>1 DEF l2vars, OrderInv, FilesInv, Alone
<1>2. CASE Next
  <2>1. CASE orderly'
    BY <1>2, <2>1, SharedOrder, RecorderOrder, CloserOrder DEF Next
  <2>2. CASE ~ orderly'
    BY <2>2 DEF FilesInv
  <2> QED BY <2>1, <2>2
<1> QED BY <1>1, <1>2

LEMMA OrderInvariant == Spec => []OrderInv
BY OrderInit, OrderStep, PTL DEF Spec

\* A stop that has run leaves the session closed, or another one about to close it.
THEOREM L2StopCloses == Spec => []StopCloses
<1>1. OrderInv => StopCloses
  <2> SUFFICES ASSUME OrderInv, orderly, NEW s \in Stops, pc[s] = "done", s \notin errors
               PROVE  Closed \/ \E t \in Stops : pc[t] = "write"
    BY DEF StopCloses
  <2>1. closeFile # Absent
    BY DEF OrderInv, FilesInv
  <2>2. closeFile \in Closing \cup {Absent, Empty}
    BY DEF OrderInv, TypeInv, TypeOK
  <2> QED BY <2>1, <2>2 DEF OrderInv, FilesInv, Closed
<1> QED BY <1>1, OrderInvariant, PTL

\* Nothing changes a closed session, as long as no two hooks meet in a critical section and none
\* is killed midway.
THEOREM L2ClosedStays == Spec => ClosedStays
<1>1. OrderInv /\ [Next]_l2vars => [orderly' /\ Closed => UNCHANGED <<receipts, closeFile>>]_l2vars
  <2> SUFFICES ASSUME OrderInv, Next, orderly', Closed PROVE UNCHANGED <<receipts, closeFile>>
    OBVIOUS
  <2>1. closeFile \notin {Absent, Empty}
    BY RecordAssumption DEF Closed
  <2>2. orderly
    BY StaysOrderly
  <2>3. CASE \E h \in Hooks : Keying(h) \/ Kill(h)
    BY <2>3 DEF Keying, Kill, LoadsKey, CreatesKey, WritesKey, PublishesKey, CreatesPub, WritesPub, Fails
  <2>4. ASSUME NEW c \in Calls, Recorder(c) PROVE UNCHANGED <<receipts, closeFile>>
    <3>1. pc[c] \notin Section
      BY <2>1, <2>2 DEF OrderInv, FilesInv, Alone
    <3> QED BY <2>4, <3>1 DEF Recorder, RecorderChecksClose, RecorderReadsState, RecorderAppends,
       RecorderTruncatesState, RecorderWritesState, Fails, Step, StepAt, Goto
  <2>5. ASSUME NEW s \in Stops, Closer(s) PROVE UNCHANGED <<receipts, closeFile>>
    <3>1. pc[s] \notin Section
      <4>1. pc[s] \notin {"read", "readState", "truncate", "write"}
        BY <2>1, <2>2 DEF OrderInv, FilesInv
      <4>2. pc[s] = "append" => ~ Closer(s)
        BY DEF Closer, CloserChecksClose, CloserReadsReceipts, CloserReadsState, CloserCreatesClose,
               CloserWritesClose, Fails, Step, StepAt, Enters, Goto
      <4> QED BY <2>5, <4>1, <4>2
    <3> QED BY <2>5, <3>1 DEF Closer, CloserChecksClose, CloserReadsReceipts, CloserReadsState,
       CloserCreatesClose, CloserWritesClose, Fails, Step, StepAt, Goto
  <2> QED BY <2>3, <2>4, <2>5 DEF Next
<1> QED BY <1>1, OrderInvariant, PTL DEF Spec, ClosedStays

-----------------------------------------------------------------------------
(***************************************************************************)
(* What such a session contains: one chain in the order of the file,       *)
(* signed with the one key of the installation, and a close record that    *)
(* says so and, where the clock was not set back, spans it.                *)
(***************************************************************************)
InOrder ==
    \A k \in DOMAIN receipts :
        /\ receipts[k].seq = k - 1
        /\ receipts[k].prev = IF k = 1 THEN None ELSE receipts[k - 1].id

Fresh(c) == pc[c] \in {"ready", "publish", "createPub", "writePub", "check", "read", "append"} \cup KeySection

Distinct ==
    /\ \A j, k \in DOMAIN receipts : receipts[j].id = receipts[k].id => j = k
    /\ \A c \in Calls : Fresh(c) => \A k \in DOMAIN receipts : receipts[k].id # c

\* The number and predecessor that the next receipt is to have.
IsTip(seq, prev) ==
    /\ seq = Len(receipts)
    /\ prev = IF receipts = <<>> THEN None ELSE receipts[Len(receipts)].id

ChainInv ==
    orderly =>
        /\ InOrder /\ Distinct
        /\ \A c \in Calls : pc[c] = "append" => IsTip(seen[c].seq, seen[c].prev)
        /\ \A c \in Calls : pc[c] \in {"truncate", "write"} => IsTip(seen[c].seq + 1, c)
        /\ \/ stateFile \in State /\ IsTip(stateFile.seq, stateFile.prev)
           \/ stateFile = Absent /\ receipts = <<>>
           \/ stateFile = Empty
           \/ \E c \in Calls : pc[c] = "truncate"
        /\ \A s \in Stops : pc[s] \in {"readState", "truncate", "write"} => seen[s].ends = Ends
        /\ Closed => closeFile.ends = Ends

Keyless == {"ready", "done", "killed"} \cup KeySection

KeyInv ==
    orderly =>
        /\ \A g, h \in Hooks : pc[g] \in KeySection /\ pc[h] \in KeySection => g = h
        /\ \A h \in Hooks : pc[h] = "createKey" => keyFile = Absent
        /\ \A h \in Hooks : pc[h] = "writeKey" => keyFile = Empty
        /\ \A h \in Hooks : pc[h] \notin Keyless => key[h] = keyFile /\ keyFile \in Keys
        /\ pubFile # Absent => keyFile \in Keys /\ pubFile \in {keyFile, Empty}
        /\ \A h \in Hooks : pc[h] \notin Keyless \cup {"publish", "createPub"} => pubFile # Absent
        /\ receipts # <<>> \/ closeFile # Absent => pubFile # Absent
        /\ \A k \in DOMAIN receipts : receipts[k].signer = keyFile
        /\ Closed => closeFile.signer = keyFile

\* A session that opened at t did so before everything in it.
Opens(t) == t <= clock /\ \A k \in DOMAIN receipts : t <= receipts[k].at

WindowInv ==
    orderly /\ steady =>
        /\ \A k \in DOMAIN receipts : receipts[k].at <= clock
        /\ stateFile \in State => Opens(stateFile.opened)
        /\ \A c \in Calls : pc[c] \in {"append", "truncate", "write"} => Opens(seen[c].opened)
        /\ \A s \in Stops : pc[s] \in {"truncate", "write"} => Opens(seen[s].opened)
        /\ \A s \in Stops : pc[s] = "write" =>
               /\ seen[s].opened <= seen[s].closed
               /\ \A k \in DOMAIN receipts : receipts[k].at <= seen[s].closed
        /\ Closed => InWindow

SessionInv == OrderInv /\ ChainInv /\ KeyInv /\ WindowInv

LEMMA SessionInit == Init => SessionInv
<1> SUFFICES ASSUME Init PROVE ChainInv /\ KeyInv /\ WindowInv
  BY OrderInit DEF SessionInv
<1>1. ~ Closed /\ DOMAIN receipts = {}
  BY RecordAssumption DEF Init, Closed
<1>2. ChainInv
  BY <1>1 DEF Init, ChainInv, InOrder, Distinct
<1>3. KeyInv
  BY <1>1, L2Assumption DEF Init, KeyInv, Keyless
<1>4. WindowInv
  BY <1>1, RecordAssumption DEF Init, WindowInv
<1> QED BY <1>2, <1>3, <1>4

\* A hook at its key leaves the session alone.
LEMMA SharedLeaves ==
  ASSUME TypeInv, NEW h \in Hooks, Keying(h) \/ Kill(h)
  PROVE  /\ UNCHANGED <<files, clocks>>
         /\ \E to \in {"publish", "createPub", "writePub", "check", "done", "killed"} \cup KeySection :
               /\ pc' = [pc EXCEPT ![h] = to]
               /\ to \notin {"done", "killed"} => Fresh(h) /\ pc[h] \notin {"read", "append"}
         /\ seen' = seen \/ seen' = [seen EXCEPT ![h] = None]
         /\ \A g \in Hooks \ {h} : pc'[g] = pc[g] /\ seen'[g] = seen[g]
<1>1. UNCHANGED <<files, clocks>>
  BY DEF Keying, LoadsKey, CreatesKey, WritesKey, PublishesKey, CreatesPub, WritesPub, Kill, Fails,
         Step, Enters
<1>2. seen' = seen \/ seen' = [seen EXCEPT ![h] = None]
  BY DEF Keying, LoadsKey, CreatesKey, WritesKey, PublishesKey, CreatesPub, WritesPub, Kill, Fails, Forget
<1>3. PICK to \in {"publish", "createPub", "writePub", "check", "done", "killed"} \cup KeySection :
          /\ pc' = [pc EXCEPT ![h] = to]
          /\ to \notin {"done", "killed"} => Fresh(h) /\ pc[h] \notin {"read", "append"}
  BY DEF Keying, LoadsKey, CreatesKey, WritesKey, PublishesKey, CreatesPub, WritesPub, Kill, Fails,
         Step, Enters, Goto, Fresh
<1> QED BY <1>1, <1>2, <1>3 DEF TypeInv, TypeOK

LEMMA SharedKeys ==
  ASSUME SessionInv, NEW h \in Hooks, Keying(h) \/ Kill(h), orderly'
  PROVE  KeyInv'
<1>0. orderly
  BY StaysOrderly DEF Next
<1>a. UNCHANGED files
  BY SharedLeaves DEF SessionInv, OrderInv
<1> USE L2Assumption, RecordAssumption, <1>0, <1>a
    DEF SessionInv, OrderInv, TypeInv, TypeOK, KeyInv, Keyless, Goto, Step, Enters, Forget, Closed
<1>1. CASE LoadsKey(h)
  <2>1. CASE keyFile # Absent
    <3>1. CASE keyFile = Empty
      <4>1. /\ pc' = [pc EXCEPT ![h] = "done"] /\ key' = [key EXCEPT ![h] = None]
            /\ UNCHANGED <<keyFile, pubFile>>
        BY <1>1, <3>1 DEF LoadsKey, Fails
      <4>2. pc'[h] = "done" /\ \A g \in Hooks \ {h} : pc'[g] = pc[g] /\ key'[g] = key[g]
        BY <4>1
      <4> QED BY <4>1, <4>2
    <3>2. CASE keyFile \in Keys
      <4>1. /\ pc' = [pc EXCEPT ![h] = "publish"] /\ key' = [key EXCEPT ![h] = keyFile]
            /\ UNCHANGED <<keyFile, pubFile>>
        BY <1>1, <3>2 DEF LoadsKey, Fails
      <4> QED BY <3>2, <4>1
    <3> QED BY <2>1, <3>1, <3>2
  <2>2. CASE keyFile = Absent
    <3>1. /\ pc' = [pc EXCEPT ![h] = "createKey"] /\ UNCHANGED keys
          /\ orderly' = (orderly /\ \A g \in Hooks : pc[g] \notin KeySection)
      BY <1>1, <2>2 DEF LoadsKey, Fails
    <3>2. \A g \in Hooks : pc[g] \notin KeySection
      BY <3>1
    <3> QED BY <2>2, <3>1, <3>2
  <2> QED BY <2>1, <2>2
<1>2. CASE CreatesKey(h)
  BY <1>2 DEF CreatesKey
<1>3. CASE WritesKey(h)
  BY <1>3 DEF WritesKey
<1>4. CASE PublishesKey(h)
  <2>1. CASE pubFile = Absent
    BY <1>4, <2>1 DEF PublishesKey
  <2>2. CASE pubFile # Absent
    BY <1>4, <2>2 DEF PublishesKey
  <2> QED BY <2>1, <2>2
<1>5. CASE CreatesPub(h)
  BY <1>5 DEF CreatesPub
<1>6. CASE WritesPub(h)
  BY <1>6 DEF WritesPub
<1>7. CASE Kill(h)
  BY <1>7 DEF Kill
<1> QED
  BY <1>1, <1>2, <1>3, <1>4, <1>5, <1>6, <1>7 DEF Keying

\* A hook at the files of the session has its key, and the key is published.
LEMMA KeysElsewhere ==
  ASSUME SessionInv, orderly, NEW h \in Hooks, pc[h] \in {"check"} \cup Section,
         NEW to \in {"done"} \cup Section, pc' = [pc EXCEPT ![h] = to],
         UNCHANGED <<keyFile, pubFile>>, \A g \in Hooks : key'[g] = key[g] \/ (g = h /\ to = "done"),
         \A k \in DOMAIN receipts' : receipts'[k].signer = keyFile,
         Closed' => closeFile'.signer = keyFile
  PROVE  KeyInv'
<1>1. pc'[h] = to /\ \A g \in Hooks \ {h} : pc'[g] = pc[g]
  BY DEF SessionInv, OrderInv, TypeInv, TypeOK
<1>2. pubFile # Absent
  BY DEF SessionInv, KeyInv, Keyless
<1> QED BY <1>1, <1>2 DEF SessionInv, KeyInv, Keyless

LEMMA RecorderKeys ==
  ASSUME SessionInv, NEW c \in Calls, Recorder(c), orderly'
  PROVE  KeyInv'
<1>1. orderly
  BY StaysOrderly DEF Next
<1>2. PICK to \in {"done"} \cup Section : pc' = [pc EXCEPT ![c] = to] /\ pc[c] \in {"check"} \cup Section
  BY DEF Recorder, RecorderChecksClose, RecorderReadsState, RecorderAppends, RecorderTruncatesState,
         RecorderWritesState, Fails, Step, StepAt, Enters, Goto
<1>3. /\ UNCHANGED <<keyFile, pubFile, closeFile>>
      /\ key' = key \/ (to = "done" /\ key' = [key EXCEPT ![c] = None])
  <2>1. UNCHANGED <<keyFile, pubFile, closeFile>> /\ (key' = key \/ key' = [key EXCEPT ![c] = None])
    BY DEF Recorder, RecorderChecksClose, RecorderReadsState, RecorderAppends, RecorderTruncatesState,
           RecorderWritesState, Fails, Forget
  <2>2. key' = key \/ pc' = [pc EXCEPT ![c] = "done"]
    BY DEF Recorder, RecorderChecksClose, RecorderReadsState, RecorderAppends, RecorderTruncatesState,
           RecorderWritesState, Fails, Forget, Step, Goto
  <2>3. pc'[c] = to /\ (pc' = [pc EXCEPT ![c] = "done"] => pc'[c] = "done")
    BY <1>2 DEF SessionInv, OrderInv, TypeInv, TypeOK
  <2> QED BY <2>1, <2>2, <2>3
<1>4. \A k \in DOMAIN receipts' : receipts'[k].signer = keyFile
  <2>1. CASE RecorderAppends(c)
    <3>1. PICK r : receipts' = Append(receipts, r) /\ r.signer = key[c] /\ pc[c] = "append"
      BY <2>1 DEF RecorderAppends, StepAt, Goto
    <3>2. key[c] = keyFile
      BY <1>1, <3>1 DEF SessionInv, KeyInv, Keyless
    <3>3. receipts \in Seq(Receipt)
      BY DEF SessionInv, OrderInv, TypeInv, TypeOK
    <3>4. \A k \in DOMAIN receipts' :
             receipts'[k] = r \/ (k \in DOMAIN receipts /\ receipts'[k] = receipts[k])
      BY <3>1, <3>3
    <3> QED BY <1>1, <3>1, <3>2, <3>4 DEF SessionInv, KeyInv
  <2>2. CASE ~ RecorderAppends(c)
    <3>1. UNCHANGED receipts
      BY <2>2 DEF Recorder, RecorderChecksClose, RecorderReadsState, RecorderTruncatesState,
                  RecorderWritesState, Fails
    <3> QED BY <1>1, <3>1 DEF SessionInv, KeyInv
  <2> QED BY <2>1, <2>2
<1>5. Closed' => closeFile'.signer = keyFile
  BY <1>1, <1>3 DEF SessionInv, KeyInv, Closed
<1>6. \A g \in Hooks : key'[g] = key[g] \/ (g = c /\ to = "done")
  BY <1>3 DEF SessionInv, OrderInv, TypeInv, TypeOK
<1> QED BY <1>1, <1>2, <1>3, <1>4, <1>5, <1>6, KeysElsewhere

LEMMA CloserKeys ==
  ASSUME SessionInv, NEW s \in Stops, Closer(s), orderly'
  PROVE  KeyInv'
<1>1. orderly
  BY StaysOrderly DEF Next
<1>2. PICK to \in {"done"} \cup Section : pc' = [pc EXCEPT ![s] = to] /\ pc[s] \in {"check"} \cup Section
  BY DEF Closer, CloserChecksClose, CloserReadsReceipts, CloserReadsState, CloserCreatesClose,
         CloserWritesClose, Fails, Step, StepAt, Enters, Goto
<1>3. /\ UNCHANGED <<keyFile, pubFile, receipts>>
      /\ key' = key \/ (to = "done" /\ key' = [key EXCEPT ![s] = None])
  <2>1. UNCHANGED <<keyFile, pubFile, receipts>> /\ (key' = key \/ key' = [key EXCEPT ![s] = None])
    BY DEF Closer, CloserChecksClose, CloserReadsReceipts, CloserReadsState, CloserCreatesClose,
           CloserWritesClose, Fails, Forget
  <2>2. key' = key \/ pc' = [pc EXCEPT ![s] = "done"]
    BY DEF Closer, CloserChecksClose, CloserReadsReceipts, CloserReadsState, CloserCreatesClose,
           CloserWritesClose, Fails, Forget, Step, Goto
  <2>3. pc'[s] = to /\ (pc' = [pc EXCEPT ![s] = "done"] => pc'[s] = "done")
    BY <1>2 DEF SessionInv, OrderInv, TypeInv, TypeOK
  <2> QED BY <2>1, <2>2, <2>3
<1>4. \A k \in DOMAIN receipts' : receipts'[k].signer = keyFile
  BY <1>1, <1>3 DEF SessionInv, KeyInv
<1>5. Closed' => closeFile'.signer = keyFile
  <2>1. CASE CloserWritesClose(s)
    BY <1>1, <2>1 DEF CloserWritesClose, Step, Goto, SessionInv, KeyInv, Keyless
  <2>2. CASE CloserCreatesClose(s)
    BY <2>2, RecordAssumption DEF CloserCreatesClose, Closed
  <2>3. CASE ~ CloserWritesClose(s) /\ ~ CloserCreatesClose(s)
    <3>1. UNCHANGED closeFile
      BY <2>3 DEF Closer, CloserChecksClose, CloserReadsReceipts, CloserReadsState, Fails
    <3> QED BY <1>1, <3>1 DEF SessionInv, KeyInv, Closed
  <2> QED BY <2>1, <2>2, <2>3
<1>6. \A g \in Hooks : key'[g] = key[g] \/ (g = s /\ to = "done")
  BY <1>3 DEF SessionInv, OrderInv, TypeInv, TypeOK
<1> QED BY <1>1, <1>2, <1>3, <1>4, <1>5, <1>6, KeysElsewhere

\* A hook that leaves receipts and state as they are, and knows what it should where it goes.
LEMMA ChainElsewhere ==
  ASSUME SessionInv, orderly, NEW h \in Hooks, NEW to, pc' = [pc EXCEPT ![h] = to],
         UNCHANGED <<receipts, stateFile>>, closeFile' = closeFile \/ (Closed' => closeFile'.ends = Ends),
         \A g \in Hooks \ {h} : seen'[g] = seen[g],
         h \in Calls => pc[h] # "truncate" /\ to \notin {"truncate", "write"},
         h \in Calls => Fresh(h) \/ to \in {"done", "killed"},
         h \in Calls /\ to = "append" => IsTip(seen'[h].seq, seen'[h].prev),
         h \in Stops /\ to \in {"readState", "truncate", "write"} => seen'[h].ends = Ends
  PROVE  ChainInv'
<1>1. pc'[h] = to /\ \A g \in Hooks \ {h} : pc'[g] = pc[g]
  BY DEF SessionInv, OrderInv, TypeInv, TypeOK
<1>2. InOrder' /\ Ends' = Ends /\ \A seq, prev : IsTip(seq, prev)' <=> IsTip(seq, prev)
  BY DEF SessionInv, ChainInv, InOrder, Ends, IsTip
<1>3. Distinct'
  BY <1>1 DEF SessionInv, ChainInv, Distinct, Fresh, KeySection
<1>4. Closed' => closeFile'.ends = Ends'
  BY <1>2 DEF SessionInv, ChainInv, Closed
<1>5. \/ stateFile' \in State /\ IsTip(stateFile.seq, stateFile.prev)
      \/ stateFile' = Absent /\ receipts' = <<>>
      \/ stateFile' = Empty
      \/ \E c \in Calls : pc'[c] = "truncate"
  BY <1>1 DEF SessionInv, ChainInv
<1>6. \A c \in Calls : pc'[c] = "append" => IsTip(seen'[c].seq, seen'[c].prev)
  BY <1>1 DEF SessionInv, ChainInv
<1>7. \A c \in Calls : pc'[c] \in {"truncate", "write"} => IsTip(seen'[c].seq + 1, c)
  BY <1>1 DEF SessionInv, ChainInv
<1>8. \A s \in Stops : pc'[s] \in {"readState", "truncate", "write"} => seen'[s].ends = Ends
  BY <1>1 DEF SessionInv, ChainInv
<1> HIDE DEF IsTip, Ends, InOrder, Distinct
<1> QED BY <1>2, <1>3, <1>4, <1>5, <1>6, <1>7, <1>8 DEF ChainInv, IsTip, InOrder

LEMMA SharedChain ==
  ASSUME SessionInv, NEW h \in Hooks, Keying(h) \/ Kill(h), orderly'
  PROVE  ChainInv'
<1>1. orderly
  BY StaysOrderly DEF Next
<1>2. PICK to \in {"publish", "createPub", "writePub", "check", "done", "killed"} \cup KeySection :
          /\ pc' = [pc EXCEPT ![h] = to]
          /\ to \notin {"done", "killed"} => Fresh(h) /\ pc[h] \notin {"read", "append"}
          /\ UNCHANGED files
          /\ \A g \in Hooks \ {h} : pc'[g] = pc[g] /\ seen'[g] = seen[g]
  BY SharedLeaves DEF SessionInv, OrderInv
<1>3. h \in Calls => pc[h] # "truncate"
  BY <1>1 DEF Keying, LoadsKey, CreatesKey, WritesKey, PublishesKey, CreatesPub, WritesPub, Kill, Midway,
              Fails, Step, Enters, Goto
<1> QED BY <1>1, <1>2, <1>3, L2Assumption, ChainElsewhere

LEMMA StateIsTip ==
  ASSUME SessionInv, orderly, NEW h \in Hooks, h \in Calls => pc[h] # "truncate", pc[h] \in Section
  PROVE  /\ stateFile \in State => IsTip(stateFile.seq, stateFile.prev)
         /\ stateFile = Absent => receipts = <<>>
<1>1. \A d \in Calls : pc[d] # "truncate"
  <2> SUFFICES ASSUME NEW d \in Calls, pc[d] = "truncate" PROVE FALSE
    OBVIOUS
  <2>1. d = h
    BY DEF SessionInv, OrderInv, FilesInv, Alone
  <2> QED BY <2>1
<1> QED BY <1>1, RecordAssumption, L2Assumption DEF SessionInv, ChainInv

LEMMA RecorderChain ==
  ASSUME SessionInv, NEW c \in Calls, Recorder(c), orderly'
  PROVE  ChainInv'
<1>0. orderly
  BY StaysOrderly DEF Next
<1>a. c \notin Stops /\ TypeOK /\ OrderInv
  BY L2Assumption DEF SessionInv, OrderInv, TypeInv
<1>1. CASE RecorderChecksClose(c)
  <2>1. CASE closeFile # Absent
    <3>1. /\ pc' = [pc EXCEPT ![c] = "done"] /\ pc[c] = "check"
          /\ UNCHANGED <<receipts, stateFile, closeFile>> /\ seen' = [seen EXCEPT ![c] = None]
      BY <1>1, <2>1 DEF RecorderChecksClose, Forget, Step, Goto
    <3> QED BY <1>0, <1>a, <3>1, ChainElsewhere DEF Fresh, TypeOK
  <2>2. CASE closeFile = Absent
    <3>1. /\ pc' = [pc EXCEPT ![c] = "read"] /\ pc[c] = "check"
          /\ UNCHANGED <<receipts, stateFile, closeFile, seen>>
      BY <1>1, <2>2 DEF RecorderChecksClose, Enters, Goto
    <3> QED BY <1>0, <1>a, <3>1, ChainElsewhere DEF Fresh
  <2> QED BY <2>1, <2>2
<1>2. CASE RecorderReadsState(c)
  <2>0. /\ pc[c] = "read" /\ UNCHANGED <<receipts, stateFile, closeFile>>
        /\ \A g \in Hooks \ {c} : seen'[g] = seen[g]
    <3>1. pc[c] = "read" /\ UNCHANGED <<receipts, stateFile, closeFile>>
      BY <1>2 DEF RecorderReadsState, Fails, Step, StepAt, Goto
    <3>2. PICK x : seen' = [seen EXCEPT ![c] = x]
      BY <1>2 DEF RecorderReadsState, Fails, Forget
    <3> QED BY <1>a, <3>1, <3>2 DEF TypeOK
  <2>1. CASE stateFile = Empty
    <3>1. pc' = [pc EXCEPT ![c] = "done"]
      BY <1>2, <2>1, L2Assumption DEF RecorderReadsState, Fails, Step, Goto
    <3> QED BY <1>0, <1>a, <2>0, <3>1, ChainElsewhere DEF Fresh
  <2>2. CASE stateFile = Absent
    <3>1. PICK now : /\ pc' = [pc EXCEPT ![c] = "append"]
                     /\ seen' = [seen EXCEPT ![c] = [seq |-> 0, prev |-> None, opened |-> now]]
      BY <1>2, <2>2, L2Assumption DEF RecorderReadsState, StepAt, Goto
    <3>2. seen'[c].seq = 0 /\ seen'[c].prev = None
      BY <3>1, <1>a DEF TypeOK
    <3>3. IsTip(seen'[c].seq, seen'[c].prev)
      <4>1. receipts = <<>>
        BY <1>0, <2>0, <2>2, StateIsTip
      <4> QED BY <3>2, <4>1 DEF IsTip
    <3> QED BY <1>0, <1>a, <2>0, <3>1, <3>3, ChainElsewhere DEF Fresh
  <2>3. CASE stateFile \notin {Absent, Empty}
    <3>1. /\ pc' = [pc EXCEPT ![c] = "append"]
          /\ seen' = [seen EXCEPT ![c] = stateFile]
      BY <1>2, <2>3 DEF RecorderReadsState, Fails, Step, Goto
    <3>2. seen'[c] = stateFile
      BY <3>1, <1>a DEF TypeOK
    <3>3. stateFile \in State
      BY <1>a, <2>3 DEF TypeOK
    <3>4. IsTip(seen'[c].seq, seen'[c].prev)
      BY <1>0, <2>0, <3>2, <3>3, StateIsTip
    <3> QED BY <1>0, <1>a, <2>0, <3>1, <3>4, ChainElsewhere DEF Fresh
  <2> QED BY <2>1, <2>2, <2>3
<1>3. CASE RecorderAppends(c)
  <2> DEFINE n == Len(receipts)
  <2>1. PICK receipt : /\ pc[c] = "append" /\ pc' = [pc EXCEPT ![c] = "truncate"]
                       /\ receipts' = Append(receipts, receipt)
                       /\ receipt.id = c /\ receipt.seq = seen[c].seq /\ receipt.prev = seen[c].prev
                       /\ UNCHANGED <<stateFile, closeFile, seen>>
    BY <1>3 DEF RecorderAppends, StepAt, Goto
  <2>2. /\ n \in Nat /\ DOMAIN receipts = 1 .. n
        /\ receipts' # <<>> /\ Len(receipts') = n + 1 /\ DOMAIN receipts' = 1 .. n + 1
        /\ \A k \in 1 .. n : receipts'[k] = receipts[k]
        /\ receipts'[n + 1] = receipt
    BY <2>1, <1>a DEF TypeOK
  <2>3. receipt.seq = n /\ receipt.prev = IF n = 0 THEN None ELSE receipts[n].id
    BY <1>0, <1>a, <2>1, <2>2 DEF SessionInv, ChainInv, IsTip, TypeOK
  <2>4. pc'[c] = "truncate" /\ \A h \in Hooks \ {c} : pc'[h] = pc[h] /\ pc[h] \notin Section
    BY <1>0, <1>a, <2>1 DEF TypeOK, OrderInv, FilesInv, Alone
  <2>5. InOrder'
    BY <1>0, <2>2, <2>3 DEF SessionInv, ChainInv, InOrder
  <2>6. Distinct'
    <3>1. \A k \in 1 .. n : receipts[k].id # c
      BY <1>0, <2>1, <2>2 DEF SessionInv, ChainInv, Distinct, Fresh
    <3>2. \A j, k \in 1 .. n : receipts[j].id = receipts[k].id => j = k
      BY <1>0, <2>2 DEF SessionInv, ChainInv, Distinct
    <3>3. \A j, k \in DOMAIN receipts' : receipts'[j].id = receipts'[k].id => j = k
      BY <2>1, <2>2, <3>1, <3>2
    <3>4. \A d \in Calls : Fresh(d)' => d # c /\ Fresh(d)
      BY <2>4 DEF Fresh, KeySection
    <3>5. \A d \in Calls : Fresh(d)' => \A k \in DOMAIN receipts' : receipts'[k].id # d
      BY <1>0, <2>1, <2>2, <3>4 DEF SessionInv, ChainInv, Distinct
    <3> QED BY <3>3, <3>5 DEF Distinct
  <2>7. IsTip(seen[c].seq + 1, c)'
    BY <2>1, <2>2, <2>3 DEF IsTip
  <2>8. closeFile = Absent
    BY <1>0, <1>a, <2>1 DEF OrderInv, FilesInv
  <2>9. ~ Closed'
    BY <2>1, <2>8, RecordAssumption DEF Closed
  <2>10. \A s \in Stops : pc'[s] \notin Section
    BY <1>a, <2>4
  <2>11. \A d \in Calls : pc'[d] \in Section => d = c
    BY <2>4
  <2> QED BY <2>1, <2>4, <2>5, <2>6, <2>7, <2>9, <2>10, <2>11 DEF ChainInv
<1>4. CASE RecorderTruncatesState(c)
  <2>1. /\ UNCHANGED <<receipts, closeFile, seen>> /\ stateFile' = Empty
        /\ pc[c] = "truncate" /\ pc' = [pc EXCEPT ![c] = "write"]
    BY <1>4 DEF RecorderTruncatesState, Step, Goto
  <2>2. pc'[c] = "write" /\ \A h \in Hooks \ {c} : pc'[h] = pc[h]
    BY <1>a, <2>1 DEF TypeOK
  <2>3. InOrder' /\ Ends' = Ends /\ \A seq, prev : IsTip(seq, prev)' <=> IsTip(seq, prev)
    BY <1>0, <2>1 DEF SessionInv, ChainInv, InOrder, Ends, IsTip
  <2>4. Distinct'
    BY <1>0, <2>1, <2>2 DEF SessionInv, ChainInv, Distinct, Fresh, KeySection
  <2>5. Closed' => closeFile'.ends = Ends'
    BY <1>0, <2>1, <2>3 DEF SessionInv, ChainInv, Closed
  <2>6. \A d \in Calls : pc'[d] = "append" => IsTip(seen'[d].seq, seen'[d].prev)
    BY <1>0, <2>1, <2>2 DEF SessionInv, ChainInv
  <2>7. \A d \in Calls : pc'[d] \in {"truncate", "write"} => IsTip(seen'[d].seq + 1, d)
    BY <1>0, <2>1, <2>2 DEF SessionInv, ChainInv
  <2>8. \A s \in Stops : pc'[s] \in {"readState", "truncate", "write"} => seen'[s].ends = Ends'
    BY <1>0, <1>a, <2>1, <2>2, <2>3 DEF SessionInv, ChainInv
  <2> HIDE DEF InOrder, Ends, IsTip, Distinct
  <2> QED BY <2>1, <2>3, <2>4, <2>5, <2>6, <2>7, <2>8 DEF ChainInv
<1>5. CASE RecorderWritesState(c)
  <2>1. /\ UNCHANGED <<receipts, closeFile>> /\ pc[c] = "write" /\ pc' = [pc EXCEPT ![c] = "done"]
        /\ stateFile' = [seq |-> seen[c].seq + 1, prev |-> c, opened |-> seen[c].opened]
        /\ seen' = [seen EXCEPT ![c] = None]
    BY <1>5 DEF RecorderWritesState, Step, Goto, Forget
  <2>2. pc'[c] = "done" /\ \A h \in Hooks \ {c} : pc'[h] = pc[h] /\ seen'[h] = seen[h]
    BY <1>a, <2>1 DEF TypeOK
  <2>3. InOrder' /\ Ends' = Ends /\ \A seq, prev : IsTip(seq, prev)' <=> IsTip(seq, prev)
    BY <1>0, <2>1 DEF SessionInv, ChainInv, InOrder, Ends, IsTip
  <2>4. Distinct'
    BY <1>0, <2>1, <2>2 DEF SessionInv, ChainInv, Distinct, Fresh, KeySection
  <2>5. Closed' => closeFile'.ends = Ends'
    BY <1>0, <2>1, <2>3 DEF SessionInv, ChainInv, Closed
  <2>6. \A d \in Calls : pc'[d] = "append" => IsTip(seen'[d].seq, seen'[d].prev)
    BY <1>0, <2>2 DEF SessionInv, ChainInv
  <2>7. \A d \in Calls : pc'[d] \in {"truncate", "write"} => IsTip(seen'[d].seq + 1, d)
    BY <1>0, <2>2 DEF SessionInv, ChainInv
  <2>8. \A s \in Stops : pc'[s] \in {"readState", "truncate", "write"} => seen'[s].ends = Ends'
    BY <1>0, <1>a, <2>2, <2>3 DEF SessionInv, ChainInv
  <2>9. stateFile' \in State /\ IsTip(stateFile'.seq, stateFile'.prev)
    <3>1. seen[c] \in State
      BY <2>1 DEF SessionInv, OrderInv, TypeInv, LocalInv
    <3>2. stateFile' \in State /\ stateFile'.seq = seen[c].seq + 1 /\ stateFile'.prev = c
      BY <2>1, <3>1 DEF State
    <3> QED BY <1>0, <2>1, <3>2 DEF SessionInv, ChainInv
  <2> HIDE DEF InOrder, Ends, IsTip, Distinct
  <2> QED BY <2>3, <2>4, <2>5, <2>6, <2>7, <2>8, <2>9 DEF ChainInv
<1> QED
  BY <1>1, <1>2, <1>3, <1>4, <1>5 DEF Recorder

LEMMA CloserChain ==
  ASSUME SessionInv, NEW s \in Stops, Closer(s), orderly'
  PROVE  ChainInv'
<1>0. orderly
  BY StaysOrderly DEF Next
<1>a. s \notin Calls /\ TypeOK /\ OrderInv
  BY L2Assumption DEF SessionInv, OrderInv, TypeInv
<1>b. UNCHANGED <<receipts, stateFile>>
  BY DEF Closer, CloserChecksClose, CloserReadsReceipts, CloserReadsState, CloserCreatesClose,
         CloserWritesClose, Fails
<1>1. CASE CloserChecksClose(s)
  <2>1. CASE closeFile # Absent
    <3>1. pc' = [pc EXCEPT ![s] = "done"] /\ UNCHANGED closeFile /\ seen' = [seen EXCEPT ![s] = None]
      BY <1>1, <2>1 DEF CloserChecksClose, Step, Goto, Forget
    <3>2. \A g \in Hooks \ {s} : seen'[g] = seen[g]
      BY <1>a, <3>1 DEF TypeOK
    <3> QED BY <1>0, <1>a, <1>b, <3>1, <3>2, ChainElsewhere
  <2>2. CASE closeFile = Absent
    <3>1. pc' = [pc EXCEPT ![s] = "read"] /\ UNCHANGED <<closeFile, seen>>
      BY <1>1, <2>2 DEF CloserChecksClose, Enters, Goto
    <3> QED BY <1>0, <1>a, <1>b, <3>1, ChainElsewhere
  <2> QED BY <2>1, <2>2
<1>2. CASE CloserReadsReceipts(s)
  <2>1. /\ pc' = [pc EXCEPT ![s] = "readState"] /\ UNCHANGED closeFile
        /\ seen' = [seen EXCEPT ![s] = [ends |-> Ends, opened |-> None, closed |-> None]]
    BY <1>2 DEF CloserReadsReceipts, Step, Goto
  <2>2. seen'[s].ends = Ends /\ \A g \in Hooks \ {s} : seen'[g] = seen[g]
    BY <1>a, <2>1 DEF TypeOK
  <2> QED BY <1>0, <1>a, <1>b, <2>1, <2>2, ChainElsewhere
<1>3. CASE CloserReadsState(s)
  <2>1. CASE stateFile = Empty
    <3>1. pc' = [pc EXCEPT ![s] = "done"] /\ UNCHANGED closeFile /\ seen' = [seen EXCEPT ![s] = None]
      BY <1>3, <2>1, L2Assumption DEF CloserReadsState, Step, Goto, Fails, Forget
    <3>2. \A g \in Hooks \ {s} : seen'[g] = seen[g]
      BY <1>a, <3>1 DEF TypeOK
    <3> QED BY <1>0, <1>a, <1>b, <3>1, <3>2, ChainElsewhere
  <2>2. CASE stateFile # Empty
    <3>1. PICK t : /\ pc[s] = "readState" /\ pc' = [pc EXCEPT ![s] = "truncate"] /\ UNCHANGED closeFile
                   /\ seen' = [seen EXCEPT ![s].opened = t]
      BY <1>3, <2>2 DEF CloserReadsState, Step, StepAt, Goto, Fails
    <3>2. seen'[s] = [seen[s] EXCEPT !.opened = t] /\ \A g \in Hooks \ {s} : seen'[g] = seen[g]
      BY <1>a, <3>1 DEF TypeOK
    <3>3. seen[s] \in Draft /\ seen[s].ends = Ends
      BY <1>0, <3>1 DEF SessionInv, ChainInv, OrderInv, TypeInv, LocalInv
    <3>4. seen'[s].ends = Ends
      BY <3>2, <3>3 DEF Draft
    <3> QED BY <1>0, <1>a, <1>b, <3>1, <3>2, <3>4, ChainElsewhere
  <2> QED BY <2>1, <2>2
<1>4. CASE CloserCreatesClose(s)
  <2>1. PICK t : /\ pc[s] = "truncate" /\ pc' = [pc EXCEPT ![s] = "write"] /\ closeFile' = Empty
                 /\ seen' = [seen EXCEPT ![s].closed = t]
    BY <1>4 DEF CloserCreatesClose, StepAt, Goto
  <2>2. seen'[s] = [seen[s] EXCEPT !.closed = t] /\ \A g \in Hooks \ {s} : seen'[g] = seen[g]
    BY <1>a, <2>1 DEF TypeOK
  <2>3. seen[s] \in Draft /\ seen[s].ends = Ends
    BY <1>0, <2>1 DEF SessionInv, ChainInv, OrderInv, TypeInv, LocalInv
  <2>4. seen'[s].ends = Ends
    BY <2>2, <2>3 DEF Draft
  <2>5. ~ Closed'
    BY <2>1, RecordAssumption DEF Closed
  <2> QED BY <1>0, <1>a, <1>b, <2>1, <2>2, <2>4, <2>5, ChainElsewhere
<1>5. CASE CloserWritesClose(s)
  <2>1. /\ pc[s] = "write" /\ pc' = [pc EXCEPT ![s] = "done"] /\ seen' = [seen EXCEPT ![s] = None]
        /\ closeFile'.ends = seen[s].ends
    BY <1>5 DEF CloserWritesClose, Step, Goto, Forget
  <2>2. seen[s].ends = Ends
    BY <1>0, <2>1 DEF SessionInv, ChainInv
  <2>3. \A g \in Hooks \ {s} : seen'[g] = seen[g]
    BY <1>a, <2>1 DEF TypeOK
  <2> QED BY <1>0, <1>a, <1>b, <2>1, <2>2, <2>3, ChainElsewhere
<1> QED BY <1>1, <1>2, <1>3, <1>4, <1>5 DEF Closer

-----------------------------------------------------------------------------
\* A clock that is steady after a step was so before, and has not gone back.
LEMMA StaysSteady ==
  ASSUME TypeInv, Next, steady'
  PROVE  steady /\ clock <= clock' /\ clock \in Int /\ clock' \in Int
<1>1. TypeInv'
  BY TypeStep
<1>2. clock \in Int /\ clock' \in Int /\ steady \in BOOLEAN
  BY <1>1, L2Assumption DEF TypeInv, TypeOK
<1>3. UNCHANGED clocks \/ (steady' = (steady /\ clock <= clock'))
  <2>1. ASSUME NEW h \in Hooks, Keying(h) \/ Kill(h) PROVE UNCHANGED clocks
    BY <2>1, SharedLeaves
  <2>2. ASSUME NEW c \in Calls, Recorder(c) PROVE UNCHANGED clocks \/ (steady' = (steady /\ clock <= clock'))
    BY <2>2 DEF Recorder, RecorderChecksClose, RecorderReadsState, RecorderAppends, RecorderTruncatesState,
                RecorderWritesState, Fails, Step, StepAt, Enters
  <2>3. ASSUME NEW s \in Stops, Closer(s) PROVE UNCHANGED clocks \/ (steady' = (steady /\ clock <= clock'))
    BY <2>3 DEF Closer, CloserChecksClose, CloserReadsReceipts, CloserReadsState, CloserCreatesClose,
                CloserWritesClose, Fails, Step, StepAt, Enters
  <2> QED BY <2>1, <2>2, <2>3 DEF Next
<1>4. steady /\ (clock' = clock \/ clock <= clock')
  BY <1>3, Zenon
<1> QED BY <1>2, <1>4

\* Time passes, and a hook goes where it knows what it should.
LEMMA WindowElsewhere ==
  ASSUME SessionInv, orderly, steady, clock <= clock', clock' \in Int,
         NEW h \in Hooks, NEW to, pc' = [pc EXCEPT ![h] = to],
         UNCHANGED <<receipts, stateFile>>, closeFile' = closeFile \/ (Closed => InWindow)',
         \A g \in Hooks \ {h} : seen'[g] = seen[g],
         (h \in Calls /\ pc[h] \in {"append", "truncate", "write"} => Opens(seen[h].opened))',
         (h \in Stops /\ pc[h] \in {"truncate", "write"} => Opens(seen[h].opened))',
         h \in Stops /\ to = "write" =>
             /\ seen'[h].opened <= seen'[h].closed
             /\ \A k \in DOMAIN receipts : receipts[k].at <= seen'[h].closed
  PROVE  WindowInv'
<1> USE DEF SessionInv, WindowInv
<1>1. pc'[h] = to /\ \A g \in Hooks \ {h} : pc'[g] = pc[g]
  BY DEF OrderInv, TypeInv, TypeOK
<1>2. TypeOK /\ LocalInv /\ Times \subseteq Int /\ clock \in Int
  BY L2Assumption DEF OrderInv, TypeInv, TypeOK
<1>3. \A k \in DOMAIN receipts : receipts[k].at \in Int
  <2>1. \A k \in DOMAIN receipts : receipts[k] \in Receipt
    BY <1>2 DEF TypeOK
  <2> QED BY <1>2, <2>1 DEF Receipt
<1>4. \A t \in Int : Opens(t) => Opens(t)'
  BY <1>2 DEF Opens
<1>5. \A k \in DOMAIN receipts' : receipts'[k].at <= clock'
  BY <1>2, <1>3
<1>6. stateFile' \in State => Opens(stateFile.opened)'
  <2> SUFFICES ASSUME stateFile \in State PROVE Opens(stateFile.opened)'
    OBVIOUS
  <2>1. stateFile.opened \in Int /\ Opens(stateFile.opened)
    BY <1>2 DEF State
  <2> QED BY <2>1, <1>2 DEF Opens
<1>7. \A c \in Calls : pc'[c] \in {"append", "truncate", "write"} => Opens(seen[c].opened)'
  <2> SUFFICES ASSUME NEW c \in Calls, pc'[c] \in {"append", "truncate", "write"}, c # h
               PROVE  Opens(seen[c].opened)'
    BY <1>1
  <2>1. seen[c] \in State /\ Opens(seen[c].opened) /\ seen'[c] = seen[c]
    BY <1>1, <1>2 DEF LocalInv
  <2>2. seen[c].opened \in Int
    BY <1>2, <2>1 DEF State
  <2> QED BY <2>1, <2>2, <1>2 DEF Opens
<1>8. \A s \in Stops : pc'[s] \in {"truncate", "write"} => Opens(seen[s].opened)'
  <2> SUFFICES ASSUME NEW s \in Stops, pc'[s] \in {"truncate", "write"}, s # h
               PROVE  Opens(seen[s].opened)'
    BY <1>1
  <2>1. seen[s].opened \in Int /\ Opens(seen[s].opened) /\ seen'[s] = seen[s]
    BY <1>1, <1>2 DEF LocalInv
  <2> QED BY <2>1, <1>2 DEF Opens
<1>9. \A s \in Stops : pc'[s] = "write" => /\ seen'[s].opened <= seen'[s].closed
                                           /\ \A k \in DOMAIN receipts' : receipts'[k].at <= seen'[s].closed
  BY <1>1
<1>10. Closed' => InWindow'
  BY DEF Closed, InWindow
<1> QED BY <1>5, <1>6, <1>7, <1>8, <1>9, <1>10

LEMMA SharedWindow ==
  ASSUME SessionInv, NEW h \in Hooks, Keying(h) \/ Kill(h), orderly', steady'
  PROVE  WindowInv'
<1>1. orderly /\ steady /\ clock <= clock' /\ clock' \in Int
  BY StaysOrderly, StaysSteady DEF Next, SessionInv, OrderInv
<1>2. PICK to \in {"publish", "createPub", "writePub", "check", "done", "killed"} \cup KeySection :
          /\ pc' = [pc EXCEPT ![h] = to]
          /\ UNCHANGED files
          /\ \A g \in Hooks \ {h} : pc'[g] = pc[g] /\ seen'[g] = seen[g]
  BY SharedLeaves DEF SessionInv, OrderInv
<1>3. pc'[h] = to
  BY <1>2 DEF SessionInv, OrderInv, TypeInv, TypeOK
<1> QED BY <1>1, <1>2, <1>3, WindowElsewhere

LEMMA RecorderWindow ==
  ASSUME SessionInv, NEW c \in Calls, Recorder(c), orderly', steady'
  PROVE  WindowInv'
<1>0. orderly /\ steady /\ clock <= clock' /\ clock \in Int /\ clock' \in Int
  BY StaysOrderly, StaysSteady DEF Next, SessionInv, OrderInv
<1>a. c \notin Stops /\ TypeOK /\ LocalInv /\ Times \subseteq Int
  BY L2Assumption DEF SessionInv, OrderInv, TypeInv
<1>1. CASE RecorderChecksClose(c)
  <2>1. PICK to \in {"read", "done"} : pc' = [pc EXCEPT ![c] = to]
    BY <1>1 DEF RecorderChecksClose, Step, Enters, Goto
  <2>2. UNCHANGED <<receipts, stateFile, closeFile>> /\ (seen' = seen \/ seen' = [seen EXCEPT ![c] = None])
    BY <1>1 DEF RecorderChecksClose, Forget
  <2>3. pc'[c] = to /\ \A g \in Hooks \ {c} : seen'[g] = seen[g]
    BY <1>a, <2>1, <2>2 DEF TypeOK
  <2> QED BY <1>0, <1>a, <2>1, <2>2, <2>3, WindowElsewhere
<1>2. CASE RecorderReadsState(c)
  <2>0. pc[c] = "read" /\ UNCHANGED <<receipts, stateFile, closeFile>>
    BY <1>2 DEF RecorderReadsState, Fails, Step, StepAt, Goto
  <2>1. PICK x, to : pc' = [pc EXCEPT ![c] = to] /\ seen' = [seen EXCEPT ![c] = x]
    BY <1>2 DEF RecorderReadsState, Fails, Step, StepAt, Goto, Forget
  <2>2. pc'[c] = to /\ seen'[c] = x /\ \A g \in Hooks \ {c} : seen'[g] = seen[g]
    BY <1>a, <2>1 DEF TypeOK
  <2>3. pc'[c] \in {"append", "truncate", "write"} => Opens(seen[c].opened)'
    <3>1. CASE stateFile = Empty
      <4>1. pc' = [pc EXCEPT ![c] = "done"]
        BY <1>2, <3>1, L2Assumption DEF RecorderReadsState, Fails, Step, Goto
      <4> QED BY <1>a, <4>1 DEF TypeOK
    <3>2. CASE stateFile = Absent
      <4>1. PICK now \in Times :
              /\ clock' = now
              /\ seen' = [seen EXCEPT ![c] = [seq |-> 0, prev |-> None, opened |-> now]]
        BY <1>2, <3>2, L2Assumption DEF RecorderReadsState, StepAt
      <4>2. seen'[c].opened = clock'
        BY <1>a, <4>1 DEF TypeOK
      <4>3. receipts' = <<>>
        BY <1>0, <2>0, <3>2, StateIsTip
      <4> QED BY <1>0, <4>2, <4>3 DEF Opens
    <3>3. CASE stateFile \notin {Absent, Empty}
      <4>1. seen' = [seen EXCEPT ![c] = stateFile]
        BY <1>2, <3>3 DEF RecorderReadsState
      <4>2. seen'[c] = stateFile /\ stateFile \in State
        BY <1>a, <3>3, <4>1 DEF TypeOK
      <4>3. stateFile.opened \in Int /\ Opens(stateFile.opened)
        BY <1>0, <1>a, <4>2 DEF State, SessionInv, WindowInv
      <4> QED BY <1>0, <2>0, <4>2, <4>3 DEF Opens
    <3> QED BY <3>1, <3>2, <3>3
  <2> QED BY <1>0, <1>a, <2>0, <2>1, <2>2, <2>3, WindowElsewhere
<1>3. CASE RecorderAppends(c)
  <2> DEFINE n == Len(receipts)
  <2>1. PICK receipt : /\ pc[c] = "append" /\ pc' = [pc EXCEPT ![c] = "truncate"]
                       /\ receipts' = Append(receipts, receipt)
                       /\ receipt.at = clock'
                       /\ UNCHANGED <<stateFile, closeFile, seen>>
    BY <1>3 DEF RecorderAppends, StepAt, Goto
  <2>2. /\ n \in Nat /\ DOMAIN receipts = 1 .. n
        /\ Len(receipts') = n + 1 /\ DOMAIN receipts' = 1 .. n + 1
        /\ \A k \in 1 .. n : receipts'[k] = receipts[k]
        /\ receipts'[n + 1] = receipt
    BY <1>a, <2>1 DEF TypeOK
  <2>3. pc'[c] = "truncate" /\ \A h \in Hooks \ {c} : pc'[h] = pc[h] /\ pc[h] \notin Section
    BY <1>0, <1>a, <2>1 DEF TypeOK, SessionInv, OrderInv, FilesInv, Alone
  <2>4. \A k \in 1 .. n : receipts[k].at \in Int
    <3>1. \A k \in 1 .. n : receipts[k] \in Receipt
      BY <1>a, <2>2 DEF TypeOK
    <3> QED BY <1>a, <3>1 DEF Receipt
  <2>5. \A k \in DOMAIN receipts' : receipts'[k].at <= clock'
    <3>1. \A k \in 1 .. n : receipts[k].at <= clock
      BY <1>0, <2>2 DEF SessionInv, WindowInv
    <3>2. \A k \in 1 .. n : receipts'[k].at <= clock'
      BY <1>0, <2>2, <2>4, <3>1
    <3>3. receipts'[n + 1].at <= clock'
      BY <1>0, <2>1, <2>2
    <3> QED BY <2>2, <3>2, <3>3
  <2>6. ASSUME NEW t \in Int, Opens(t) PROVE Opens(t)'
    <3>1. t <= clock'
      BY <1>0, <2>6 DEF Opens
    <3>2. \A k \in 1 .. n : t <= receipts'[k].at
      BY <2>2, <2>6 DEF Opens
    <3>3. t <= receipts'[n + 1].at
      BY <2>1, <2>2, <3>1
    <3> QED BY <2>2, <3>1, <3>2, <3>3 DEF Opens
  <2>7. stateFile' \in State => Opens(stateFile.opened)'
    <3> SUFFICES ASSUME stateFile \in State PROVE Opens(stateFile.opened)'
      BY <2>1
    <3>1. stateFile.opened \in Int /\ Opens(stateFile.opened)
      BY <1>0, <1>a DEF State, SessionInv, WindowInv
    <3>2. stateFile'.opened = stateFile.opened
      BY <2>1
    <3> QED BY <2>6, <3>1, <3>2 DEF Opens
  <2>8. Opens(seen[c].opened)'
    <3>1. seen[c].opened \in Int /\ Opens(seen[c].opened)
      BY <1>0, <1>a, <2>1 DEF LocalInv, State, SessionInv, WindowInv
    <3>2. seen'[c].opened = seen[c].opened
      BY <2>1
    <3> QED BY <2>6, <3>1, <3>2 DEF Opens
  <2>9. ~ Closed'
    <3>1. closeFile = Absent
      BY <1>0, <2>1 DEF SessionInv, OrderInv, FilesInv
    <3> QED BY <2>1, <3>1, RecordAssumption DEF Closed
  <2>10. \A h \in Hooks : pc'[h] \in Section => h = c
    BY <2>3
  <2> QED BY <1>a, <2>5, <2>7, <2>8, <2>9, <2>10 DEF WindowInv
<1>4. CASE RecorderTruncatesState(c)
  <2>1. /\ UNCHANGED <<receipts, closeFile, seen>> /\ stateFile' = Empty
        /\ pc[c] = "truncate" /\ pc' = [pc EXCEPT ![c] = "write"]
        /\ UNCHANGED clock
    BY <1>4 DEF RecorderTruncatesState, Step, Goto
  <2>2. pc'[c] = "write" /\ \A h \in Hooks \ {c} : pc'[h] = pc[h]
    BY <1>a, <2>1 DEF TypeOK
  <2>3. /\ stateFile' \notin State
        /\ \A d \in Calls :
              pc'[d] \in {"append", "truncate", "write"} => pc[d] \in {"append", "truncate", "write"}
        /\ \A s \in Stops : pc'[s] = pc[s]
    BY <1>a, <2>1, <2>2, RecordAssumption
  <2>4. \A t : Opens(t) => Opens(t)'
    BY <2>1 DEF Opens
  <2>5. \A d \in Calls : pc'[d] \in {"append", "truncate", "write"} => Opens(seen[d].opened)'
    BY <1>0, <2>1, <2>3 DEF SessionInv, WindowInv, Opens
  <2>6. \A s \in Stops : pc'[s] \in {"truncate", "write"} => Opens(seen[s].opened)'
    BY <1>0, <2>1, <2>3 DEF SessionInv, WindowInv, Opens
  <2>7. Closed' => InWindow'
    BY <1>0, <2>1 DEF SessionInv, WindowInv, Closed, InWindow
  <2> QED BY <1>0, <2>1, <2>3, <2>5, <2>6, <2>7 DEF SessionInv, WindowInv
<1>5. CASE RecorderWritesState(c)
  <2>1. /\ UNCHANGED <<receipts, closeFile>> /\ pc[c] = "write" /\ pc' = [pc EXCEPT ![c] = "done"]
        /\ stateFile' = [seq |-> seen[c].seq + 1, prev |-> c, opened |-> seen[c].opened]
        /\ seen' = [seen EXCEPT ![c] = None] /\ UNCHANGED clock
    BY <1>5 DEF RecorderWritesState, Step, Goto, Forget
  <2>2. pc'[c] = "done" /\ \A h \in Hooks \ {c} : pc'[h] = pc[h] /\ seen'[h] = seen[h]
    BY <1>a, <2>1 DEF TypeOK
  <2>3. Opens(stateFile.opened)'
    <3>1. stateFile'.opened = seen[c].opened /\ Opens(seen[c].opened)
      BY <1>0, <2>1 DEF SessionInv, WindowInv
    <3> QED BY <2>1, <3>1 DEF Opens
  <2>5. \A d \in Calls : pc'[d] \in {"append", "truncate", "write"} => Opens(seen[d].opened)'
    BY <1>0, <2>1, <2>2 DEF SessionInv, WindowInv, Opens
  <2>6. \A s \in Stops : pc'[s] \in {"truncate", "write"} =>
           pc[s] = pc'[s] /\ seen[s] = seen'[s] /\ Opens(seen[s].opened)'
    BY <1>0, <1>a, <2>1, <2>2 DEF SessionInv, WindowInv, Opens
  <2>7. Closed' => InWindow'
    BY <1>0, <2>1 DEF SessionInv, WindowInv, Closed, InWindow
  <2> QED BY <1>0, <2>1, <2>3, <2>5, <2>6, <2>7 DEF SessionInv, WindowInv
<1> QED
  BY <1>1, <1>2, <1>3, <1>4, <1>5 DEF Recorder

LEMMA CloserWindow ==
  ASSUME SessionInv, NEW s \in Stops, Closer(s), orderly', steady'
  PROVE  WindowInv'
<1>0. orderly /\ steady /\ clock <= clock' /\ clock \in Int /\ clock' \in Int
  BY StaysOrderly, StaysSteady DEF Next, SessionInv, OrderInv
<1>a. s \notin Calls /\ TypeOK /\ LocalInv /\ Times \subseteq Int
  BY L2Assumption DEF SessionInv, OrderInv, TypeInv
<1>b. UNCHANGED <<receipts, stateFile>>
  BY DEF Closer, CloserChecksClose, CloserReadsReceipts, CloserReadsState, CloserCreatesClose,
         CloserWritesClose, Fails
<1>1. CASE CloserChecksClose(s)
  <2>1. PICK to \in {"read", "done"} : pc' = [pc EXCEPT ![s] = to]
    BY <1>1 DEF CloserChecksClose, Step, Enters, Goto
  <2>2. UNCHANGED closeFile /\ (seen' = seen \/ seen' = [seen EXCEPT ![s] = None])
    BY <1>1 DEF CloserChecksClose, Forget
  <2>3. pc'[s] = to /\ \A g \in Hooks \ {s} : seen'[g] = seen[g]
    BY <1>a, <2>1, <2>2 DEF TypeOK
  <2> QED BY <1>0, <1>a, <1>b, <2>1, <2>2, <2>3, WindowElsewhere
<1>2. CASE CloserReadsReceipts(s)
  <2>1. /\ pc' = [pc EXCEPT ![s] = "readState"] /\ UNCHANGED closeFile
        /\ seen' = [seen EXCEPT ![s] = [ends |-> Ends, opened |-> None, closed |-> None]]
    BY <1>2 DEF CloserReadsReceipts, Step, Goto
  <2>2. pc'[s] = "readState" /\ \A g \in Hooks \ {s} : seen'[g] = seen[g]
    BY <1>a, <2>1 DEF TypeOK
  <2> QED BY <1>0, <1>a, <1>b, <2>1, <2>2, WindowElsewhere
<1>3. CASE CloserReadsState(s)
  <2>1. CASE stateFile = Empty
    <3>1. pc' = [pc EXCEPT ![s] = "done"] /\ UNCHANGED closeFile /\ seen' = [seen EXCEPT ![s] = None]
      BY <1>3, <2>1, L2Assumption DEF CloserReadsState, Step, Goto, Fails, Forget
    <3>2. pc'[s] = "done" /\ \A g \in Hooks \ {s} : seen'[g] = seen[g]
      BY <1>a, <3>1 DEF TypeOK
    <3> QED BY <1>0, <1>a, <1>b, <3>1, <3>2, WindowElsewhere
  <2>2. CASE stateFile # Empty
    <3>1. PICK t : /\ pc[s] = "readState" /\ pc' = [pc EXCEPT ![s] = "truncate"] /\ UNCHANGED closeFile
                   /\ seen' = [seen EXCEPT ![s].opened = t]
                   /\ IF stateFile = Absent THEN t = clock' ELSE t = stateFile.opened
      BY <1>3, <2>2, L2Assumption DEF CloserReadsState, Step, StepAt, Goto, Fails
    <3>2. /\ pc'[s] = "truncate" /\ seen'[s] = [seen[s] EXCEPT !.opened = t]
          /\ \A g \in Hooks \ {s} : seen'[g] = seen[g]
      BY <1>a, <3>1 DEF TypeOK
    <3>3. seen'[s].opened = t
      BY <1>a, <3>1, <3>2 DEF LocalInv, Draft
    <3>4. Opens(t)'
      <4>1. CASE stateFile = Absent
        <5>1. receipts' = <<>>
          BY <1>0, <1>a, <1>b, <3>1, <4>1, StateIsTip
        <5> QED BY <1>0, <3>1, <4>1, <5>1 DEF Opens
      <4>2. CASE stateFile # Absent
        <5>1. stateFile \in State /\ t = stateFile.opened
          BY <1>a, <2>2, <3>1, <4>2 DEF TypeOK
        <5>2. t \in Int /\ Opens(t)
          BY <1>0, <1>a, <5>1 DEF State, SessionInv, WindowInv
        <5> QED BY <1>0, <1>b, <5>2 DEF Opens
      <4> QED BY <4>1, <4>2
    <3>5. Opens(seen[s].opened)'
      BY <3>3, <3>4 DEF Opens
    <3> QED BY <1>0, <1>a, <1>b, <3>1, <3>2, <3>5, WindowElsewhere
  <2> QED BY <2>1, <2>2
<1>4. CASE CloserCreatesClose(s)
  <2>1. /\ pc[s] = "truncate" /\ pc' = [pc EXCEPT ![s] = "write"] /\ closeFile' = Empty
        /\ seen' = [seen EXCEPT ![s].closed = clock']
    BY <1>4 DEF CloserCreatesClose, StepAt, Goto
  <2>2. seen'[s] = [seen[s] EXCEPT !.closed = clock'] /\ \A g \in Hooks \ {s} : seen'[g] = seen[g]
    BY <1>a, <2>1 DEF TypeOK
  <2>3. seen'[s].closed = clock' /\ seen'[s].opened = seen[s].opened
    BY <1>a, <2>1, <2>2 DEF LocalInv, Draft
  <2>4. seen[s].opened \in Int /\ Opens(seen[s].opened)
    BY <1>0, <1>a, <2>1 DEF LocalInv, SessionInv, WindowInv
  <2>5. Opens(seen[s].opened)' /\ seen'[s].opened <= seen'[s].closed
    BY <1>0, <1>b, <2>3, <2>4 DEF Opens
  <2>6. \A k \in DOMAIN receipts : receipts[k].at <= seen'[s].closed
    <3> SUFFICES ASSUME NEW k \in DOMAIN receipts PROVE receipts[k].at <= clock'
      BY <2>3
    <3>1. receipts[k] \in Receipt
      BY <1>a DEF TypeOK
    <3>2. receipts[k].at \in Int /\ receipts[k].at <= clock
      BY <1>0, <1>a, <3>1 DEF Receipt, SessionInv, WindowInv
    <3> QED BY <1>0, <3>2
  <2>7. ~ Closed'
    BY <2>1, RecordAssumption DEF Closed
  <2>8. (Closed => InWindow)'
    BY <2>7
  <2> QED BY <1>0, <1>a, <1>b, <2>1, <2>2, <2>5, <2>6, <2>8, WindowElsewhere
<1>5. CASE CloserWritesClose(s)
  <2>1. /\ pc[s] = "write" /\ pc' = [pc EXCEPT ![s] = "done"] /\ seen' = [seen EXCEPT ![s] = None]
        /\ closeFile'.opened = seen[s].opened /\ closeFile'.closed = seen[s].closed
    BY <1>5 DEF CloserWritesClose, Step, Goto, Forget
  <2>2. pc'[s] = "done" /\ \A g \in Hooks \ {s} : seen'[g] = seen[g]
    BY <1>a, <2>1 DEF TypeOK
  <2>3. seen[s].opened \in Int /\ seen[s].closed \in Int
    BY <1>a, <2>1 DEF LocalInv
  <2>4. /\ Opens(seen[s].opened) /\ seen[s].opened <= seen[s].closed
        /\ \A k \in DOMAIN receipts : receipts[k].at <= seen[s].closed
    BY <1>0, <2>1 DEF SessionInv, WindowInv
  <2>5. InWindow'
    <3> SUFFICES ASSUME NEW k \in DOMAIN receipts PROVE receipts[k].at \in seen[s].opened .. seen[s].closed
      BY <1>b, <2>1, <2>4 DEF InWindow
    <3>1. receipts[k] \in Receipt
      BY <1>a DEF TypeOK
    <3>2. receipts[k].at \in Int
      BY <1>a, <3>1 DEF Receipt
    <3> QED BY <2>3, <2>4, <3>2 DEF Opens
  <2>6. (Closed => InWindow)'
    BY <2>5
  <2> QED BY <1>0, <1>a, <1>b, <2>1, <2>2, <2>6, WindowElsewhere
<1> QED BY <1>1, <1>2, <1>3, <1>4, <1>5 DEF Closer

LEMMA SessionStep == SessionInv /\ [Next]_l2vars => SessionInv'
<1> SUFFICES ASSUME SessionInv, [Next]_l2vars PROVE ChainInv' /\ KeyInv' /\ WindowInv'
  BY OrderStep DEF SessionInv
<1>1. CASE UNCHANGED l2vars
  BY <1>1 DEF l2vars, SessionInv, ChainInv, KeyInv, WindowInv, InOrder, Distinct, Fresh, IsTip, Ends, Closed,
              Opens, InWindow
<1>2. CASE Next
  <2>1. orderly' => ChainInv' /\ KeyInv'
    BY <1>2, SharedKeys, RecorderKeys, CloserKeys, SharedChain, RecorderChain, CloserChain DEF Next
  <2>2. orderly' /\ steady' => WindowInv'
    BY <1>2, SharedWindow, RecorderWindow, CloserWindow DEF Next
  <2> QED BY <2>1, <2>2 DEF ChainInv, KeyInv, WindowInv
<1> QED BY <1>1, <1>2

LEMMA SessionInvariant == Spec => []SessionInv
BY SessionInit, SessionStep, PTL DEF Spec

\* A session whose hooks did not meet in a critical section and were not killed midway contains,
\* once it is closed, what the verifier looks for: everything is signed with the published key,
\* the receipts are one chain in the order of the file, no two alike, the close record counts
\* them and names the first and the last, and where the clock was not set back they were all
\* made between its opening and its close.
OrderlyIsWhole ==
    orderly /\ Closed =>
        /\ pubFile # Empty => Signed
        /\ InOrder /\ Distinct /\ closeFile.ends = Ends
        /\ steady => InWindow

LEMMA SessionIsWhole == SessionInv => OrderlyIsWhole
<1> SUFFICES ASSUME SessionInv, orderly, Closed
             PROVE  /\ pubFile # Empty => Signed
                    /\ InOrder /\ Distinct /\ closeFile.ends = Ends
                    /\ steady => InWindow
  BY DEF OrderlyIsWhole
<1>1. closeFile # Absent
  BY RecordAssumption DEF Closed
<1>2. pubFile # Empty => Signed
  BY <1>1 DEF SessionInv, KeyInv, Signed
<1> QED BY <1>2 DEF SessionInv, ChainInv, WindowInv

THEOREM L2OrderlyIsWhole == Spec => []OrderlyIsWhole
BY SessionIsWhole, SessionInvariant, PTL

-----------------------------------------------------------------------------
(***************************************************************************)
(* What the recorders leave in the file whatever races and kills there     *)
(* are: no two receipts alike, and the predecessor a receipt names is      *)
(* earlier in the file, its number one less.                               *)
(***************************************************************************)
Follows(seq, prev, n) ==
    IF prev = None THEN seq = 0
    ELSE \E j \in 1 .. n : receipts[j].id = prev /\ seq = receipts[j].seq + 1

Provenance ==
    /\ Distinct
    /\ \A k \in DOMAIN receipts : Follows(receipts[k].seq, receipts[k].prev, k - 1)
    /\ stateFile \in State => Follows(stateFile.seq, stateFile.prev, Len(receipts))
    /\ \A c \in Calls : pc[c] = "append" => Follows(seen[c].seq, seen[c].prev, Len(receipts))
    /\ \A c \in Calls : pc[c] \in {"truncate", "write"} =>
           \E j \in DOMAIN receipts : receipts[j].id = c /\ receipts[j].seq = seen[c].seq

ProvenanceInv == TypeInv /\ Provenance

LEMMA ProvenanceInit == Init => ProvenanceInv
<1> SUFFICES ASSUME Init PROVE Provenance
  BY TypeInit DEF ProvenanceInv
<1> QED BY L2Assumption, RecordAssumption DEF Init, Provenance, Distinct, Follows

\* A step that leaves the receipts and the state file alone, and takes a hook nowhere near them.
LEMMA ProvenanceElsewhere ==
  ASSUME ProvenanceInv, NEW h \in Hooks, UNCHANGED <<receipts, stateFile>>,
         NEW to, pc' = [pc EXCEPT ![h] = to],
         \/ to \in {"done", "killed"}
         \/ h \in Stops
         \/ /\ to \in {"publish", "createPub", "writePub", "check", "read"} \cup KeySection
            /\ Fresh(h) /\ pc[h] # "append",
         \A g \in Hooks \ {h} : seen'[g] = seen[g]
  PROVE  Provenance'
<1>1. Distinct'
  BY L2Assumption DEF ProvenanceInv, Provenance, TypeInv, TypeOK, Distinct, Fresh
<1>2. \A c \in Calls : pc'[c] \in {"append", "truncate", "write"} => pc'[c] = pc[c] /\ seen'[c] = seen[c]
  BY L2Assumption DEF ProvenanceInv, TypeInv, TypeOK
<1> QED BY <1>1, <1>2 DEF ProvenanceInv, Provenance, Follows

LEMMA SharedProvenance ==
  ASSUME ProvenanceInv, NEW h \in Hooks, Keying(h) \/ Kill(h)
  PROVE  Provenance'
<1>1. PICK to \in {"publish", "createPub", "writePub", "check", "done", "killed"} \cup KeySection :
          /\ pc' = [pc EXCEPT ![h] = to]
          /\ to \notin {"done", "killed"} => Fresh(h) /\ pc[h] \notin {"read", "append"}
          /\ UNCHANGED files
          /\ \A g \in Hooks \ {h} : pc'[g] = pc[g] /\ seen'[g] = seen[g]
  BY SharedLeaves DEF ProvenanceInv
<1> QED BY <1>1, ProvenanceElsewhere

LEMMA CloserProvenance ==
  ASSUME ProvenanceInv, NEW s \in Stops, Closer(s)
  PROVE  Provenance'
<1>1. \E to : pc' = [pc EXCEPT ![s] = to]
  BY DEF Closer, CloserChecksClose, CloserReadsReceipts, CloserReadsState, CloserCreatesClose,
         CloserWritesClose, Fails, Step, StepAt, Enters, Goto
<1>2. UNCHANGED <<receipts, stateFile>> /\ \A g \in Hooks \ {s} : seen'[g] = seen[g]
  <2>1. UNCHANGED <<receipts, stateFile>>
    BY DEF Closer, CloserChecksClose, CloserReadsReceipts, CloserReadsState, CloserCreatesClose,
           CloserWritesClose, Fails
  <2>2. seen' = seen \/ \E x : seen' = [seen EXCEPT ![s] = x]
    BY DEF Closer, CloserChecksClose, CloserReadsReceipts, CloserReadsState, CloserCreatesClose,
           CloserWritesClose, Fails, Forget
  <2> QED BY <2>1, <2>2 DEF ProvenanceInv, TypeInv, TypeOK
<1> QED BY <1>1, <1>2, ProvenanceElsewhere

LEMMA RecorderProvenance ==
  ASSUME ProvenanceInv, NEW c \in Calls, Recorder(c)
  PROVE  Provenance'
<1> USE DEF ProvenanceInv, TypeInv, TypeOK, Step, StepAt, Enters, Goto
<1>1. CASE RecorderChecksClose(c)
  <2>1. CASE closeFile # Absent
    <3>1. /\ pc' = [pc EXCEPT ![c] = "done"] /\ UNCHANGED <<receipts, stateFile>>
          /\ seen' = [seen EXCEPT ![c] = None]
      BY <1>1, <2>1 DEF RecorderChecksClose, Forget
    <3> QED BY <3>1, ProvenanceElsewhere
  <2>2. CASE closeFile = Absent
    <3>1. pc[c] = "check" /\ pc' = [pc EXCEPT ![c] = "read"] /\ UNCHANGED <<receipts, stateFile, seen>>
      BY <1>1, <2>2 DEF RecorderChecksClose
    <3> QED BY <3>1, ProvenanceElsewhere DEF Fresh
  <2> QED BY <2>1, <2>2
<1>2. CASE RecorderReadsState(c)
  <2>1. CASE stateFile = Empty
    <3>1. /\ pc' = [pc EXCEPT ![c] = "done"] /\ UNCHANGED <<receipts, stateFile>>
          /\ seen' = [seen EXCEPT ![c] = None]
      BY <1>2, <2>1, L2Assumption DEF RecorderReadsState, Fails, Forget
    <3> QED BY <3>1, ProvenanceElsewhere
  <2>2. CASE stateFile # Empty
    <3>1. PICK x : /\ pc[c] = "read" /\ pc' = [pc EXCEPT ![c] = "append"]
                   /\ seen' = [seen EXCEPT ![c] = x]
                   /\ IF stateFile = Absent THEN x.seq = 0 /\ x.prev = None ELSE x = stateFile
                   /\ UNCHANGED <<receipts, stateFile>>
      <4>1. CASE stateFile = Absent
        <5>1. PICK now : seen' = [seen EXCEPT ![c] = [seq |-> 0, prev |-> None, opened |-> now]]
          BY <1>2, <4>1, L2Assumption DEF RecorderReadsState
        <5>2. pc[c] = "read" /\ pc' = [pc EXCEPT ![c] = "append"] /\ UNCHANGED <<receipts, stateFile>>
          BY <1>2, <4>1, L2Assumption DEF RecorderReadsState
        <5> QED BY <4>1, <5>1, <5>2
      <4>2. CASE stateFile # Absent
        BY <1>2, <2>2, <4>2 DEF RecorderReadsState
      <4> QED BY <4>1, <4>2
    <3>2. seen'[c] = x
      BY <3>1
    <3>3. stateFile \in State \cup {Absent}
      BY <2>2
    <3>4. Follows(seen'[c].seq, seen'[c].prev, Len(receipts))
      BY <3>1, <3>2, <3>3 DEF Follows, Provenance
    <3>5. Distinct'
      BY <3>1, L2Assumption DEF Provenance, Distinct, Fresh
    <3>6. \A d \in Calls \ {c} : pc'[d] = pc[d] /\ seen'[d] = seen[d]
      BY <3>1, L2Assumption
    <3>7. pc'[c] = "append"
      BY <3>1, L2Assumption
    <3> QED BY <3>1, <3>4, <3>5, <3>6, <3>7 DEF Provenance, Follows
  <2> QED BY <2>1, <2>2
<1>3. CASE RecorderAppends(c)
  <2> DEFINE n == Len(receipts)
  <2>1. PICK receipt : /\ pc[c] = "append" /\ pc' = [pc EXCEPT ![c] = "truncate"]
                       /\ receipts' = Append(receipts, receipt)
                       /\ receipt.id = c /\ receipt.seq = seen[c].seq /\ receipt.prev = seen[c].prev
                       /\ UNCHANGED <<stateFile, seen>>
    BY <1>3 DEF RecorderAppends
  <2>2. /\ n \in Nat /\ DOMAIN receipts = 1 .. n
        /\ Len(receipts') = n + 1 /\ DOMAIN receipts' = 1 .. n + 1
        /\ \A k \in 1 .. n : receipts'[k] = receipts[k]
        /\ receipts'[n + 1] = receipt
    BY <2>1
  <2>3. pc'[c] = "truncate" /\ \A d \in Calls \ {c} : pc'[d] = pc[d]
    BY <2>1, L2Assumption
  <2>4. receipt.id = c /\ receipt.seq = seen[c].seq /\ receipt.prev = seen[c].prev
    BY <2>1
  <2>5. \A k \in 1 .. n : receipts[k].id # c
    BY <2>1, <2>2, L2Assumption DEF Provenance, Distinct, Fresh
  <2>6. Distinct'
    <3>1. \A j, k \in DOMAIN receipts' : receipts'[j].id = receipts'[k].id => j = k
      <4>1. \A j, k \in 1 .. n : receipts[j].id = receipts[k].id => j = k
        BY <2>2 DEF Provenance, Distinct
      <4> QED BY <2>2, <2>4, <2>5, <4>1
    <3>2. \A d \in Calls : (Fresh(d))' => \A k \in DOMAIN receipts' : receipts'[k].id # d
      BY <2>2, <2>3, <2>4 DEF Provenance, Distinct, Fresh
    <3> QED BY <3>1, <3>2 DEF Distinct
  <2>7. ASSUME NEW seq, NEW prev, NEW m \in 0 .. n, NEW l \in m .. n + 1, Follows(seq, prev, m)
        PROVE  IF prev = None THEN seq = 0
               ELSE \E j \in 1 .. l : receipts'[j].id = prev /\ seq = receipts'[j].seq + 1
    BY <2>2, <2>7 DEF Follows
  <2>8. \A k \in DOMAIN receipts' : (Follows(receipts[k].seq, receipts[k].prev, k - 1))'
    <3> SUFFICES ASSUME NEW k \in 1 .. n + 1 PROVE (Follows(receipts[k].seq, receipts[k].prev, k - 1))'
      BY <2>2
    <3>1. Follows(receipts'[k].seq, receipts'[k].prev, k - 1)
      BY <2>1, <2>2, <2>4 DEF Provenance
    <3> QED BY <3>1, <2>2, <2>7 DEF Follows
  <2>9. stateFile \in State => (Follows(stateFile.seq, stateFile.prev, Len(receipts)))'
    BY <2>1, <2>2, <2>7 DEF Follows, Provenance
  <2>10. \A d \in Calls : pc'[d] = "append" => (Follows(seen[d].seq, seen[d].prev, Len(receipts)))'
    BY <2>1, <2>2, <2>3, <2>7 DEF Follows, Provenance
  <2>11. \A d \in Calls : pc'[d] \in {"truncate", "write"} =>
            \E j \in DOMAIN receipts' : receipts'[j].id = d /\ receipts'[j].seq = seen'[d].seq
    <3> SUFFICES ASSUME NEW d \in Calls, pc'[d] \in {"truncate", "write"}
                 PROVE  \E j \in 1 .. n + 1 : receipts'[j].id = d /\ receipts'[j].seq = seen[d].seq
      BY <2>1, <2>2
    <3>1. CASE d = c
      BY <3>1, <2>2, <2>4
    <3>2. CASE d # c
      <4>1. PICK j \in 1 .. n : receipts[j].id = d /\ receipts[j].seq = seen[d].seq
        BY <3>2, <2>2, <2>3 DEF Provenance
      <4> QED BY <4>1, <2>2
    <3> QED BY <3>1, <3>2
  <2> QED
    BY <2>1, <2>6, <2>8, <2>9, <2>10, <2>11 DEF Provenance
<1>4. CASE RecorderTruncatesState(c)
  <2>1. /\ pc[c] = "truncate" /\ pc' = [pc EXCEPT ![c] = "write"]
        /\ stateFile' = Empty /\ UNCHANGED <<receipts, seen>>
    BY <1>4 DEF RecorderTruncatesState
  <2>2. pc'[c] = "write" /\ \A d \in Calls \ {c} : pc'[d] = pc[d]
    BY <2>1, L2Assumption
  <2>3. Distinct'
    BY <2>1, <2>2 DEF Provenance, Distinct, Fresh
  <2>4. stateFile' \notin State
    BY <2>1, RecordAssumption
  <2>5. \A d \in Calls : /\ pc'[d] = "append" => pc[d] = "append"
                         /\ pc'[d] \in {"truncate", "write"} => pc[d] \in {"truncate", "write"}
    BY <2>1, <2>2
  <2>6. \A k \in DOMAIN receipts' : Follows(receipts[k].seq, receipts[k].prev, k - 1)'
    BY <2>1 DEF Provenance, Follows
  <2>7. \A d \in Calls : pc'[d] = "append" => Follows(seen[d].seq, seen[d].prev, Len(receipts))'
    BY <2>1, <2>5 DEF Provenance, Follows
  <2>8. \A d \in Calls : pc'[d] \in {"truncate", "write"} =>
           \E j \in DOMAIN receipts' : receipts'[j].id = d /\ receipts'[j].seq = seen'[d].seq
    BY <2>1, <2>5 DEF Provenance
  <2> QED BY <2>3, <2>4, <2>6, <2>7, <2>8 DEF Provenance
<1>5. CASE RecorderWritesState(c)
  <2>1. /\ pc[c] = "write" /\ pc' = [pc EXCEPT ![c] = "done"]
        /\ stateFile' = [seq |-> seen[c].seq + 1, prev |-> c, opened |-> seen[c].opened]
        /\ UNCHANGED receipts /\ seen' = [seen EXCEPT ![c] = None]
    BY <1>5 DEF RecorderWritesState, Forget
  <2>2. pc'[c] = "done" /\ \A d \in Calls \ {c} : pc'[d] = pc[d] /\ seen'[d] = seen[d]
    BY <2>1, L2Assumption
  <2>3. Distinct'
    BY <2>1, <2>2 DEF Provenance, Distinct, Fresh
  <2>4. Follows(stateFile'.seq, stateFile'.prev, Len(receipts))
    <3>1. PICK j \in DOMAIN receipts : receipts[j].id = c /\ receipts[j].seq = seen[c].seq
      BY <2>1 DEF Provenance
    <3>2. stateFile'.seq = receipts[j].seq + 1 /\ stateFile'.prev = receipts[j].id /\ c # None
      BY <2>1, <3>1, L2Assumption
    <3> QED BY <3>1, <3>2 DEF Follows
  <2> QED BY <2>1, <2>2, <2>3, <2>4 DEF Provenance, Follows
<1> QED BY <1>1, <1>2, <1>3, <1>4, <1>5 DEF Recorder

LEMMA ProvenanceStep == ProvenanceInv /\ [Next]_l2vars => ProvenanceInv'
<1> SUFFICES ASSUME ProvenanceInv, [Next]_l2vars PROVE Provenance'
  BY TypeStep DEF ProvenanceInv
<1>1. CASE UNCHANGED l2vars
  BY <1>1 DEF l2vars, ProvenanceInv, Provenance, Distinct, Fresh, Follows
<1>2. CASE Next
  BY <1>2, SharedProvenance, RecorderProvenance, CloserProvenance DEF Next
<1> QED BY <1>1, <1>2

LEMMA ProvenanceInvariant == Spec => []ProvenanceInv
BY ProvenanceInit, ProvenanceStep, PTL DEF Spec

-----------------------------------------------------------------------------
(***************************************************************************)
(* The verifier's walk.  The library's induction theorems take an operator *)
(* as a parameter; induction is done here with sets: a set of naturals     *)
(* that is not empty has a least element.                                  *)
(***************************************************************************)
LEMMA BelowIsWellFounded ==
  \E R : (\A x, y \in Nat : x < y => <<x, y>> \in R) /\ IsWellFoundedOn(R, Nat)
<1> DEFINE R == OpToRel(<, Nat)
<1>1. \A x, y \in Nat : x < y => <<x, y>> \in R
  BY DEF OpToRel
<1>2. IsWellFoundedOn(R, Nat)
  BY NatLessThanWellFounded, Zenon
<1> HIDE DEF R
<1> QED BY <1>1, <1>2, Zenon

LEMMA Least ==
  ASSUME NEW T, T \subseteq Nat, T # {}
  PROVE  \E x \in T : \A y \in T : x <= y
<1>1. PICK Q : (\A x, y \in Nat : x < y => <<x, y>> \in Q) /\ IsWellFoundedOn(Q, Nat)
  BY BelowIsWellFounded, Zenon
<1>2. IsWellFoundedOn(Q, Nat)
  BY <1>1, Zenon
<1>3. PICK x \in T : \A y \in T : ~ (<<y, x>> \in Q)
  BY <1>2, WFMin, Zenon
<1>4. \A y \in T : ~ (y < x)
  BY <1>1, <1>3, Zenon
<1>5. \A y \in T : x <= y
  BY <1>4
<1> QED BY <1>5, Zenon

LEMMA Induction ==
  ASSUME NEW T, T \subseteq Nat, 0 \in T, \A n \in T : n + 1 \in T
  PROVE  T = Nat
<1>1. SUFFICES ASSUME Nat \ T # {} PROVE FALSE
  OBVIOUS
<1>2. PICK x \in Nat \ T : \A y \in Nat \ T : x <= y
  <2> DEFINE U == Nat \ T
  <2>1. U \subseteq Nat /\ U # {}
    BY <1>1
  <2> HIDE DEF U
  <2>2. \E x \in U : \A y \in U : x <= y
    BY <2>1, Least, Zenon
  <2> QED BY <2>2 DEF U
<1>3. x # 0 /\ x - 1 \in Nat
  BY <1>2
<1>4. x - 1 \in T
  BY <1>2, <1>3
<1> QED BY <1>2, <1>3, <1>4

\* w is x, f[x], f[f[x]] and so on, n times.
Iterates(w, f, x, n, S) ==
    w \in [0 .. n -> S] /\ w[0] = x /\ \A i \in 1 .. n : w[i] = f[w[i - 1]]

LEMMA IteratesExist ==
  ASSUME NEW S, NEW f \in [S -> S], NEW x \in S, NEW n \in Nat
  PROVE  \E w : Iterates(w, f, x, n, S)
<1> DEFINE T == {m \in Nat : \E w : Iterates(w, f, x, m, S)}
<1>1. 0 \in T
  <2> DEFINE w == [i \in 0 .. 0 |-> x]
  <2>1. Iterates(w, f, x, 0, S)
    BY DEF Iterates
  <2> QED BY <2>1
<1>2. ASSUME NEW m \in T PROVE m + 1 \in T
  <2>1. PICK w : Iterates(w, f, x, m, S)
    OBVIOUS
  <2> DEFINE v == [i \in 0 .. m + 1 |-> IF i \in 0 .. m THEN w[i] ELSE f[w[m]]]
  <2>2. v \in [0 .. m + 1 -> S] /\ v[0] = x
    BY <2>1 DEF Iterates
  <2>3. \A i \in 1 .. m + 1 : v[i] = f[v[i - 1]]
    BY <2>1 DEF Iterates
  <2>4. Iterates(v, f, x, m + 1, S)
    BY <2>2, <2>3 DEF Iterates
  <2> QED BY <2>4
<1> HIDE DEF T
<1>3. T = Nat
  <2>1. T \subseteq Nat
    BY DEF T
  <2> QED BY <1>1, <1>2, <2>1, Induction
<1> QED BY <1>3 DEF T

LEMMA WalkSteps ==
  ASSUME TypeInv, Genesis # {}
  PROVE  /\ Walk \in [0 .. Len(receipts) -> 0 .. Len(receipts)]
         /\ Walk[0] \in Genesis
         /\ \A i \in 1 .. Len(receipts) :
               \/ Walk[i] = 0 /\ Successors(Walk[i - 1]) = {}
               \/ Walk[i] \in Successors(Walk[i - 1])
<1> DEFINE n == Len(receipts)
           D == 0 .. n
           start == CHOOSE k \in Genesis : TRUE
           onward == [k \in D |-> Onward(k)]
<1>1. n \in Nat /\ DOMAIN receipts = 1 .. n
  BY DEF TypeInv, TypeOK
<1>2. ASSUME NEW k
      PROVE  /\ (Onward(k) = 0 /\ Successors(k) = {}) \/ Onward(k) \in Successors(k)
             /\ Onward(k) \in 0 .. n
  <2>1. Successors(k) \subseteq 1 .. n
    BY <1>1 DEF Successors
  <2>2. CASE Successors(k) = {}
    BY <1>1, <2>2 DEF Onward
  <2>3. CASE Successors(k) # {}
    <3>1. Onward(k) \in Successors(k)
      BY <2>3 DEF Onward
    <3> QED BY <1>1, <2>1, <3>1
  <2> QED BY <2>2, <2>3
<1>3. start \in Genesis
  OBVIOUS
<1>4. start \in D
  BY <1>1, <1>3 DEF Genesis
<1>5. onward \in [D -> D]
  BY <1>2
<1> HIDE DEF D, start, onward
<1>6. PICK w : Iterates(w, onward, start, n, D)
  BY <1>1, <1>4, <1>5, IteratesExist, Zenon
<1>7. w = [i \in 0 .. n |-> IF i = 0 THEN start ELSE Onward(w[i - 1])]
  <2>1. \A i \in 1 .. n : w[i - 1] \in D
    BY <1>1, <1>6 DEF Iterates
  <2>2. \A i \in 1 .. n : w[i] = Onward(w[i - 1])
    BY <1>6, <2>1 DEF onward, Iterates
  <2> QED BY <1>1, <1>6, <2>2 DEF Iterates
<1>8. Walk = [i \in 0 .. n |-> IF i = 0 THEN start ELSE Onward(Walk[i - 1])]
  <2> DEFINE body(v, i) == IF i = 0 THEN start ELSE Onward(v[i - 1])
  <2>1. \E v : v = [i \in 0 .. n |-> body(v, i)]
    BY <1>7
  <2>2. Walk = CHOOSE v : v = [i \in 0 .. n |-> body(v, i)]
    BY DEF Walk, start
  <2> QED BY <2>1, <2>2
<1> HIDE DEF Walk, n
<1>9. Walk[0] = start /\ \A i \in 1 .. n : Walk[i] = Onward(Walk[i - 1])
  BY <1>1, <1>8
<1>10. \A i \in 0 .. n : Walk[i] \in D
  BY <1>1, <1>2, <1>4, <1>9 DEF D
<1>11. Walk \in [0 .. n -> 0 .. n]
  BY <1>8, <1>10 DEF D
<1>12. \A i \in 1 .. n : \/ Walk[i] = 0 /\ Successors(Walk[i - 1]) = {}
                         \/ Walk[i] \in Successors(Walk[i - 1])
  BY <1>2, <1>9
<1> QED BY <1>3, <1>9, <1>11, <1>12 DEF n

\* The walk goes forward in the file, as a predecessor is earlier than what names it.
LEMMA WalkForward ==
  ASSUME ProvenanceInv, Genesis # {}, NEW i \in 1 .. Len(receipts), Walk[i] # 0
  PROVE  /\ Walk[i - 1] # 0 /\ Walk[i - 1] < Walk[i]
         /\ receipts[Walk[i]].prev = receipts[Walk[i - 1]].id
<1> DEFINE n == Len(receipts)
           j == Walk[i]
           k == Walk[i - 1]
<1>1. n \in Nat /\ DOMAIN receipts = 1 .. n
  BY DEF ProvenanceInv, TypeInv, TypeOK
<1>2. Walk \in [0 .. n -> 0 .. n] /\ Walk[i] \in Successors(Walk[i - 1])
  BY WalkSteps DEF ProvenanceInv
<1>3. i \in 0 .. n /\ i - 1 \in 0 .. n
  BY <1>1
<1>4. j \in 1 .. n /\ k \in 1 .. n /\ receipts[j].prev = receipts[k].id
  BY <1>1, <1>2, <1>3 DEF Successors
<1> HIDE DEF j, k
<1>5. receipts[k].id # None
  <2>1. receipts[k] \in Receipt
    BY <1>1, <1>4 DEF ProvenanceInv, TypeInv, TypeOK
  <2> QED BY <2>1, L2Assumption DEF Receipt
<1>6. PICK l \in 1 .. j - 1 : receipts[l].id = receipts[j].prev
  <2>1. Follows(receipts[j].seq, receipts[j].prev, j - 1)
    BY <1>1, <1>4 DEF ProvenanceInv, Provenance
  <2> QED BY <1>4, <1>5, <2>1 DEF Follows
<1>7. l = k
  BY <1>1, <1>4, <1>6 DEF ProvenanceInv, Provenance, Distinct
<1> QED BY <1>1, <1>4, <1>6, <1>7 DEF j, k

\* It visits as many receipts as it counts, and then none.
LEMMA WalkShape ==
  ASSUME ProvenanceInv, Genesis # {}
  PROVE  /\ Walked \in 1 .. Len(receipts)
         /\ \A i \in 0 .. Len(receipts) : Walk[i] # 0 <=> i < Walked
         /\ \A i \in 0 .. Walked - 1 : Walk[i] >= i + 1
<1> DEFINE n == Len(receipts)
           T == {i \in Nat : i \in 0 .. n => Walk[i] = 0}
<1>1. n \in Nat /\ DOMAIN receipts = 1 .. n
  BY DEF ProvenanceInv, TypeInv, TypeOK
<1>2. Walk \in [0 .. n -> 0 .. n] /\ Walk[0] \in 1 .. n
  BY <1>1, WalkSteps DEF ProvenanceInv, Genesis
<1>3. \A i \in 1 .. n : Walk[i] # 0 => Walk[i - 1] # 0 /\ Walk[i - 1] < Walk[i]
  BY WalkForward
<1> HIDE DEF n
<1>4. PICK m \in T : \A i \in T : m <= i
  <2>1. n + 1 \in T
    BY <1>1
  <2> HIDE DEF T
  <2>2. T # {} /\ T \subseteq Nat
    BY <2>1 DEF T
  <2> QED BY <2>2, Least, Zenon
<1>5. m \in 1 .. n + 1 /\ \A i \in 0 .. m - 1 : Walk[i] # 0
  <2>1. 0 \notin T /\ n + 1 \in T
    BY <1>1, <1>2
  <2>2. m \in 1 .. n + 1
    BY <1>1, <1>4, <2>1
  <2>3. \A i \in 0 .. m - 1 : i \in Nat /\ i \notin T
    BY <1>4, <2>2
  <2> QED BY <2>2, <2>3
<1>6. \A i \in m .. n : Walk[i] = 0
  <2> DEFINE U == {i \in Nat : m + i <= n => Walk[m + i] = 0}
  <2>1. 0 \in U
    BY <1>1, <1>4, <1>5
  <2>2. ASSUME NEW i \in U PROVE i + 1 \in U
    BY <1>1, <1>3, <1>5
  <2> HIDE DEF U
  <2>3. U = Nat
    <3>1. U \subseteq Nat
      BY DEF U
    <3> QED BY <2>1, <2>2, <3>1, Induction
  <2>4. ASSUME NEW i \in m .. n PROVE Walk[i] = 0
    <3>1. i - m \in U /\ m + (i - m) = i
      BY <1>1, <1>5, <2>3
    <3> QED BY <3>1 DEF U
  <2> QED BY <2>4
<1>7. \A i \in 0 .. m - 1 : Walk[i] >= i + 1
  <2> DEFINE U == {i \in Nat : i < m => Walk[i] >= i + 1}
  <2>1. 0 \in U
    BY <1>1, <1>2
  <2>2. ASSUME NEW i \in U PROVE i + 1 \in U
    <3> SUFFICES ASSUME i + 1 < m PROVE Walk[i + 1] >= i + 2
      OBVIOUS
    <3>1. i + 1 \in 1 .. n /\ i + 1 \in 0 .. m - 1 /\ i \in 0 .. n
      BY <1>1, <1>5
    <3>2. Walk[i] < Walk[i + 1]
      BY <1>3, <1>5, <3>1
    <3>3. Walk[i] >= i + 1 /\ Walk[i] \in Nat /\ Walk[i + 1] \in Nat
      BY <1>1, <1>2, <1>5, <3>1
    <3> QED BY <3>2, <3>3
  <2> HIDE DEF U
  <2>3. U = Nat
    <3>1. U \subseteq Nat
      BY DEF U
    <3> QED BY <2>1, <2>2, <3>1, Induction
  <2>4. ASSUME NEW i \in 0 .. m - 1 PROVE Walk[i] >= i + 1
    <3>1. i \in U /\ i < m
      BY <1>5, <2>3
    <3> QED BY <3>1 DEF U
  <2> QED BY <2>4
<1>8. m \in 1 .. n
  <2>1. m - 1 \in 0 .. n /\ m - 1 \in 0 .. m - 1
    BY <1>1, <1>5
  <2>2. Walk[m - 1] \in 0 .. n /\ Walk[m - 1] >= m
    <3>1. Walk[m - 1] \in 0 .. n
      BY <1>2, <2>1, Zenon
    <3>2. Walk[m - 1] >= m - 1 + 1
      BY <1>7, <2>1
    <3> QED BY <1>5, <3>1, <3>2
  <2> QED BY <1>1, <1>5, <2>2
<1>9. Walked = m
  <2>1. {i \in DOMAIN Walk : Walk[i] # 0} = 0 .. m - 1
    BY <1>1, <1>2, <1>5, <1>6, <1>8
  <2>2. Cardinality(0 .. m - 1) = m
    BY <1>5, FS_Interval
  <2> QED BY <2>1, <2>2 DEF Walked
<1>10. \A i \in 0 .. n : Walk[i] # 0 <=> i < m
  BY <1>1, <1>5, <1>6, <1>8
<1> QED BY <1>7, <1>8, <1>9, <1>10 DEF n

\* No two recorders wrote alike and every receipt is on the walk: the walk is the file.
LEMMA WalkIsFile ==
  ASSUME ProvenanceInv, Genesis # {}, Walked = Len(receipts)
  PROVE  \A k \in DOMAIN receipts : Walk[k - 1] = k
<1> DEFINE n == Len(receipts)
           U == {i \in Nat : i < n => Walk[n - 1 - i] <= n - i}
<1>1. n \in Nat /\ DOMAIN receipts = 1 .. n /\ n \in 1 .. n
  BY WalkShape DEF ProvenanceInv, TypeInv, TypeOK
<1>2. Walk \in [0 .. n -> 0 .. n]
  BY WalkSteps DEF ProvenanceInv
<1>3. \A i \in 0 .. n - 1 : Walk[i] # 0 /\ Walk[i] >= i + 1
  <2>1. \A i \in 0 .. n - 1 : i \in 0 .. n /\ i < n
    BY <1>1
  <2> QED BY <2>1, WalkShape
<1>4. \A i \in 1 .. n : Walk[i] # 0 => Walk[i - 1] < Walk[i]
  BY WalkForward
<1> HIDE DEF n
<1>5. 0 \in U
  BY <1>1, <1>2
<1>6. ASSUME NEW i \in U PROVE i + 1 \in U
  <2> SUFFICES ASSUME i + 1 < n PROVE Walk[n - 1 - (i + 1)] <= n - (i + 1)
    OBVIOUS
  <2> DEFINE a == n - 1 - i
  <2>1. a \in 1 .. n - 1 /\ a \in 1 .. n /\ a \in 0 .. n - 1 /\ a - 1 \in 0 .. n /\ n - 1 - (i + 1) = a - 1
    BY <1>1
  <2>2. Walk[a] <= n - i
    BY <1>1
  <2> HIDE DEF a
  <2>3. Walk[a - 1] < Walk[a]
    BY <1>3, <1>4, <2>1
  <2>4. Walk[a] \in Nat /\ Walk[a - 1] \in Nat
    <3>1. a \in 0 .. n
      BY <1>1, <2>1
    <3>2. Walk[a] \in 0 .. n /\ Walk[a - 1] \in 0 .. n
      <4>1. a - 1 \in 0 .. n
        BY <2>1
      <4> QED BY <1>2, <3>1, <4>1, Zenon
    <3> QED BY <3>2
  <2>5. Walk[a - 1] <= n - (i + 1)
    BY <1>1, <2>2, <2>3, <2>4
  <2> QED BY <2>1, <2>5
<1> HIDE DEF U
<1>7. U = Nat
  <2>1. U \subseteq Nat
    BY DEF U
  <2> QED BY <1>5, <1>6, <2>1, Induction
<1>8. ASSUME NEW k \in 1 .. n PROVE Walk[k - 1] = k
  <2>1. n - k \in U /\ n - k < n /\ n - 1 - (n - k) = k - 1 /\ n - (n - k) = k
    BY <1>1, <1>7
  <2>2. Walk[k - 1] <= k
    BY <2>1 DEF U
  <2>3. k - 1 \in 0 .. n - 1 /\ k - 1 \in 0 .. n
    BY <1>1
  <2>4. Walk[k - 1] >= k /\ Walk[k - 1] \in Nat
    BY <1>1, <1>2, <1>3, <2>3
  <2> QED BY <2>2, <2>4
<1> QED BY <1>1, <1>8

LEMMA IntactIsInOrder ==
  ASSUME ProvenanceInv, ChainIntact
  PROVE  InOrder
<1> DEFINE n == Len(receipts)
           U == {i \in Nat : i + 1 <= n => receipts[i + 1].seq = i}
<1>0. n \in Nat /\ DOMAIN receipts = 1 .. n /\ receipts \in Seq(Receipt)
  BY DEF ProvenanceInv, TypeInv, TypeOK
<1>1. CASE closeFile.ends.count = 0
  BY <1>1 DEF ChainIntact, InOrder
<1>2. CASE closeFile.ends.count # 0
  <2>1. Genesis # {} /\ Walked = n
    <3>1. Cardinality(Genesis) = 1
      BY <1>2 DEF ChainIntact
    <3>2. Genesis # {}
      BY <3>1, FS_EmptySet
    <3> QED BY <1>2, <3>2 DEF ChainIntact
  <2>2. \A k \in 1 .. n : Walk[k - 1] = k
    BY <1>0, <2>1, WalkIsFile
  <2>3. 1 \in 1 .. n /\ receipts[1].prev = None
    <3>1. 1 \in 1 .. n
      BY <1>0, <2>1, WalkShape
    <3>2. Walk[0] \in Genesis
      BY <2>1, WalkSteps DEF ProvenanceInv
    <3> QED BY <2>2, <3>1, <3>2 DEF Genesis
  <2>4. ASSUME NEW k \in 2 .. n PROVE receipts[k].prev = receipts[k - 1].id
    <3>1. k \in 1 .. n /\ k - 1 \in 1 .. n
      BY <1>0
    <3>2. Walk[k - 1] = k /\ Walk[k - 1 - 1] = k - 1 /\ k # 0
      BY <2>2, <3>1
    <3> QED BY <2>1, <3>1, <3>2, WalkForward
  <2>5. ASSUME NEW k \in 2 .. n PROVE receipts[k].seq = receipts[k - 1].seq + 1
    <3>1. k \in 1 .. n /\ k - 1 \in 1 .. n
      BY <1>0
    <3>2. receipts[k].prev # None
      <4>1. receipts[k - 1] \in Receipt
        BY <1>0, <3>1
      <4> QED BY <2>4, <4>1, L2Assumption DEF Receipt
    <3>3. Follows(receipts[k].seq, receipts[k].prev, k - 1)
      BY <1>0, <3>1 DEF ProvenanceInv, Provenance
    <3>4. PICK j \in 1 .. k - 1 : receipts[j].id = receipts[k].prev /\ receipts[k].seq = receipts[j].seq + 1
      BY <3>2, <3>3 DEF Follows
    <3>5. j = k - 1
      BY <1>0, <2>4, <3>1, <3>4 DEF ProvenanceInv, Provenance, Distinct
    <3> QED BY <3>4, <3>5
  <2>6. U = Nat
    <3>1. 0 \in U
      <4>1. Follows(receipts[1].seq, receipts[1].prev, 0)
        BY <1>0, <2>3 DEF ProvenanceInv, Provenance
      <4> QED BY <2>3, <4>1 DEF Follows
    <3> HIDE DEF n
    <3>2. ASSUME NEW i \in U PROVE i + 1 \in U
      <4> SUFFICES ASSUME i + 1 + 1 <= n PROVE receipts[i + 1 + 1].seq = i + 1
        OBVIOUS
      <4>1. i + 2 \in 2 .. n /\ i + 1 + 1 = i + 2 /\ i + 2 - 1 = i + 1 /\ receipts[i + 1].seq = i
        BY <1>0
      <4> QED BY <2>5, <4>1
    <3> HIDE DEF U
    <3>3. U \subseteq Nat
      BY DEF U
    <3> QED BY <3>1, <3>2, <3>3, Induction
  <2>7. \A k \in 1 .. n : receipts[k].seq = k - 1
    <3> SUFFICES ASSUME NEW k \in 1 .. n PROVE receipts[k].seq = k - 1
      OBVIOUS
    <3> HIDE DEF n, U
    <3>1. k - 1 \in U
      BY <1>0, <2>6
    <3>2. k - 1 + 1 <= n => receipts[k - 1 + 1].seq = k - 1
      BY <3>1 DEF U
    <3>3. k - 1 + 1 = k /\ k <= n
      BY <1>0
    <3> QED BY <3>2, <3>3
  <2> QED BY <1>0, <2>3, <2>4, <2>7 DEF InOrder
<1> QED BY <1>1, <1>2

\* An intact verdict means one unforked chain that is the whole log in file order, all of
\* it signed with one key, whatever races and kills produced the files.
THEOREM L2IntactIsOneChain == Spec => []IntactIsOneChain
<1>1. ProvenanceInv => IntactIsOneChain
  <2> SUFFICES ASSUME ProvenanceInv, Closed, Signed, ChainIntact PROVE IntactIsOneChain
    BY DEF IntactIsOneChain
  <2>1. InOrder
    BY IntactIsInOrder
  <2> QED BY <2>1 DEF Signed, InOrder, IntactIsOneChain
<1> QED BY <1>1, ProvenanceInvariant, PTL

\* In a file in order the walk finds every receipt.
LEMMA OrderIsWalked ==
  ASSUME ProvenanceInv, InOrder, receipts # <<>>
  PROVE  /\ Cardinality(Genesis) = 1 /\ Genesis # {} /\ Walked = Len(receipts)
         /\ Walk[0] = 1 /\ Walk[Len(receipts) - 1] = Len(receipts)
<1> DEFINE n == Len(receipts)
           U == {i \in Nat : i < n => Walk[i] = i + 1}
<1>1. n \in Nat /\ n >= 1 /\ DOMAIN receipts = 1 .. n /\ receipts \in Seq(Receipt)
  BY DEF ProvenanceInv, TypeInv, TypeOK
<1>2. \A k \in 1 .. n : receipts[k].id # None
  <2>1. \A k \in 1 .. n : receipts[k] \in Receipt
    BY <1>1
  <2> QED BY <2>1, L2Assumption DEF Receipt
<1>3. \A k \in 2 .. n : k \in 1 .. n /\ k - 1 \in 1 .. n /\ receipts[k].prev = receipts[k - 1].id
  <2> SUFFICES ASSUME NEW k \in 2 .. n
               PROVE  k \in 1 .. n /\ k - 1 \in 1 .. n /\ receipts[k].prev = receipts[k - 1].id
    OBVIOUS
  <2>1. k \in 1 .. n /\ k - 1 \in 1 .. n /\ k # 1
    BY <1>1
  <2> QED BY <1>1, <2>1 DEF InOrder
<1>4. Genesis = {1}
  <2>1. 1 \in 1 .. n /\ receipts[1].prev = None
    BY <1>1 DEF InOrder
  <2>2. \A k \in 2 .. n : receipts[k].prev # None
    BY <1>2, <1>3
  <2>3. \A k \in 1 .. n : k = 1 \/ k \in 2 .. n
    BY <1>1
  <2> QED BY <1>1, <2>1, <2>2, <2>3 DEF Genesis
<1>5. Cardinality(Genesis) = 1 /\ Genesis # {}
  BY <1>4, FS_Singleton
<1>6. Walk \in [0 .. n -> 0 .. n] /\ Walk[0] = 1
  BY <1>4, <1>5, WalkSteps DEF ProvenanceInv
<1>7. \A i \in 1 .. n : Successors(Walk[i - 1]) = {} \/ Walk[i] \in Successors(Walk[i - 1])
  BY <1>5, WalkSteps DEF ProvenanceInv
<1>8. ASSUME NEW k \in 2 .. n PROVE Successors(k - 1) = {k}
  <2>1. k - 1 # 0 /\ k - 1 \in 1 .. n /\ k \in 1 .. n
    BY <1>1
  <2>2. k \in Successors(k - 1)
    BY <1>1, <1>3, <2>1 DEF Successors
  <2>3. ASSUME NEW j \in Successors(k - 1) PROVE j = k
    <3>1. j \in 1 .. n /\ receipts[j].prev = receipts[k - 1].id
      BY <1>1, <2>3 DEF Successors
    <3>2. j # 1
      BY <1>1, <1>2, <2>1, <3>1 DEF InOrder
    <3>3. j \in 2 .. n
      BY <1>1, <3>1, <3>2
    <3>4. receipts[j - 1].id = receipts[k - 1].id /\ j - 1 \in 1 .. n
      BY <1>3, <3>1, <3>3
    <3>5. j - 1 = k - 1
      BY <1>1, <2>1, <3>4 DEF ProvenanceInv, Provenance, Distinct
    <3> QED BY <1>1, <3>1, <3>5
  <2> QED BY <2>2, <2>3
<1> HIDE DEF n
<1>9. U = Nat
  <2>1. 0 \in U
    BY <1>6
  <2>2. ASSUME NEW i \in U PROVE i + 1 \in U
    <3> SUFFICES ASSUME i + 1 < n PROVE Walk[i + 1] = i + 1 + 1
      OBVIOUS
    <3>1. i + 2 \in 2 .. n /\ i + 2 - 1 = i + 1 /\ i + 1 \in 1 .. n /\ i + 1 - 1 = i /\ Walk[i] = i + 1
      BY <1>1
    <3>2. Successors(i + 1) = {i + 2}
      BY <1>8, <3>1
    <3>3. Successors(Walk[i]) = {} \/ Walk[i + 1] \in Successors(Walk[i])
      BY <1>7, <3>1
    <3>4. Walk[i + 1] = i + 2
      <4>1. Successors(Walk[i]) = {i + 2}
        BY <3>1, <3>2
      <4> HIDE DEF U
      <4> QED BY <3>3, <4>1
    <3> QED BY <3>4
  <2> HIDE DEF U
  <2>3. U \subseteq Nat
    BY DEF U
  <2> QED BY <2>1, <2>2, <2>3, Induction
<1>10. \A i \in 0 .. n - 1 : Walk[i] = i + 1
  <2> SUFFICES ASSUME NEW i \in 0 .. n - 1 PROVE Walk[i] = i + 1
    OBVIOUS
  <2>1. i \in U /\ i < n
    BY <1>1, <1>9
  <2> QED BY <2>1 DEF U
<1>11. n - 1 \in 0 .. n - 1 /\ n - 1 \in 0 .. n /\ n - 1 + 1 = n
  BY <1>1
<1>12. Walk[n - 1] = n
  BY <1>10, <1>11
<1>13. Walked = n
  <2>1. Walked \in 1 .. n /\ (Walk[n - 1] # 0 <=> n - 1 < Walked)
    BY <1>5, <1>11, WalkShape DEF n
  <2> QED BY <1>1, <1>12, <2>1
<1> QED BY <1>5, <1>6, <1>12, <1>13 DEF n

\* A file in order passes the checks of the chain.
LEMMA OrderIsIntact ==
  ASSUME ProvenanceInv, InOrder, closeFile.ends = Ends
  PROVE  ChainIntact /\ closeFile.ends.count = Len(receipts)
<1>1. Len(receipts) \in Nat /\ DOMAIN receipts = 1 .. Len(receipts) /\ receipts \in Seq(Receipt)
  BY DEF ProvenanceInv, TypeInv, TypeOK
<1>2. /\ closeFile.ends.count = Len(receipts)
      /\ receipts # <<>> => /\ closeFile.ends.first = receipts[1].id
                            /\ closeFile.ends.last = receipts[Len(receipts)].id
  BY <1>1 DEF Ends
<1>3. CASE receipts = <<>>
  BY <1>2, <1>3 DEF ChainIntact
<1>4. CASE receipts # <<>>
  <2>1. /\ Cardinality(Genesis) = 1 /\ Walked = Len(receipts)
        /\ Walk[0] = 1 /\ Walk[Walked - 1] = Len(receipts)
    BY <1>4, OrderIsWalked
  <2>2. \A k \in DOMAIN receipts :
           receipts[k].prev # None => k - 1 \in DOMAIN receipts /\ receipts[k].prev = receipts[k - 1].id
    BY <1>1 DEF InOrder
  <2>3. SuccessorsUnique
    <3> SUFFICES ASSUME NEW j \in DOMAIN receipts, NEW k \in DOMAIN receipts,
                        receipts[j].prev # None, receipts[j].prev = receipts[k].prev
                 PROVE  j = k
      BY DEF SuccessorsUnique
    <3>1. j - 1 = k - 1
      BY <2>2 DEF ProvenanceInv, Provenance, Distinct
    <3> QED BY <1>1, <3>1
  <2>4. PredecessorsResolve
    BY <2>2 DEF PredecessorsResolve
  <2> QED BY <1>2, <1>4, <2>1, <2>3, <2>4 DEF ChainIntact
<1> QED BY <1>2, <1>3, <1>4

\* No false alarm, and none missed: hooks that did not meet in a critical section and were not
\* killed midway, under a clock that was not set back, leave a session that verifies as soon as
\* it is closed and the key is published, exactly if it has no more receipts than verify.ts takes.
THEOREM L2HonestSessionVerifies == Spec => []HonestSessionVerifies
<1>1. SessionInv /\ ProvenanceInv => HonestSessionVerifies
  <2> SUFFICES ASSUME SessionInv, ProvenanceInv, orderly, steady, Closed, pubFile # Empty
               PROVE  Intact <=> Len(receipts) <= MaxItems
    BY DEF HonestSessionVerifies
  <2>1. Signed /\ InOrder /\ closeFile.ends = Ends /\ InWindow
    BY SessionIsWhole DEF OrderlyIsWhole
  <2>2. ChainIntact /\ closeFile.ends.count = Len(receipts)
    BY <2>1, OrderIsIntact
  <2> QED BY <2>1, <2>2 DEF Intact
<1> QED BY <1>1, SessionInvariant, ProvenanceInvariant, PTL
=============================================================================

----------------------------- MODULE WitnessProxy -----------------------------
(***************************************************************************)
(* The witness proxy (demo/witness/proxy.ts) and its log (log.ts): the     *)
(* exchanges of clients with a device through one proxy process.  Each     *)
(* exchange has a handler and, from the moment its request was read, a     *)
(* listener for the client closing the connection; they share the flag     *)
(* `recorded` and interleave at every await.  An append may fail; a        *)
(* rejection in a handler is answered with 502, one in a listener ends the *)
(* process, as does an answer of the device that breaks off in its body.    *)
(***************************************************************************)
EXTENDS Naturals, Sequences, SequencesExt

CONSTANTS
    Exchanges,
    Withheld        \* commands whose answer the fault injection of S6 withholds

ASSUME WithheldAssumption == Withheld \subseteq Exchanges

VARIABLES
    handler,        \* handler[x]: where handle() of x is
    listener,       \* listener[x]: where the close listener of x is
    recorded,       \* recorded[x]: the flag of record()
    client,         \* client[x]: what the client knows
    device,         \* device[x]: what the device did
    log,            \* the witness log: sequence of [exchange, line]
    lost,           \* exchanges whose append failed (history)
    alive           \* the proxy process runs

vars == <<handler, listener, recorded, client, device, log, lost, alive>>

Lines == {"answer", "failure", "aborted"}

TypeOK ==
    /\ handler \in [Exchanges -> {"read", "await", "answered", "failed", "append answer",
                                  "append failure", "respond answer", "respond failure",
                                  "rejected", "done", "unread"}]
    /\ listener \in [Exchanges -> {"idle", "append", "done"}]
    /\ recorded \in [Exchanges -> BOOLEAN]
    /\ client \in [Exchanges -> {"waiting", "answered", "gateway", "gone"}]
    /\ device \in [Exchanges -> {"none", "executed"}]
    /\ log \in Seq([exchange : Exchanges, line : Lines])
    /\ lost \in SUBSET Exchanges
    /\ alive \in BOOLEAN

Init ==
    /\ handler = [x \in Exchanges |-> "read"]
    /\ listener = [x \in Exchanges |-> "idle"]
    /\ recorded = [x \in Exchanges |-> FALSE]
    /\ client = [x \in Exchanges |-> "waiting"]
    /\ device = [x \in Exchanges |-> "none"]
    /\ log = <<>>
    /\ lost = {}
    /\ alive = TRUE

Handle(x, from, to) == alive /\ handler[x] = from /\ handler' = [handler EXCEPT ![x] = to]

Entry(x, line) == [exchange |-> x, line |-> line]
Logged(x) == \E i \in DOMAIN log : log[i].exchange = x

-----------------------------------------------------------------------------
\* The client and the device

\* A deadline, or the end of the client.
ClientCloses(x) ==
    /\ client[x] = "waiting"
    /\ client' = [client EXCEPT ![x] = "gone"]
    /\ UNCHANGED <<handler, listener, recorded, device, log, lost, alive>>

\* The device executes what was sent; a request that was destroyed may be on its way.
DeviceExecutes(x) ==
    /\ handler[x] \notin {"read", "unread"} /\ device[x] = "none"
    /\ device' = [device EXCEPT ![x] = "executed"]
    /\ UNCHANGED <<handler, listener, recorded, client, log, lost, alive>>

-----------------------------------------------------------------------------
\* handle()

\* The body is read, the listener attached, the upstream request sent.
Forward(x) ==
    /\ Handle(x, "read", "await") /\ client[x] = "waiting"
    /\ UNCHANGED <<listener, recorded, client, device, log, lost, alive>>

\* The client closed before its request was read.
ReadFails(x) ==
    /\ Handle(x, "read", "unread") /\ client[x] = "gone"
    /\ UNCHANGED <<listener, recorded, client, device, log, lost, alive>>

UpstreamAnswers(x) ==
    /\ Handle(x, "await", "answered") /\ device[x] = "executed"
    /\ UNCHANGED <<listener, recorded, client, device, log, lost, alive>>

UpstreamFails(x) ==
    /\ Handle(x, "await", "failed")
    /\ UNCHANGED <<listener, recorded, client, device, log, lost, alive>>

\* The answer breaks off in its body, also because the listener destroyed it: the
\* rejection of the callback that reads it is nobody's, and ends the process.
UpstreamBreaksOff(x) ==
    /\ alive /\ handler[x] = "await" /\ device[x] = "executed"
    /\ alive' = FALSE
    /\ UNCHANGED <<handler, listener, recorded, client, device, log, lost>>

\* Mutant: the flag is set once the entry is written.
RecordUnflagged(x, from, append, respond) ==
    /\ IF recorded[x] THEN Handle(x, from, respond) ELSE Handle(x, from, append)
    /\ UNCHANGED <<listener, recorded, client, device, log, lost, alive>>

\* record(): once, by whoever comes first; the others go on at once.
Record(x, from, append, respond) ==
    /\ IF recorded[x] THEN Handle(x, from, respond) ELSE Handle(x, from, append)
    /\ recorded' = [recorded EXCEPT ![x] = TRUE]
    /\ UNCHANGED <<listener, client, device, log, lost, alive>>

RecordAnswer(x) == Record(x, "answered", "append answer", "respond answer")
RecordFailure(x) == Record(x, "failed", "append failure", "respond failure")

\* Mutant: the client need not wait for the entry.
AppendAnswerLater(x, from, line, respond) ==
    /\ Handle(x, from, respond)
    /\ log' = log \/ log' = Append(log, Entry(x, line))
    /\ UNCHANGED <<listener, recorded, client, device, lost, alive>>

AppendSucceeds(x, from, line, respond) ==
    /\ Handle(x, from, respond)
    /\ log' = Append(log, Entry(x, line))
    /\ UNCHANGED <<listener, recorded, client, device, lost, alive>>

AppendFails(x, from) ==
    /\ Handle(x, from, "rejected")
    /\ lost' = lost \cup {x}
    /\ UNCHANGED <<listener, recorded, client, device, log, alive>>

AppendEntry(x) ==
    \/ AppendSucceeds(x, "append answer", "answer", "respond answer")
    \/ AppendSucceeds(x, "append failure", "failure", "respond failure")
    \/ AppendFails(x, "append answer")
    \/ AppendFails(x, "append failure")

\* What the client gets, if it is still there.
Respond(x, from, knows) ==
    /\ Handle(x, from, "done")
    /\ client' = IF client[x] = "waiting" THEN [client EXCEPT ![x] = knows] ELSE client
    /\ UNCHANGED <<listener, recorded, device, log, lost, alive>>

RespondAnswer(x) == x \notin Withheld /\ Respond(x, "respond answer", "answered")
RespondGateway(x) == Respond(x, "respond failure", "gateway") \/ Respond(x, "rejected", "gateway")

\* The device's headers cannot be forwarded.
RespondThrows(x) ==
    /\ x \notin Withheld /\ Handle(x, "respond answer", "rejected")
    /\ UNCHANGED <<listener, recorded, client, device, log, lost, alive>>

\* The fault injection: recorded, and never answered.
Withhold(x) ==
    /\ x \in Withheld /\ Handle(x, "respond answer", "done")
    /\ UNCHANGED <<listener, recorded, client, device, log, lost, alive>>

-----------------------------------------------------------------------------
\* The close listener

\* Mutant: an aborted exchange is only destroyed.
OnCloseSilent(x) ==
    /\ alive /\ client[x] = "gone" /\ listener[x] = "idle"
    /\ handler[x] \notin {"read", "unread", "done"} /\ ~recorded[x]
    /\ recorded' = [recorded EXCEPT ![x] = TRUE]
    /\ listener' = [listener EXCEPT ![x] = "done"]
    /\ UNCHANGED <<handler, client, device, log, lost, alive>>

\* Nothing recorded and nothing answered: the upstream request is destroyed (its
\* handler will see it fail) and the abort is recorded.
OnClose(x) ==
    /\ alive /\ client[x] = "gone" /\ listener[x] = "idle"
    /\ handler[x] \notin {"read", "unread", "done"} /\ ~recorded[x]
    /\ recorded' = [recorded EXCEPT ![x] = TRUE]
    /\ listener' = [listener EXCEPT ![x] = "append"]
    /\ UNCHANGED <<handler, client, device, log, lost, alive>>

ListenerAppends(x) ==
    /\ alive /\ listener[x] = "append"
    /\ listener' = [listener EXCEPT ![x] = "done"]
    /\ log' = Append(log, Entry(x, "aborted"))
    /\ UNCHANGED <<handler, recorded, client, device, lost, alive>>

\* An unhandled rejection ends the process.
ListenerFails(x) ==
    /\ alive /\ listener[x] = "append"
    /\ alive' = FALSE
    /\ lost' = lost \cup {x}
    /\ UNCHANGED <<handler, listener, recorded, client, device, log>>

-----------------------------------------------------------------------------

Steps(x) ==
    \/ Forward(x) \/ ReadFails(x) \/ RecordAnswer(x) \/ RecordFailure(x) \/ AppendEntry(x)
    \/ RespondAnswer(x) \/ RespondThrows(x) \/ RespondGateway(x) \/ Withhold(x)
    \/ OnClose(x) \/ ListenerAppends(x) \/ ListenerFails(x)

Next ==
    \E x \in Exchanges :
        \/ ClientCloses(x) \/ DeviceExecutes(x)
        \/ UpstreamAnswers(x) \/ UpstreamFails(x) \/ UpstreamBreaksOff(x)
        \/ Steps(x)

\* The process takes its steps, and the client gives up an exchange that it
\* does not get an answer to (every request of the adapters has a deadline).
Spec ==
    /\ Init /\ [][Next]_vars
    /\ \A x \in Exchanges : WF_vars(Steps(x)) /\ WF_vars(ClientCloses(x))

-----------------------------------------------------------------------------
(***************************************************************************)
(* Properties                                                              *)
(***************************************************************************)

\* The log has at most one entry of an exchange, whichever of the handler and
\* the listener writes it: a dispatch is never counted twice by the oracle.
RecordedOnce ==
    \A i, j \in DOMAIN log : log[i].exchange = log[j].exchange => i = j

\* What a client was told of the device is in the log already: whoever reads the
\* log after an answer (the oracle does) finds the exchange.
AnswerIsWitnessed ==
    \A x \in Exchanges : client[x] = "answered" => Contains(log, Entry(x, "answer"))

\* Every command that reaches the device is witnessed in the end, also when the
\* client has given up: only a log that cannot be written, or the end of the
\* process, hides it.
ExecutionIsWitnessed ==
    \A x \in Exchanges :
        device[x] = "executed" ~> Logged(x) \/ x \in lost \/ ~alive
=============================================================================

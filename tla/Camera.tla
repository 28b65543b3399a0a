-------------------------------- MODULE Camera --------------------------------
(***************************************************************************)
(* The environment of an adapter, modelled from how adapters/vapix and     *)
(* adapters/vms use it: the HTTP path to the camera (client socket,        *)
(* witness proxy, mediator) and the camera itself.                         *)
(*                                                                         *)
(* A client waits for one request at a time, but giving up on a request    *)
(* does not take it back: what was sent stays in `net' until the device    *)
(* handles it or the path loses it.  Requests are numbered as they are     *)
(* sent, so that two sendings of one command are two requests.             *)
(***************************************************************************)
EXTENDS Deployment

VARIABLES
    net,                        \* requests sent, neither handled nor lost
    sent,                       \* how many requests were sent
    reply,                      \* what the waiting client has received
    pos,                        \* where the camera is
    goal,                       \* where it is moving to
    execs,                      \* execs[i]: executions of i's command by the device
    answered                    \* history: commands the device itself has answered

cameraVars == <<net, sent, reply, pos, goal, execs, answered>>

Requests == [n : Nat, inv : Inv, op : {"command", "restore"},
             to : Positions \cup {None}]

\* "none": nobody is waiting.  "gateway": the witness proxy or the mediator
\* answers in the device's stead, having no answer of the device to pass on.
Replies == {"none", "pending", "ok", "error", "unauth", "gateway"}

CameraTypeOK ==
    /\ net \subseteq Requests
    /\ sent \in Nat
    /\ reply \in Replies
    /\ pos \in Positions
    /\ goal \in Positions
    /\ execs \in [Inv -> Nat]
    /\ answered \subseteq Inv

CameraInit ==
    /\ net = {}
    /\ sent = 0
    /\ reply = "none"
    /\ pos = Home
    /\ goal = Home
    /\ execs = [i \in Inv |-> 0]
    /\ answered = {}

InFlight(i) == \E r \in net : r.inv = i /\ r.op = "command"

\* The client puts a request on the wire and waits for its answer.
Transmit(i, op, to) ==
    /\ sent' = sent + 1
    /\ net' = net \cup {[n |-> sent + 1, inv |-> i, op |-> op, to |-> to]}
    /\ reply' = "pending"
    /\ UNCHANGED <<pos, goal, execs, answered>>

\* The client stops waiting; the request stays where it is.
StopWaiting ==
    /\ reply' = "none"
    /\ UNCHANGED <<net, sent, pos, goal, execs, answered>>

Deliverable(r) == r \in net /\ (Fifo => \A q \in net : r.n <= q.n)

\* An answer reaches the client only if it still waits for this request.
Answer(r, a) == reply' = IF reply = "pending" /\ r.n = sent THEN a ELSE reply

DeviceAnswered(r) ==
    answered' = IF r.op = "command" THEN answered \cup {r.inv} ELSE answered

\* The device obeys.  The client may still hear of a failure: the proxy
\* answers 502 when it cannot log an exchange the device has performed.
DeviceExecutes ==
    \E r \in net :
        /\ Deliverable(r)
        /\ net' = net \ {r}
        /\ goal' = IF r.to = None THEN goal ELSE r.to
        /\ execs' = IF r.op = "command"
                    THEN [execs EXCEPT ![r.inv] = @ + 1]
                    ELSE execs
        /\ DeviceAnswered(r)
        /\ \E a \in {"ok", "error", "gateway"} : Answer(r, a)
        /\ UNCHANGED <<sent, pos>>

\* The device refuses without acting; a camera may refuse the credentials.
DeviceRejects ==
    \E r \in net :
        /\ Deliverable(r)
        /\ net' = net \ {r}
        /\ DeviceAnswered(r)
        /\ \E a \in {"error"} \cup (IF Vapix THEN {"unauth"} ELSE {}) : Answer(r, a)
        /\ UNCHANGED <<sent, pos, goal, execs>>

\* The path loses a request, and tells the client or does not.
NetworkLoses ==
    \E r \in net :
        /\ net' = net \ {r}
        /\ \E a \in {"pending", "gateway"} : Answer(r, a)
        /\ UNCHANGED <<sent, pos, goal, execs, answered>>

\* The motion ends.
CameraSettles ==
    /\ pos # goal
    /\ pos' = goal
    /\ UNCHANGED <<net, sent, reply, goal, execs, answered>>

CameraNext ==
    DeviceExecutes \/ DeviceRejects \/ NetworkLoses \/ CameraSettles
=============================================================================

---------------------------- MODULE WitnessProofs ----------------------------
(***************************************************************************)
(* The safety of the witness log, for every set of exchanges.  An exchange *)
(* is written by whoever raised its flag, hence once; and a client that    *)
(* gets the device's answer gets it from a handler that wrote it down,     *)
(* because the listener raises the flag only when the client is gone.      *)
(***************************************************************************)
EXTENDS WitnessProxy, TLAPS

Early == {"read", "unread", "await", "answered", "failed"}
Appending == {"append answer", "append failure"}

\* What is known of an exchange whose handler is at h, listener at l, flag r, client
\* c, according to whether it is in the log and whether with its answer.
Sound(h, l, r, c, logged, witnessed) ==
    /\ ~r => ~logged /\ l = "idle" /\ h \in Early
    /\ h \in Appending => ~logged /\ l = "idle"
    /\ l = "append" => ~logged /\ h \notin Appending
    /\ r /\ h \in Early => c = "gone"
    /\ h = "respond answer" => witnessed \/ c = "gone"
    /\ c = "answered" => witnessed

Witnessed(x) == Contains(log, Entry(x, "answer"))

ExchangeInv(x) ==
    Sound(handler[x], listener[x], recorded[x], client[x], Logged(x), Witnessed(x))

LogInv ==
    /\ TypeOK
    /\ \A x \in Exchanges : ExchangeInv(x)
    /\ RecordedOnce

LEMMA Appended ==
    ASSUME NEW S, NEW s \in Seq(S), NEW e \in S
    PROVE  /\ Append(s, e) \in Seq(S)
           /\ DOMAIN s = 1 .. Len(s) /\ Len(s) \in Nat
           /\ DOMAIN Append(s, e) = 1 .. Len(s) + 1
           /\ \A i \in 1 .. Len(s) : Append(s, e)[i] = s[i]
           /\ Append(s, e)[Len(s) + 1] = e
OBVIOUS

States == {"read", "await", "answered", "failed", "append answer", "append failure",
           "respond answer", "respond failure", "rejected", "done", "unread"}

LEMMA StepTypeOK ==
    ASSUME TypeOK, [Next]_vars
    PROVE  TypeOK'
<1> USE DEF TypeOK
<1>1. ASSUME NEW x \in Exchanges, NEW from, NEW to \in States, Handle(x, from, to),
             UNCHANGED <<listener, recorded, client, device, log, lost, alive>>
      PROVE  TypeOK'
  BY <1>1 DEF Handle, States
<1>2. ASSUME NEW x \in Exchanges,
             Forward(x) \/ ReadFails(x) \/ UpstreamAnswers(x) \/ UpstreamFails(x)
             \/ RespondThrows(x) \/ Withhold(x)
      PROVE  TypeOK'
  BY <1>1, <1>2 DEF Forward, ReadFails, UpstreamAnswers, UpstreamFails, RespondThrows, Withhold, States
<1>3. ASSUME NEW x \in Exchanges, ClientCloses(x) \/ DeviceExecutes(x) \/ UpstreamBreaksOff(x)
      PROVE  TypeOK'
  BY <1>3 DEF ClientCloses, DeviceExecutes, UpstreamBreaksOff
<1>4. ASSUME NEW x \in Exchanges, NEW from, NEW append \in States, NEW respond \in States,
             Record(x, from, append, respond)
      PROVE  TypeOK'
  BY <1>4 DEF Record, Handle, States
<1>5. ASSUME NEW x \in Exchanges, NEW from, NEW line \in Lines, NEW respond \in States,
             AppendSucceeds(x, from, line, respond)
      PROVE  TypeOK'
  <2>1. log' \in Seq([exchange : Exchanges, line : Lines])
    <3>1. Entry(x, line) \in [exchange : Exchanges, line : Lines]
      BY DEF Entry
    <3> QED BY <1>5, <3>1, Appended DEF AppendSucceeds
  <2> QED BY <1>5, <2>1 DEF AppendSucceeds, Handle, States
<1>6. ASSUME NEW x \in Exchanges, NEW from, AppendFails(x, from) PROVE TypeOK'
  BY <1>6 DEF AppendFails, Handle
<1>7. ASSUME NEW x \in Exchanges, NEW from, NEW knows \in {"answered", "gateway"},
             Respond(x, from, knows)
      PROVE  TypeOK'
  BY <1>7 DEF Respond, Handle
<1>8. ASSUME NEW x \in Exchanges, OnClose(x) PROVE TypeOK'
  BY <1>8 DEF OnClose
<1>9. ASSUME NEW x \in Exchanges, ListenerAppends(x) PROVE TypeOK'
  <2>1. log' \in Seq([exchange : Exchanges, line : Lines])
    <3>1. Entry(x, "aborted") \in [exchange : Exchanges, line : Lines]
      BY DEF Entry, Lines
    <3> QED BY <1>9, <3>1, Appended DEF ListenerAppends
  <2> QED BY <1>9, <2>1 DEF ListenerAppends
<1>10. ASSUME NEW x \in Exchanges, ListenerFails(x) PROVE TypeOK'
  BY <1>10 DEF ListenerFails
<1>11. CASE UNCHANGED vars
  BY <1>11 DEF vars
<1> HIDE DEF TypeOK
<1>12. ASSUME NEW x \in Exchanges, Steps(x) PROVE TypeOK'
  BY <1>2, <1>4, <1>5, <1>6, <1>7, <1>8, <1>9, <1>10, <1>12
     DEF Steps, RecordAnswer, RecordFailure, AppendEntry, RespondAnswer, RespondGateway, States, Lines
<1> QED BY <1>2, <1>3, <1>11, <1>12 DEF Next

\* Writing an exchange that is not in the log.
LEMMA Written ==
    ASSUME TypeOK, RecordedOnce, NEW x \in Exchanges, NEW line \in Lines, ~Logged(x),
           log' = Append(log, Entry(x, line))
    PROVE  /\ RecordedOnce'
           /\ Contains(log', Entry(x, line))
           /\ \A y \in Exchanges : y # x => (Logged(y)' <=> Logged(y))
           /\ \A y \in Exchanges, l \in Lines : Contains(log, Entry(y, l)) => Contains(log', Entry(y, l))
<1>1. /\ Len(log) \in Nat
      /\ \A i \in 1 .. Len(log) : log'[i] = log[i]
      /\ log'[Len(log) + 1] = Entry(x, line)
      /\ DOMAIN log = 1 .. Len(log) /\ DOMAIN log' = 1 .. Len(log) + 1
  <2>1. Entry(x, line) \in [exchange : Exchanges, line : Lines]
    BY DEF Entry
  <2>2. log \in Seq([exchange : Exchanges, line : Lines])
    BY DEF TypeOK
  <2>3. \A S : \A s \in Seq(S) : \A e \in S :
            /\ Append(s, e) \in Seq(S)
            /\ DOMAIN s = 1 .. Len(s) /\ Len(s) \in Nat
            /\ DOMAIN Append(s, e) = 1 .. Len(s) + 1
            /\ \A i \in 1 .. Len(s) : Append(s, e)[i] = s[i]
            /\ Append(s, e)[Len(s) + 1] = e
    BY Appended
  <2>4. /\ DOMAIN log = 1 .. Len(log) /\ Len(log) \in Nat
        /\ DOMAIN Append(log, Entry(x, line)) = 1 .. Len(log) + 1
        /\ \A i \in 1 .. Len(log) : Append(log, Entry(x, line))[i] = log[i]
        /\ Append(log, Entry(x, line))[Len(log) + 1] = Entry(x, line)
    BY <2>1, <2>2, <2>3
  <2> QED BY <2>4
<1>2. \A i \in 1 .. Len(log) : log[i].exchange # x
  BY <1>1 DEF Logged
<1>3. RecordedOnce'
  BY <1>1, <1>2 DEF RecordedOnce, Entry
<1>4. Contains(log', Entry(x, line))
  BY <1>1 DEF Contains
<1>5. \A y \in Exchanges : y # x => (Logged(y)' <=> Logged(y))
  BY <1>1 DEF Logged, Entry
<1>6. \A y \in Exchanges, l \in Lines : Contains(log, Entry(y, l)) => Contains(log', Entry(y, l))
  BY <1>1 DEF Contains
<1> QED BY <1>3, <1>4, <1>5, <1>6

\* A step of x that leaves the log alone.
LEMMA Unwritten ==
    ASSUME LogInv, TypeOK', NEW x \in Exchanges, log' = log,
           Sound(handler[x], listener[x], recorded[x], client[x], Logged(x), Witnessed(x)) =>
               Sound(handler'[x], listener'[x], recorded'[x], client'[x], Logged(x), Witnessed(x)),
           \A y \in Exchanges : y # x =>
               /\ handler'[y] = handler[y] /\ listener'[y] = listener[y]
               /\ recorded'[y] = recorded[y] /\ client'[y] = client[y]
    PROVE  LogInv'
<1>1. RecordedOnce'
  BY DEF LogInv, RecordedOnce
<1>2. ASSUME NEW y \in Exchanges PROVE (Logged(y)' <=> Logged(y)) /\ (Witnessed(y)' <=> Witnessed(y))
  BY DEF Logged, Witnessed
<1>3. ASSUME NEW y \in Exchanges PROVE ExchangeInv(y)'
  <2>1. ExchangeInv(y)
    BY DEF LogInv
  <2>2. CASE y = x
    BY <1>2, <2>1, <2>2 DEF ExchangeInv, Sound
  <2>3. CASE y # x
    BY <1>2, <2>1, <2>3 DEF ExchangeInv, Sound
  <2> QED BY <2>2, <2>3
<1> QED BY <1>1, <1>3 DEF LogInv

\* A step of the handler of x alone.
LEMMA Moved ==
    ASSUME LogInv, TypeOK', NEW x \in Exchanges, NEW from, NEW to, Handle(x, from, to),
           UNCHANGED <<listener, recorded, client, log>>,
           /\ to \in Early => from \in Early
           /\ to \in Appending => FALSE
           /\ to = "respond answer" => FALSE
           /\ to \notin Early => recorded[x]
    PROVE  LogInv'
<1>1. handler'[x] = to /\ handler[x] = from /\ TypeOK
  BY DEF Handle, LogInv, TypeOK
<1>2. \A y \in Exchanges : y # x =>
          /\ handler'[y] = handler[y] /\ listener'[y] = listener[y]
          /\ recorded'[y] = recorded[y] /\ client'[y] = client[y]
  <2>1. \A y \in Exchanges : y # x => handler'[y] = handler[y]
    <3>1. handler' = [handler EXCEPT ![x] = to] /\ handler \in [Exchanges -> States]
      BY <1>1 DEF Handle, TypeOK, States
    <3> QED BY <3>1, Zenon
  <2>2. listener' = listener /\ recorded' = recorded /\ client' = client
    OBVIOUS
  <2>3. \A y \in Exchanges :
            listener'[y] = listener[y] /\ recorded'[y] = recorded[y] /\ client'[y] = client[y]
    BY <2>2, Zenon
  <2> QED BY <2>1, <2>3, Zenon
<1>3. listener'[x] = listener[x] /\ (recorded'[x] <=> recorded[x]) /\ client'[x] = client[x]
  OBVIOUS
<1>4. ASSUME Sound(handler[x], listener[x], recorded[x], client[x], Logged(x), Witnessed(x))
      PROVE  Sound(handler'[x], listener'[x], recorded'[x], client'[x], Logged(x), Witnessed(x))
  BY <1>1, <1>3, <1>4 DEF Sound
<1> QED BY <1>2, <1>4, Unwritten

\* Where the handler of x is once its flag is up.
LEMMA Flagged ==
    ASSUME LogInv, NEW x \in Exchanges, handler[x] \in States \ Early
    PROVE  recorded[x]
BY DEF LogInv, ExchangeInv, Sound

LEMMA MovingStep ==
    ASSUME LogInv, TypeOK', NEW x \in Exchanges,
           \/ Forward(x) \/ ReadFails(x) \/ UpstreamAnswers(x) \/ UpstreamFails(x)
           \/ RespondThrows(x) \/ Withhold(x)
           \/ AppendFails(x, "append answer") \/ AppendFails(x, "append failure")
    PROVE  LogInv'
<1> USE DEF Early, Appending
<1>1. CASE Forward(x) \/ ReadFails(x) \/ UpstreamAnswers(x) \/ UpstreamFails(x)
  BY <1>1, Moved DEF Forward, ReadFails, UpstreamAnswers, UpstreamFails
<1>2. CASE \/ RespondThrows(x) \/ Withhold(x)
           \/ AppendFails(x, "append answer") \/ AppendFails(x, "append failure")
  <2>1. handler[x] \in {"respond answer", "append answer", "append failure"}
    BY <1>2 DEF RespondThrows, Withhold, AppendFails, Handle
  <2>2. recorded[x]
    BY <2>1, Flagged DEF States
  <2> QED BY <1>2, <2>2, Moved DEF RespondThrows, Withhold, AppendFails
<1> QED BY <1>1, <1>2

\* The client's view changes, or the process ends.
LEMMA OutsideStep ==
    ASSUME LogInv, TypeOK', NEW x \in Exchanges,
           ClientCloses(x) \/ DeviceExecutes(x) \/ UpstreamBreaksOff(x) \/ ListenerFails(x)
    PROVE  LogInv'
<1>1. TypeOK
  BY DEF LogInv
<1>2. CASE ClientCloses(x)
  <2>1. log' = log /\ \A y \in Exchanges : y # x =>
            /\ handler'[y] = handler[y] /\ listener'[y] = listener[y]
            /\ recorded'[y] = recorded[y] /\ client'[y] = client[y]
    BY <1>1, <1>2 DEF ClientCloses, TypeOK
  <2>2. client'[x] = "gone" /\ handler' = handler /\ listener' = listener /\ recorded' = recorded
    BY <1>1, <1>2 DEF ClientCloses, TypeOK
  <2>3. Sound(handler[x], listener[x], recorded[x], client[x], Logged(x), Witnessed(x)) =>
            Sound(handler'[x], listener'[x], recorded'[x], client'[x], Logged(x), Witnessed(x))
    BY <2>2 DEF Sound
  <2> QED BY <2>1, <2>3, Unwritten
<1>3. CASE DeviceExecutes(x) \/ UpstreamBreaksOff(x) \/ ListenerFails(x)
  <2>1. UNCHANGED <<handler, listener, recorded, client, log>>
    BY <1>3 DEF DeviceExecutes, UpstreamBreaksOff, ListenerFails
  <2> QED BY <2>1, Unwritten
<1> QED BY <1>2, <1>3

LEMMA RecordStep ==
    ASSUME LogInv, TypeOK', NEW x \in Exchanges, RecordAnswer(x) \/ RecordFailure(x)
    PROVE  LogInv'
<1>1. TypeOK /\ ExchangeInv(x)
  BY DEF LogInv
<1>2. PICK from \in {"answered", "failed"}, append \in Appending,
           respond \in {"respond answer", "respond failure"} :
          Record(x, from, append, respond)
  BY DEF RecordAnswer, RecordFailure, Appending
<1>3. log' = log /\ \A y \in Exchanges : y # x =>
          /\ handler'[y] = handler[y] /\ listener'[y] = listener[y]
          /\ recorded'[y] = recorded[y] /\ client'[y] = client[y]
  <2>1. /\ log' = log /\ listener' = listener /\ client' = client
        /\ recorded' = [recorded EXCEPT ![x] = TRUE]
    BY <1>2 DEF Record
  <2>2. \E to \in {append, respond} : handler' = [handler EXCEPT ![x] = to]
    BY <1>2 DEF Record, Handle
  <2>3. \A y \in Exchanges : y # x => handler'[y] = handler[y]
    BY <1>1, <2>2 DEF TypeOK
  <2>4. \A y \in Exchanges : y # x => recorded'[y] = recorded[y]
    BY <1>1, <2>1 DEF TypeOK
  <2> QED BY <2>1, <2>3, <2>4
<1>4. /\ recorded'[x] /\ listener'[x] = listener[x] /\ client'[x] = client[x]
      /\ handler[x] = from
  BY <1>1, <1>2 DEF Record, Handle, TypeOK
<1>5. handler'[x] = IF recorded[x] THEN respond ELSE append
  BY <1>1, <1>2 DEF Record, Handle, TypeOK
<1>6. ASSUME Sound(handler[x], listener[x], recorded[x], client[x], Logged(x), Witnessed(x))
      PROVE  Sound(handler'[x], listener'[x], recorded'[x], client'[x], Logged(x), Witnessed(x))
  <2>1. CASE recorded[x]
    BY <1>4, <1>5, <1>6, <2>1 DEF Sound, Early, Appending
  <2>2. CASE ~recorded[x]
    BY <1>4, <1>5, <1>6, <2>2 DEF Sound, Early, Appending
  <2> QED BY <2>1, <2>2
<1> QED BY <1>3, <1>6, Unwritten

LEMMA RespondStep ==
    ASSUME LogInv, TypeOK', NEW x \in Exchanges, RespondAnswer(x) \/ RespondGateway(x)
    PROVE  LogInv'
<1>1. TypeOK /\ ExchangeInv(x)
  BY DEF LogInv
<1>2. PICK from \in {"respond answer", "respond failure", "rejected"},
           knows \in {"answered", "gateway"} :
          Respond(x, from, knows) /\ (knows = "answered" => from = "respond answer")
  BY DEF RespondAnswer, RespondGateway
<1>3. log' = log /\ \A y \in Exchanges : y # x =>
          /\ handler'[y] = handler[y] /\ listener'[y] = listener[y]
          /\ recorded'[y] = recorded[y] /\ client'[y] = client[y]
  BY <1>1, <1>2 DEF Respond, Handle, TypeOK
<1>4. /\ listener'[x] = listener[x] /\ recorded' = recorded
      /\ handler'[x] = "done" /\ handler[x] = from
  BY <1>1, <1>2 DEF Respond, Handle, TypeOK
<1>5. client'[x] = IF client[x] = "waiting" THEN knows ELSE client[x]
  BY <1>1, <1>2 DEF Respond, TypeOK
<1>6. recorded[x]
  BY <1>2, <1>4, Flagged DEF States, Early
<1>7. Sound(handler[x], listener[x], recorded[x], client[x], Logged(x), Witnessed(x)) =>
          Sound(handler'[x], listener'[x], recorded'[x], client'[x], Logged(x), Witnessed(x))
  BY <1>2, <1>4, <1>5, <1>6 DEF Sound, Early, Appending
<1> QED BY <1>3, <1>7, Unwritten

LEMMA OnCloseStep ==
    ASSUME LogInv, TypeOK', NEW x \in Exchanges, OnClose(x)
    PROVE  LogInv'
<1>1. TypeOK
  BY DEF LogInv
<1>2. log' = log /\ \A y \in Exchanges : y # x =>
          /\ handler'[y] = handler[y] /\ listener'[y] = listener[y]
          /\ recorded'[y] = recorded[y] /\ client'[y] = client[y]
  BY <1>1 DEF OnClose, TypeOK
<1>3. /\ recorded'[x] /\ ~recorded[x] /\ listener'[x] = "append"
      /\ handler' = handler /\ client' = client /\ client[x] = "gone"
  BY <1>1 DEF OnClose, TypeOK
<1>4. Sound(handler[x], listener[x], recorded[x], client[x], Logged(x), Witnessed(x)) =>
          Sound(handler'[x], listener'[x], recorded'[x], client'[x], Logged(x), Witnessed(x))
  BY <1>3 DEF Sound, Early, Appending
<1> QED BY <1>2, <1>4, Unwritten

\* A step of x that writes its entry.
LEMMA WritingStep ==
    ASSUME LogInv, TypeOK', NEW x \in Exchanges, NEW line \in Lines, ~Logged(x),
           log' = Append(log, Entry(x, line)),
           Sound(handler'[x], listener'[x], recorded'[x], client'[x], TRUE, Witnessed(x)'),
           \A y \in Exchanges : y # x =>
               /\ handler'[y] = handler[y] /\ listener'[y] = listener[y]
               /\ recorded'[y] = recorded[y] /\ client'[y] = client[y]
    PROVE  LogInv'
<1>1. /\ RecordedOnce' /\ Contains(log', Entry(x, line))
      /\ \A y \in Exchanges : y # x => (Logged(y)' <=> Logged(y))
      /\ \A y \in Exchanges, l \in Lines : Contains(log, Entry(y, l)) => Contains(log', Entry(y, l))
  BY Written DEF LogInv
<1>2. ASSUME NEW y \in Exchanges PROVE ExchangeInv(y)'
  <2>1. ExchangeInv(y)
    BY DEF LogInv
  <2>2. CASE y = x
    BY <2>2 DEF ExchangeInv, Sound
  <2>3. CASE y # x
    <3>1. Witnessed(y) => Witnessed(y)'
      BY <1>1 DEF Witnessed, Lines, Entry
    <3>2. Logged(y)' <=> Logged(y)
      BY <1>1, <2>3
    <3> QED BY <2>1, <2>3, <3>1, <3>2 DEF ExchangeInv, Sound
  <2> QED BY <2>2, <2>3
<1> QED BY <1>1, <1>2 DEF LogInv

LEMMA HandlerWrites ==
    ASSUME LogInv, TypeOK', NEW x \in Exchanges,
           NEW from \in Appending, NEW line \in Lines, NEW respond,
           \/ line = "answer" /\ respond = "respond answer"
           \/ line = "failure" /\ respond = "respond failure",
           AppendSucceeds(x, from, line, respond)
    PROVE  LogInv'
<1>1. TypeOK /\ Sound(handler[x], listener[x], recorded[x], client[x], Logged(x), Witnessed(x))
  BY DEF LogInv, ExchangeInv
<1>2. \A y \in Exchanges : y # x =>
          /\ handler'[y] = handler[y] /\ listener'[y] = listener[y]
          /\ recorded'[y] = recorded[y] /\ client'[y] = client[y]
  BY <1>1 DEF AppendSucceeds, Handle, TypeOK
<1>3. /\ handler'[x] = respond /\ handler[x] = from /\ log' = Append(log, Entry(x, line))
      /\ listener' = listener /\ recorded' = recorded /\ client' = client
  BY <1>1 DEF AppendSucceeds, Handle, TypeOK
<1>4. ~Logged(x) /\ listener[x] = "idle" /\ recorded[x]
  BY <1>1, <1>3 DEF Sound, Appending, Early
<1>5. (Witnessed(x) => Witnessed(x)') /\ (line = "answer" => Witnessed(x)')
  BY <1>3, <1>4, Written DEF Witnessed, LogInv, Lines, Entry
<1>6. Sound(handler'[x], listener'[x], recorded'[x], client'[x], TRUE, Witnessed(x)')
  BY <1>1, <1>3, <1>4, <1>5 DEF Sound, Appending, Early
<1> QED BY <1>2, <1>3, <1>4, <1>6, WritingStep

LEMMA ListenerWrites ==
    ASSUME LogInv, TypeOK', NEW x \in Exchanges, ListenerAppends(x)
    PROVE  LogInv'
<1>1. TypeOK /\ Sound(handler[x], listener[x], recorded[x], client[x], Logged(x), Witnessed(x))
  BY DEF LogInv, ExchangeInv
<1>2. \A y \in Exchanges : y # x =>
          /\ handler'[y] = handler[y] /\ listener'[y] = listener[y]
          /\ recorded'[y] = recorded[y] /\ client'[y] = client[y]
  BY <1>1 DEF ListenerAppends, TypeOK
<1>3. /\ listener'[x] = "done" /\ listener[x] = "append" /\ log' = Append(log, Entry(x, "aborted"))
      /\ handler' = handler /\ recorded' = recorded /\ client' = client
  BY <1>1 DEF ListenerAppends, TypeOK
<1>4. ~Logged(x) /\ handler[x] \notin Appending /\ recorded[x]
  BY <1>1, <1>3 DEF Sound
<1>5. Witnessed(x) => Witnessed(x)'
  BY <1>3, <1>4, Written DEF Witnessed, LogInv, Lines, Entry
<1>6. Sound(handler'[x], listener'[x], recorded'[x], client'[x], TRUE, Witnessed(x)')
  BY <1>1, <1>3, <1>4, <1>5 DEF Sound
<1> QED BY <1>2, <1>3, <1>4, <1>6, WritingStep DEF Lines

LEMMA ExchangeStep ==
    ASSUME LogInv, TypeOK', NEW x \in Exchanges, Steps(x)
    PROVE  LogInv'
<1>1. CASE AppendEntry(x)
  BY <1>1, HandlerWrites, MovingStep DEF AppendEntry, Appending, Lines
<1> QED BY <1>1, MovingStep, RecordStep, RespondStep, OnCloseStep, ListenerWrites, OutsideStep DEF Steps

LEMMA LogInvariant == Spec => []LogInv
<1>1. Init => LogInv
  <2> SUFFICES ASSUME Init PROVE LogInv
    OBVIOUS
  <2>1. TypeOK
    BY DEF Init, TypeOK
  <2>2. RecordedOnce /\ \A x \in Exchanges : ~Logged(x)
    BY DEF Init, RecordedOnce, Logged
  <2>3. \A x \in Exchanges : ExchangeInv(x)
    BY <2>2 DEF Init, ExchangeInv, Sound, Early, Appending
  <2> QED BY <2>1, <2>2, <2>3 DEF LogInv
<1>2. LogInv /\ [Next]_vars => LogInv'
  <2> SUFFICES ASSUME LogInv, [Next]_vars PROVE LogInv'
    OBVIOUS
  <2>1. TypeOK'
    BY StepTypeOK DEF LogInv
  <2>2. CASE UNCHANGED vars
    <3>1. UNCHANGED <<handler, listener, recorded, client, log>>
      BY <2>2 DEF vars
    <3>2. RecordedOnce'
      BY <3>1 DEF LogInv, RecordedOnce
    <3>3. ASSUME NEW x \in Exchanges PROVE ExchangeInv(x)'
      BY <3>1 DEF LogInv, ExchangeInv, Logged, Witnessed
    <3> QED BY <2>1, <3>2, <3>3 DEF LogInv
  <2>3. CASE Next
    BY <2>1, <2>3, MovingStep, OutsideStep, ExchangeStep DEF Next
  <2> QED BY <2>2, <2>3
<1> QED BY <1>1, <1>2, PTL DEF Spec

\* Handlers, listeners, clients and the log have the types of TypeOK.
THEOREM WitnessTypeCorrect == Spec => []TypeOK
<1>1. LogInv => TypeOK
  BY DEF LogInv
<1> QED BY <1>1, LogInvariant, PTL

\* No exchange is counted twice.
THEOREM WitnessRecordsOnce == Spec => []RecordedOnce
<1>1. LogInv => RecordedOnce
  BY DEF LogInv
<1> QED BY <1>1, LogInvariant, PTL

\* Nobody is told of an answer that is not in the log.
THEOREM WitnessedBeforeAnswered == Spec => []AnswerIsWitnessed
<1>1. LogInv => AnswerIsWitnessed
  BY DEF LogInv, ExchangeInv, Sound, Witnessed, AnswerIsWitnessed
<1> QED BY <1>1, LogInvariant, PTL
=============================================================================

--------------------------- MODULE HttpdServerProofs ---------------------------
(* Proofs about HttpdServer, for every number of exceptions in `listen' and *)
(* in every concurrency mode.                                               *)
EXTENDS HttpdServer, SequenceTheorems, TLAPS

USE ServerAssumption

Event == {"launched", "stopped", "terminated"}

\* What the observer heard last; before the first event it is as if stopped.
lastEvent == IF events = <<>> THEN "stopped" ELSE events[Len(events)]

\* The event that may follow each event.
MayFollow(last, e) ==
  \/ last = "stopped" /\ e \in {"launched", "terminated"}
  \/ last = "launched" /\ e = "stopped"

\* What the position of the listening thread says of the observer.  is_launched
\* agrees with the observer where on_stopped reads it, and only there: it stays
\* true after the server stopped, until `listen' is entered again.
Heard ==
  /\ lpc \in {"until", "accept", "read", "write", "test", "shutting",
              "completing"} => is_launched /\ lastEvent = "launched"
  /\ lpc \in {"idle", "listen", "returning"} => lastEvent = "stopped"
  /\ lpc = "bound" => ~is_launched /\ lastEvent = "stopped"
  /\ lpc \in {"ending", "rescue"} =>
       lastEvent = IF is_launched THEN "launched" ELSE "stopped"
  /\ lpc = "terminated" => lastEvent = "terminated"

Inv == TypeOK /\ Heard /\ ObserverProtocol

\* A notification that may follow the last one keeps the protocol.
LEMMA NotifyKeepsProtocol ==
  ASSUME events \in Seq(Event), ObserverProtocol, NEW e \in Event,
         MayFollow(lastEvent, e), events' = Append(events, e)
  PROVE  ObserverProtocol' /\ lastEvent' = e
<1>1. /\ Len(events') = Len(events) + 1
      /\ DOMAIN events' = 1..(Len(events) + 1)
      /\ events' # <<>>
      /\ events'[Len(events) + 1] = e
      /\ \A i \in 1..Len(events) : events'[i] = events[i]
  OBVIOUS
<1>2. lastEvent' = e
  BY <1>1 DEF lastEvent
<1>3. \A i \in 1..Len(events) : events[i] # "terminated"
  BY DEF ObserverProtocol, MayFollow, lastEvent
<1>4. ASSUME NEW i \in 1..Len(events)
      PROVE  LET before == IF i = 1 THEN "stopped" ELSE events'[i - 1] IN
             /\ events'[i] = "launched" => before = "stopped"
             /\ events'[i] = "stopped" => before = "launched"
             /\ events'[i] # "terminated"
  BY <1>1, <1>3 DEF ObserverProtocol
<1>5. LET i == Len(events) + 1
          before == IF i = 1 THEN "stopped" ELSE events'[i - 1] IN
      /\ events'[i] = "launched" => before = "stopped"
      /\ events'[i] = "stopped" => before = "launched"
      /\ events'[i] = "terminated" => before = "stopped" /\ i = Len(events')
  BY <1>1 DEF MayFollow, lastEvent
<1> QED
  BY <1>1, <1>2, <1>4, <1>5 DEF ObserverProtocol

LEMMA InvInit == Init => Inv
<1> SUFFICES ASSUME Init PROVE Inv
  OBVIOUS
<1>1. TypeOK
  <2>1. open \subseteq 1..created /\ exceptions \in 0..MaxExceptions
    BY DEF Init
  <2>2. events \in Seq(Event)
    BY EmptySeq DEF Init
  <2> QED
    BY <2>1, <2>2 DEF Init, TypeOK, ListenPosition, Event
<1>2. Heard /\ ObserverProtocol
  BY DEF Init, Heard, ObserverProtocol, lastEvent
<1> QED
  BY <1>1, <1>2 DEF Inv

\* The steps that leave the observer and is_launched alone.
LEMMA SilentStep ==
  ASSUME Inv, \/ launch \/ listen_until \/ accept \/ update_read
              \/ update_write \/ update_test \/ handler_shutdown
              \/ wait_for_connection_handler_completion \/ raise
              \/ connector_launch \/ on_server_started
              \/ connector_shutdown_server \/ shutdown_server_flag
              \/ controller_shutdown
  PROVE  Inv'
<1> USE DEF launch, listen_until, accept, update_read, update_write,
            update_test, handler_shutdown,
            wait_for_connection_handler_completion, raise, connector_launch,
            on_server_started, connector_shutdown_server,
            shutdown_server_flag, controller_shutdown,
            flagVars, observedVars, connectorVars
<1>1. events' = events /\ is_launched' = is_launched
  OBVIOUS
<1>2. TypeOK'
  <2>0. lpc' \in ListenPosition
    BY DEF Inv, TypeOK, ListenPosition
  <2>1. /\ created' \in Nat
        /\ open' \subseteq 1..created'
        /\ exceptions' \in 0..MaxExceptions
    <3>1. created' = created /\ open' \subseteq open
      OBVIOUS
    <3>2. \/ exceptions' = exceptions
          \/ exceptions < MaxExceptions /\ exceptions' = exceptions + 1
      OBVIOUS
    <3> QED
      BY <3>1, <3>2 DEF Inv, TypeOK
  <2>2. /\ is_shutdown_requested' \in BOOLEAN
        /\ requested' \in BOOLEAN
        /\ shutdown_requested' \in BOOLEAN
        /\ is_terminated' \in BOOLEAN
    BY DEF Inv, TypeOK
  <2>3. /\ cpc' \in {"idle", "launching", "ready"}
        /\ launched' \in BOOLEAN
        /\ stopper' \in {"idle", "flagged", "done"}
        /\ asked' \in BOOLEAN
    BY DEF Inv, TypeOK
  <2> QED
    BY <1>1, <2>0, <2>1, <2>2, <2>3 DEF Inv, TypeOK
<1>3. ObserverProtocol' /\ lastEvent' = lastEvent
  BY <1>1 DEF Inv, ObserverProtocol, lastEvent
<1>4. Heard'
  BY <1>1, <1>3 DEF Inv, Heard
<1> QED
  BY <1>2, <1>3, <1>4 DEF Inv

LEMMA InvStep == Inv /\ [Next]_serverVars => Inv'
<1> SUFFICES ASSUME Inv, [Next]_serverVars PROVE Inv'
  OBVIOUS
<1> USE DEF flagVars, observedVars, connectorVars
<1>0. events \in Seq(Event) /\ ObserverProtocol
  BY DEF Inv, TypeOK, Event
<1>1. ASSUME NEW b \in BOOLEAN, listen(b) PROVE Inv'
  <2>1. TypeOK'
    <3>1. created' \in Nat /\ open' \subseteq 1..created'
      <4>1. created \in Nat /\ open \subseteq 1..created
        BY DEF Inv, TypeOK
      <4>2. CASE b
        <5>1. created' = created + 1 /\ open' = open \union {created'}
          BY <1>1, <4>2 DEF listen
        <5> QED
          BY <4>1, <5>1
      <4>3. CASE ~b
        BY <1>1, <4>1, <4>3 DEF listen
      <4> QED
        BY <4>2, <4>3
    <3>2. lpc' \in ListenPosition
      BY <1>1 DEF listen, ListenPosition
    <3> QED
      BY <1>1, <3>1, <3>2 DEF listen, Inv, TypeOK
  <2>2. ObserverProtocol' /\ lastEvent' = lastEvent
    BY <1>1 DEF listen, Inv, ObserverProtocol, lastEvent
  <2>3. Heard'
    BY <1>1, <2>2 DEF listen, Inv, Heard
  <2> QED
    BY <2>1, <2>2, <2>3 DEF Inv
<1>2. CASE on_launched
  <2>1. ObserverProtocol' /\ lastEvent' = "launched"
    BY <1>2, <1>0, NotifyKeepsProtocol
    DEF on_launched, Inv, Heard, MayFollow, Event
  <2>2. Heard'
    BY <1>2, <2>1 DEF on_launched, Heard
  <2>3. TypeOK'
    BY <1>2 DEF on_launched, Inv, TypeOK, ListenPosition
  <2> QED
    BY <2>1, <2>2, <2>3 DEF Inv
<1>3. CASE listen_end \/ listen_rescue
  <2>1. ObserverProtocol' /\ lastEvent' = "stopped"
    <3>1. CASE is_launched
      BY <1>3, <1>0, <3>1, NotifyKeepsProtocol
      DEF listen_end, listen_rescue, on_stopped, Inv, Heard, MayFollow, Event
    <3>2. CASE ~is_launched
      BY <1>3, <1>0, <3>2
      DEF listen_end, listen_rescue, on_stopped, Inv, Heard,
          ObserverProtocol, lastEvent
    <3> QED
      BY <3>1, <3>2
  <2>2. Heard'
    BY <1>3, <2>1 DEF listen_end, listen_rescue, Heard
  <2>3. TypeOK'
    <3>1. events' \in Seq(Event)
      BY <1>3, <1>0 DEF listen_end, listen_rescue, on_stopped, Event
    <3> QED
      BY <1>3, <3>1
      DEF listen_end, listen_rescue, Inv, TypeOK, ListenPosition, Event
  <2> QED
    BY <2>1, <2>2, <2>3 DEF Inv
<1>4. CASE on_terminated
  <2>1. ObserverProtocol' /\ lastEvent' = "terminated"
    BY <1>4, <1>0, NotifyKeepsProtocol
    DEF on_terminated, Inv, Heard, MayFollow, Event
  <2>2. Heard'
    BY <1>4, <2>1 DEF on_terminated, Heard
  <2>3. TypeOK'
    BY <1>4 DEF on_terminated, Inv, TypeOK, ListenPosition
  <2> QED
    BY <2>1, <2>2, <2>3 DEF Inv
<1>5. CASE UNCHANGED serverVars
  BY <1>5
  DEF serverVars, Inv, TypeOK, Heard, ObserverProtocol, lastEvent
<1> QED
  BY <1>1, <1>2, <1>3, <1>4, <1>5, SilentStep DEF Next, Progress

LEMMA Invariance == Spec => []Inv
BY InvInit, InvStep, PTL DEF Spec

\* Every variable of the server, of its controller and of the connector keeps
\* its type, whatever the exceptions in `listen' and whoever stops the server.
THEOREM TypeCorrect == Spec => []TypeOK
BY Invariance, PTL DEF Inv

\* on_launched, on_stopped and on_terminated reach the observer as one
\* consistent life, for every number of restarts by the rescue clause.
THEOREM ObserverHearsConsistentLife == Spec => []ObserverProtocol
BY Invariance, PTL DEF Inv
=============================================================================

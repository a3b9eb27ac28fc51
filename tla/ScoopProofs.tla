------------------------------ MODULE ScoopProofs ------------------------------
(***************************************************************************)
(* Proofs about ScoopPool and about ScoopServer, the server that uses it,  *)
(* for every capacity.                                                     *)
(***************************************************************************)
EXTENDS ScoopServer, FiniteSetTheorems, TLAPS

\* The life of the server with its theorems.
Life == INSTANCE HttpdServerProofs WITH Async <- TRUE, MaxExceptions <- 0

USE ScoopAssumption

LEMMA SlotFinite ==
  /\ IsFiniteSet(Slot)
  /\ Cardinality(Slot) = Capacity
  /\ \A T \in SUBSET Slot : /\ IsFiniteSet(T)
                            /\ Cardinality(T) \in Nat
                            /\ Cardinality(T) <= Capacity
                            /\ Cardinality(T) = Capacity => T = Slot
<1>1. IsFiniteSet(Slot) /\ Cardinality(Slot) = Capacity
  BY FS_Interval DEF Slot
<1> QED
  BY <1>1, FS_Subset, FS_CardinalityType

Used == {i \in Slot : items[i] # NoItem}
Busy == {i \in Slot : busy_items[i]}

LEMMA ScoopInit == Init => IndInv
<1> SUFFICES ASSUME Init PROVE IndInv
  OBVIOUS
<1>1. TypeOK
  <2>1. items \in [Slot -> Handler \union {NoItem}]
    BY DEF Init
  <2>2. busy_items \in [Slot -> BOOLEAN]
    BY DEF Init
  <2>3. count \in 0..Capacity /\ made \in 0..Capacity
    BY DEF Init
  <2>4. hpc \in [Handler -> {"idle", "execute", "release"}]
    BY DEF Init
  <2> QED
    BY <2>1, <2>2, <2>3, <2>4 DEF Init, TypeOK
<1>2. Used = {} /\ Busy = {}
  BY DEF Init, Used, Busy
<1>3. Cardinality(Used) = 0 /\ Cardinality(Busy) = 0
  BY <1>2, FS_EmptySet
<1>4. CountExact /\ MadeExact
  BY <1>3 DEF Init, CountExact, MadeExact, Used, Busy
<1>5. NoItem \notin Handler
  BY DEF Handler
<1>6. BusyExact /\ KnownItem /\ FreshForAccept /\ CompletedIsQuiet
  BY <1>5 DEF Init, BusyExact, KnownItem, FreshForAccept, CompletedIsQuiet, Serving
<1> QED
  BY <1>1, <1>4, <1>6 DEF IndInv, LockCurrent, Init

\* separate_item and the wait for a connection.
LEMMA AcceptStep ==
  ASSUME IndInv, accept_connection_on_pool PROVE IndInv'
<1> USE DEF IndInv
<1>1. PICK pos \in Slot : separate_item(pos)
  BY DEF accept_connection_on_pool
<1> DEFINE h == IF items[pos] = NoItem THEN made + 1 ELSE items[pos]
<1>2. /\ current = NoItem /\ ~completed /\ count < Capacity
      /\ lock' = "accept" /\ hpc' = hpc /\ completed' = completed
      /\ stop_requested' = stop_requested
  BY DEF accept_connection_on_pool, LockCurrent, is_full, TypeOK
<1>3. /\ ~busy_items[pos]
      /\ current' = h
      /\ items' = [items EXCEPT ![pos] = h]
      /\ made' = IF items[pos] = NoItem THEN made + 1 ELSE made
      /\ count' = count + 1
      /\ busy_items' = [busy_items EXCEPT ![pos] = TRUE]
  BY <1>1 DEF separate_item, FirstFree, TypeOK
<1>4. items[pos] = NoItem => made + 1 \in Handler
  <2>1. items[pos] = NoItem => Used # Slot
    BY DEF Used
  <2>2. items[pos] = NoItem => made < Capacity
    BY <1>2, <2>1, SlotFinite DEF MadeExact, Used, TypeOK
  <2> QED
    BY <2>2 DEF TypeOK, Handler
<1>5. h \in Handler
  BY <1>4 DEF TypeOK
<1>6. h # NoItem /\ NoItem \notin Handler
  BY <1>5 DEF Handler
<1>7. \A i \in Slot : i # pos => items[i] # h
  <2>1. CASE items[pos] = NoItem
    BY <2>1 DEF MadeExact, TypeOK, Handler
  <2>2. CASE items[pos] # NoItem
    BY <2>2 DEF KnownItem
  <2> QED
    BY <2>1, <2>2
<1>8. hpc[h] = "idle"
  <2>1. CASE items[pos] = NoItem
    <3>1. \A i \in Slot : items[i] # h
      BY <1>6, <1>7, <2>1
    <3> QED
      BY <1>5, <3>1 DEF KnownItem, Serving
  <2>2. CASE items[pos] # NoItem
    BY <1>3, <2>2 DEF BusyExact, Serving
  <2> QED
    BY <2>1, <2>2
<1> HIDE DEF h
<1>9. /\ Busy' = Busy \union {pos} /\ pos \notin Busy
      /\ Used' = Used \union {pos}
  BY <1>3, <1>6 DEF Busy, Used, TypeOK
<1>10. CountExact'
  <2>1. IsFiniteSet(Busy) /\ Cardinality(Busy) = count
    BY SlotFinite DEF Busy, CountExact
  <2>2. Cardinality(Busy') = count + 1
    BY <1>9, <2>1, FS_AddElement
  <2> QED
    BY <1>3, <2>2 DEF CountExact, Busy
<1>11. MadeExact'
  <2>1. IsFiniteSet(Used) /\ Cardinality(Used) = made
    BY <1>2, SlotFinite DEF Used, MadeExact
  <2>2. Cardinality(Used') = IF items[pos] = NoItem THEN made + 1 ELSE made
    BY <1>9, <2>1, FS_AddElement DEF Used
  <2>3. \A i \in Slot : items'[i] # NoItem => items'[i] <= made'
    BY <1>3 DEF MadeExact, TypeOK, Handler, h
  <2> QED
    BY <1>2, <1>3, <2>2, <2>3 DEF MadeExact, Used
<1>12. TypeOK'
  <2>1. made' \in 0..Capacity /\ count' \in 0..Capacity
    BY <1>2, <1>3, <1>4 DEF TypeOK, Handler
  <2> QED
    BY <1>2, <1>3, <1>5, <2>1 DEF TypeOK
<1>13. BusyExact'
  BY <1>2, <1>3, <1>6, <1>7 DEF BusyExact, Serving, TypeOK
<1>14. KnownItem'
  <2>1. \A i, j \in Slot : items'[i] = items'[j] /\ items'[i] # NoItem => i = j
    BY <1>3, <1>7 DEF KnownItem, TypeOK
  <2>2. ASSUME NEW g \in Handler, Serving(g)' PROVE \E i \in Slot : items'[i] = g
    <3>1. CASE g = h
      BY <1>3, <3>1 DEF TypeOK
    <3>2. CASE g # h
      <4>1. Serving(g)
        BY <1>2, <1>3, <2>2, <3>2 DEF Serving
      <4>2. PICK i \in Slot : items[i] = g
        BY <4>1 DEF KnownItem
      <4>3. i # pos
        BY <1>3, <1>6, <4>1, <4>2 DEF BusyExact
      <4> QED
        BY <1>3, <4>2, <4>3 DEF TypeOK
    <3> QED
      BY <3>1, <3>2
  <2> QED
    BY <2>1, <2>2 DEF KnownItem
<1>15. FreshForAccept' /\ CompletedIsQuiet' /\ LockCurrent'
  BY <1>2, <1>3, <1>6, <1>8 DEF FreshForAccept, CompletedIsQuiet, LockCurrent
<1> QED
  BY <1>10, <1>11, <1>12, <1>13, <1>14, <1>15

LEMMA ProcessStep ==
  ASSUME IndInv, process_handler PROVE IndInv'
<1> USE DEF IndInv
<1>1. /\ lock = "accept" /\ lock' = "free" /\ current' = NoItem
      /\ hpc' = [hpc EXCEPT ![current] = "execute"]
      /\ UNCHANGED <<items, busy_items, count, stop_requested, made, completed>>
  BY DEF process_handler
<1>2. current \in Handler /\ NoItem \notin Handler
  BY <1>1 DEF LockCurrent, TypeOK, Handler
<1>3. \A h \in Handler : Serving(h)' <=> Serving(h)
  BY <1>1, <1>2 DEF Serving, TypeOK
<1>4. TypeOK'
  BY <1>1, <1>2 DEF TypeOK
<1>5. LockCurrent' /\ MadeExact' /\ CountExact' /\ FreshForAccept'
  BY <1>1 DEF LockCurrent, MadeExact, CountExact, FreshForAccept
<1>6. KnownItem' /\ CompletedIsQuiet'
  BY <1>1, <1>3 DEF KnownItem, CompletedIsQuiet
<1>7. BusyExact'
  <2>1. \A i \in Slot : items[i] # NoItem => items[i] \in Handler
    BY DEF TypeOK
  <2> QED
    BY <1>1, <1>3, <2>1 DEF BusyExact
<1> QED
  BY <1>4, <1>5, <1>6, <1>7

\* Steps that change only a flag or the phase of a handler that serves.
LEMMA QuietSteps ==
  ASSUME IndInv,
         \/ accept_fails
         \/ gracefull_stop
         \/ \E h \in Handler : safe_execute(h)
         \/ UNCHANGED scoopVars
  PROVE  IndInv'
<1> USE DEF IndInv
<1>1. UNCHANGED <<items, busy_items, count, made, current, completed>>
  BY DEF accept_fails, gracefull_stop, safe_execute, scoopVars
<1>2. TypeOK' /\ LockCurrent'
  <2>1. CASE accept_fails
    BY <2>1 DEF accept_fails, TypeOK, LockCurrent
  <2>2. CASE gracefull_stop
    BY <2>2 DEF gracefull_stop, TypeOK, LockCurrent
  <2>3. ASSUME NEW h \in Handler, safe_execute(h) PROVE TypeOK' /\ LockCurrent'
    BY <2>3 DEF safe_execute, TypeOK, LockCurrent
  <2>4. CASE UNCHANGED scoopVars
    BY <2>4 DEF scoopVars, TypeOK, LockCurrent
  <2> QED
    BY <2>1, <2>2, <2>3, <2>4
<1>3. \A h \in Handler : (hpc'[h] = "idle") <=> (hpc[h] = "idle")
  BY DEF accept_fails, gracefull_stop, safe_execute, scoopVars, TypeOK
<1>4. \A h \in Handler : Serving(h)' <=> Serving(h)
  BY <1>1, <1>3 DEF Serving
<1>5. \A i \in Slot : items[i] # NoItem => items[i] \in Handler
  BY DEF TypeOK
<1>6. BusyExact' /\ KnownItem' /\ CompletedIsQuiet'
  BY <1>1, <1>4, <1>5 DEF BusyExact, KnownItem, CompletedIsQuiet
<1>7. FreshForAccept'
  BY <1>1, <1>3 DEF FreshForAccept, TypeOK
<1>8. MadeExact' /\ CountExact'
  BY <1>1 DEF MadeExact, CountExact
<1> QED
  BY <1>2, <1>6, <1>7, <1>8

LEMMA CompletionStep ==
  ASSUME IndInv, wait_for_pool_completion PROVE IndInv'
<1> USE DEF IndInv
<1>1. /\ lock = "free" /\ count = 0
      /\ items' = [i \in Slot |-> NoItem] /\ completed' = TRUE
      /\ UNCHANGED <<busy_items, count, stop_requested, made, current, lock, hpc>>
  BY DEF wait_for_pool_completion, is_empty
<1>2. \A i \in Slot : ~busy_items[i]
  <2>1. Busy = {}
    BY <1>1, SlotFinite, FS_EmptySet DEF CountExact, Busy
  <2> QED
    BY <2>1 DEF Busy
<1>3. \A h \in Handler : ~Serving(h)
  <2> SUFFICES ASSUME NEW h \in Handler, Serving(h) PROVE FALSE
    OBVIOUS
  <2>1. PICK i \in Slot : items[i] = h
    BY DEF KnownItem
  <2>2. h # NoItem
    BY DEF Handler
  <2> QED
    BY <1>2, <2>1, <2>2 DEF BusyExact
<1>4. \A h \in Handler : ~Serving(h)'
  BY <1>1, <1>3 DEF Serving
<1>5. TypeOK' /\ LockCurrent' /\ MadeExact' /\ CountExact'
  BY <1>1 DEF TypeOK, LockCurrent, MadeExact, CountExact
<1>6. BusyExact' /\ KnownItem' /\ CompletedIsQuiet' /\ FreshForAccept'
  BY <1>1, <1>2, <1>4
  DEF BusyExact, KnownItem, CompletedIsQuiet, FreshForAccept
<1> QED
  BY <1>5, <1>6

LEMMA ReleaseStep ==
  ASSUME IndInv, NEW h \in Handler, release_item(h) PROVE IndInv'
<1> USE DEF IndInv
<1>1. /\ hpc[h] = "release" /\ lock = "free" /\ count > 0
      /\ count' = count - 1
      /\ hpc' = [hpc EXCEPT ![h] = "idle"]
      /\ UNCHANGED <<items, stop_requested, made, current, lock, completed>>
  BY DEF release_item
<1>2. PICK pos \in Slot : /\ items[pos] = h
                         /\ busy_items' = [busy_items EXCEPT ![pos] = FALSE]
  BY DEF release_item
<1>3. current = NoItem /\ NoItem \notin Handler
  BY <1>1 DEF LockCurrent, Handler
<1>4. busy_items[pos]
  BY <1>1, <1>2, <1>3 DEF BusyExact, Serving
<1>5. \A g \in Handler : Serving(g)' <=> Serving(g) /\ g # h
  BY <1>1, <1>3 DEF Serving, TypeOK
<1>6. TypeOK' /\ LockCurrent' /\ MadeExact' /\ FreshForAccept'
  BY <1>1, <1>2, <1>3 DEF TypeOK, LockCurrent, MadeExact, FreshForAccept
<1>7. CountExact'
  <2>1. Busy' = Busy \ {pos} /\ pos \in Busy
    BY <1>2, <1>4 DEF Busy, TypeOK
  <2>2. IsFiniteSet(Busy) /\ Cardinality(Busy) = count
    BY SlotFinite DEF Busy, CountExact
  <2>3. Cardinality(Busy') = count - 1
    BY <2>1, <2>2, FS_RemoveElement
  <2> QED
    BY <1>1, <2>3 DEF CountExact, Busy
<1>8. BusyExact'
  <2> SUFFICES ASSUME NEW i \in Slot
               PROVE  busy_items'[i] <=> items[i] # NoItem /\ Serving(items[i])'
    BY <1>1 DEF BusyExact
  <2>1. CASE i = pos
    BY <1>1, <1>2, <1>3, <2>1 DEF TypeOK, Serving
  <2>2. CASE i # pos
    <3>1. items[i] # h
      BY <1>2, <1>3, <2>2 DEF KnownItem
    <3>2. busy_items'[i] <=> busy_items[i]
      BY <1>2, <2>2 DEF TypeOK
    <3>3. items[i] # NoItem => items[i] \in Handler
      BY DEF TypeOK
    <3>4. items[i] # NoItem => (Serving(items[i])' <=> Serving(items[i]))
      BY <1>1, <3>1, <3>3 DEF Serving, TypeOK
    <3> QED
      BY <3>2, <3>4 DEF BusyExact
  <2> QED
    BY <2>1, <2>2
<1>9. KnownItem' /\ CompletedIsQuiet'
  BY <1>1, <1>5 DEF KnownItem, CompletedIsQuiet
<1> QED
  BY <1>6, <1>7, <1>8, <1>9

LEMMA ScoopStep == IndInv /\ [Next]_scoopVars => IndInv'
BY AcceptStep, ProcessStep, QuietSteps, CompletionStep, ReleaseStep
DEF Next, HandlerStep

LEMMA ScoopInvariant == Spec => []IndInv
BY ScoopInit, ScoopStep, PTL DEF Spec

\* `count' never exceeds the capacity and the factory never makes more
\* handlers than the pool has slots.
THEOREM ScoopTypeCorrect == Spec => []TypeOK
<1>1. IndInv => TypeOK
  BY DEF IndInv
<1> QED
  BY <1>1, ScoopInvariant, PTL

\* `count' is exact: neither of the checks and wait conditions that read it
\* is misled.
THEOREM ScoopCountExact == Spec => []CountExact
<1>1. IndInv => CountExact
  BY DEF IndInv
<1> QED
  BY <1>1, ScoopInvariant, PTL

\* A slot is busy exactly while its handler serves a connection.
THEOREM ScoopBusyExact == Spec => []BusyExact
<1>1. IndInv => BusyExact
  BY DEF IndInv
<1> QED
  BY <1>1, ScoopInvariant, PTL

\* release_item always finds the item, in the slot that separate_item took.
THEOREM ScoopKnownItem == Spec => []KnownItem
<1>1. IndInv => KnownItem
  BY DEF IndInv
<1> QED
  BY <1>1, ScoopInvariant, PTL

\* wait_for_pool_completion returns only when no handler is at work.
THEOREM ScoopCompletedIsQuiet == Spec => []CompletedIsQuiet
<1>1. IndInv => CompletedIsQuiet
  BY DEF IndInv
<1> QED
  BY <1>1, ScoopInvariant, PTL

-----------------------------------------------------------------------------
(* Each step of the server is a step of the pool, or leaves it alone ...   *)

LEMMA PoolInit == ServerInit => Init
BY DEF ServerInit

LEMMA PoolNext == [ServerNext]_allVars => [Next]_scoopVars
<1> SUFFICES ASSUME [ServerNext]_allVars PROVE [Next]_scoopVars
  OBVIOUS
<1>1. CASE UNCHANGED allVars
  BY <1>1 DEF allVars
<1>2. CASE ListenStep \/ Environment
  BY <1>2 DEF ListenStep, Environment
<1>3. CASE accept_incoming_connection \/ shutdown \/ wait_for_completion
  BY <1>3 DEF accept_incoming_connection, shutdown, wait_for_completion, Next
<1>4. ASSUME NEW h \in Handler, Execute(h) \/ Release(h) PROVE HandlerStep(h)
  BY <1>4 DEF Execute, Release, HandlerStep
<1> QED
  BY <1>1, <1>2, <1>3, <1>4 DEF ServerNext, Listener, Next

\* The server uses its pool of handlers as the pool allows, so that what is
\* proved of the pool holds in the running server.
THEOREM ScoopServerUsesPool == ServerSpec => Spec
BY PoolInit, PoolNext, PTL DEF ServerSpec, Spec

-----------------------------------------------------------------------------
(* ... and a step of the server's life, or leaves that alone.              *)

LEMMA LifeFacts == Life!ServerAssumption
BY ScoopServerAssumption

LEMMA LifeInit == ServerInit => Life!Init
BY DEF ServerInit, S!Init, Life!Init

LEMMA LifeListenerStep ==
  ASSUME \/ S!launch \/ \E b \in BOOLEAN : S!listen(b)
         \/ S!on_launched \/ S!listen_until \/ S!accept \/ S!update_read
         \/ S!update_write \/ S!update_test \/ S!handler_shutdown
         \/ S!wait_for_connection_handler_completion \/ S!listen_end
         \/ S!on_terminated
  PROVE  Life!Next
BY DEF S!launch, S!listen, S!on_launched, S!listen_until, S!accept,
       S!update_read, S!update_write, S!update_test, S!handler_shutdown,
       S!wait_for_connection_handler_completion, S!listen_end, S!on_stopped,
       S!on_terminated, S!flagVars, S!observedVars, S!connectorVars,
       Life!launch, Life!listen, Life!on_launched, Life!listen_until,
       Life!accept, Life!update_read, Life!update_write, Life!update_test,
       Life!handler_shutdown, Life!wait_for_connection_handler_completion,
       Life!listen_end, Life!on_stopped, Life!on_terminated, Life!flagVars,
       Life!observedVars, Life!connectorVars, Life!Progress, Life!Next

LEMMA LifeEnvironmentStep ==
  ASSUME \/ S!connector_launch \/ S!on_server_started
         \/ S!connector_shutdown_server \/ S!controller_shutdown
  PROVE  Life!Next
<1>1. S!started = Life!started /\ S!port = Life!port
  BY DEF S!started, Life!started, S!port, Life!port, S!Contains, Life!Contains
<1> QED
  BY <1>1
  DEF S!connector_launch, S!on_server_started, S!connector_shutdown_server,
      S!controller_shutdown, S!flagVars, S!observedVars,
      Life!connector_launch, Life!on_server_started,
      Life!connector_shutdown_server, Life!controller_shutdown,
      Life!flagVars, Life!observedVars, Life!Next

LEMMA LifeNext == [ServerNext]_allVars => [Life!Next]_Life!serverVars
<1> SUFFICES ASSUME [ServerNext]_allVars PROVE [Life!Next]_Life!serverVars
  OBVIOUS
<1>1. UNCHANGED serverVars => UNCHANGED Life!serverVars
  BY DEF serverVars, Life!serverVars, Life!flagVars, Life!observedVars,
         Life!connectorVars
<1>2. CASE UNCHANGED allVars
  BY <1>2, <1>1 DEF allVars
<1>3. CASE ListenStep
  BY <1>3, LifeListenerStep DEF ListenStep
<1>4. CASE Environment
  BY <1>4, LifeEnvironmentStep DEF Environment
<1>5. CASE accept_incoming_connection \/ shutdown \/ wait_for_completion
  BY <1>5, <1>1, LifeListenerStep
  DEF accept_incoming_connection, shutdown, wait_for_completion
<1>6. ASSUME NEW h \in Handler, Execute(h) \/ Release(h)
      PROVE  UNCHANGED serverVars
  BY <1>6 DEF Execute, Release
<1> QED
  BY <1>1, <1>2, <1>3, <1>4, <1>5, <1>6 DEF ServerNext, Listener

\* With the pool of SCOOP handlers behind its connection handler the server
\* still lives the life of HTTPD_SERVER_I.
THEOREM ScoopServerImplementsLifeCycle == ServerSpec => Life!Spec
BY LifeInit, LifeNext, PTL DEF ServerSpec, Life!Spec

\* What the components guarantee holds in the running server: release_item
\* finds every handler at work, in the slot that it took, and the observer
\* hears a consistent life.
THEOREM ScoopComponentsKeepTheirPromises ==
  ServerSpec => [](KnownItem /\ BusyExact /\ Life!ObserverProtocol)
<1>1. Life!Spec => []Life!ObserverProtocol
  BY LifeFacts, Life!ObserverHearsConsistentLife
<1> QED
  BY <1>1, ScoopKnownItem, ScoopBusyExact, ScoopServerUsesPool,
     ScoopServerImplementsLifeCycle, PTL

-----------------------------------------------------------------------------
(* A server that ends has completed what was pending.                      *)

\* `listen' ends after wait_for_completion, or, when the socket could not be
\* bound, before any pool was made.
CompletedAtEnd ==
  /\ lpc \in {"idle", "listen"} => created = 0
  /\ lpc \in {"ending", "returning", "terminated"} /\ created > 0 => completed

\* A completed pool stays completed.
LEMMA CompletedStays == ASSUME [Next]_scoopVars, completed PROVE completed'
BY DEF Next, HandlerStep, scoopVars, accept_connection_on_pool,
       process_handler, accept_fails, gracefull_stop,
       wait_for_pool_completion, safe_execute, release_item

LEMMA EndInit == ServerInit => CompletedAtEnd
BY DEF ServerInit, S!Init, CompletedAtEnd

LEMMA EndStep == CompletedAtEnd /\ [ServerNext]_allVars => CompletedAtEnd'
<1> SUFFICES ASSUME CompletedAtEnd, [ServerNext]_allVars PROVE CompletedAtEnd'
  OBVIOUS
<1> USE DEF S!flagVars, S!observedVars, S!connectorVars
<1>1. completed => completed'
  BY PoolNext, CompletedStays
<1>2. CASE UNCHANGED serverVars
  BY <1>1, <1>2 DEF serverVars, CompletedAtEnd
<1>3. CASE ListenStep
  BY <1>1, <1>3
  DEF ListenStep, CompletedAtEnd, S!launch, S!listen, S!on_launched,
      S!listen_until, S!update_read, S!update_write, S!update_test,
      S!listen_end, S!on_terminated
<1>4. CASE Environment
  BY <1>1, <1>4
  DEF Environment, CompletedAtEnd, S!connector_launch, S!on_server_started,
      S!connector_shutdown_server, S!controller_shutdown
<1>5. CASE accept_incoming_connection \/ shutdown
  BY <1>1, <1>2, <1>5
  DEF accept_incoming_connection, shutdown, CompletedAtEnd, S!accept,
      S!handler_shutdown
<1>6. CASE wait_for_completion
  BY <1>6
  DEF wait_for_completion, CompletedAtEnd, wait_for_pool_completion,
      S!wait_for_connection_handler_completion
<1>7. ASSUME NEW h \in Handler, Execute(h) \/ Release(h)
      PROVE  UNCHANGED serverVars
  BY <1>7 DEF Execute, Release
<1> QED
  BY <1>2, <1>3, <1>4, <1>5, <1>6, <1>7 DEF ServerNext, Listener, allVars

\* For every capacity, whether the controller or the connector stops the server
\* and also when accepts fail: `listen' ends only when the pool is empty and no
\* handler is at work, as wait_for_completion says of pending tasks.
THEOREM ScoopPendingCompleted == ServerSpec => []PendingCompleted
<1>1. IndInv /\ CompletedAtEnd => PendingCompleted
  <2> SUFFICES ASSUME IndInv, completed
               PROVE  count = 0 /\ \A h \in Handler : hpc[h] = "idle"
    BY DEF CompletedAtEnd, PendingCompleted
  <2>1. \A h \in Handler : ~Serving(h)
    BY DEF IndInv, CompletedIsQuiet
  <2>2. Busy = {}
    BY <2>1 DEF IndInv, BusyExact, TypeOK, Busy
  <2>3. count = 0
    BY <2>2, FS_EmptySet DEF IndInv, CountExact, Busy
  <2> QED
    BY <2>1, <2>3 DEF Serving
<1> QED
  BY <1>1, EndInit, EndStep, ScoopInvariant, ScoopServerUsesPool, PTL
  DEF ServerSpec
=============================================================================

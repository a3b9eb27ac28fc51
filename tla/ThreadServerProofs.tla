-------------------------- MODULE ThreadServerProofs --------------------------
(***************************************************************************)
(* Proofs about ThreadServer.  The composition is first shown to be a      *)
(* behaviour of each of its components, which brings in what is proved of  *)
(* them; the joining of the threads is then proved from the count of live  *)
(* threads of the pool.                                                    *)
(***************************************************************************)
EXTENDS ThreadServer, TLAPS

\* The components with their theorems.
Pool == INSTANCE ThreadPoolProofs
Server == INSTANCE HttpdServerProofs WITH Async <- FALSE, MaxExceptions <- 0

LEMMA PoolFacts == Pool!PoolAssumption
BY ThreadServerAssumption DEF IsFiniteSet, Pool!IsFiniteSet

LEMMA ServerFacts == Server!ServerAssumption
BY ThreadServerAssumption

-----------------------------------------------------------------------------
(* Each step of the composition is a step of the pool ...                  *)

LEMMA SameCapacity == P!Capacity = Pool!Capacity
BY DEF P!Capacity, Pool!Capacity, P!Cardinality, Pool!Cardinality,
       P!IsFiniteSet, Pool!IsFiniteSet

LEMMA PoolInit == Init => Pool!Init
BY SameCapacity DEF Init, P!Init, Pool!Init

LEMMA PoolWorkerStep == ASSUME NEW t \in Thread, P!Worker(t)
                        PROVE  Pool!Worker(t)
BY DEF P!Worker, P!semaphore_wait, P!get_work_after_wait, P!get_work_over,
       P!get_work_queue, P!get_work_after_check, P!call_work, P!check_over,
       P!thread_terminated, P!Goto,
       Pool!Worker, Pool!semaphore_wait, Pool!get_work_after_wait,
       Pool!get_work_over, Pool!get_work_queue, Pool!get_work_after_check,
       Pool!call_work, Pool!check_over, Pool!thread_terminated, Pool!Goto

LEMMA PoolOwnerStep ==
  ASSUME \/ \E w \in Work : P!add_work(w)
         \/ P!terminate_set_over \/ P!terminate_post \/ P!terminate_return
         \/ P!wait_for_completion
  PROVE  Pool!Owner
BY SameCapacity
DEF P!add_work, P!terminate_set_over, P!terminate_post, P!terminate_return,
    P!wait_for_completion, P!workerVars, Pool!Owner, Pool!add_work,
    Pool!terminate_set_over, Pool!terminate_post, Pool!terminate_return,
    Pool!wait_for_completion, Pool!workerVars

LEMMA PoolNext == [Next]_allVars => [Pool!Next]_Pool!poolVars
<1> SUFFICES ASSUME [Next]_allVars PROVE [Pool!Next]_Pool!poolVars
  OBVIOUS
<1>1. UNCHANGED poolVars => UNCHANGED Pool!poolVars
  BY DEF poolVars, Pool!poolVars
<1>2. CASE UNCHANGED allVars
  BY <1>2, <1>1 DEF allVars
<1>3. CASE ListenStep \/ Environment
  BY <1>3, <1>1 DEF ListenStep, Environment
<1>4. CASE accept_incoming_connection
  BY <1>4, <1>1, PoolOwnerStep DEF accept_incoming_connection, Pool!Next
<1>5. CASE shutdown \/ wait_for_completion
  BY <1>5, PoolOwnerStep DEF shutdown, wait_for_completion, Pool!Next
<1>6. ASSUME NEW t \in Thread, PoolStep(t) PROVE Pool!Next
  BY <1>6, PoolWorkerStep DEF PoolStep, Pool!Next
<1> QED
  BY <1>2, <1>3, <1>4, <1>5, <1>6 DEF Next, Listener

\* The server in thread mode drives its pool only in the ways ThreadPool
\* describes: all that is proved of the pool holds inside the server.
THEOREM ServerUsesPool == Spec => Pool!Spec
BY PoolInit, PoolNext, PTL DEF Spec, Pool!Spec

-----------------------------------------------------------------------------
(* ... and a step of the server.                                           *)

LEMMA ServerInit == Init => Server!Init
BY DEF Init, S!Init, Server!Init

LEMMA ListenerStep ==
  ASSUME \/ S!launch \/ \E b \in BOOLEAN : S!listen(b)
         \/ S!on_launched \/ S!listen_until \/ S!update_read
         \/ S!update_write \/ S!update_test \/ S!listen_end
         \/ S!on_terminated \/ S!accept \/ S!handler_shutdown
         \/ S!wait_for_connection_handler_completion
  PROVE  Server!Next
BY DEF S!launch, S!listen, S!on_launched, S!listen_until, S!update_read,
       S!update_write, S!update_test, S!listen_end, S!on_terminated,
       S!accept, S!handler_shutdown,
       S!wait_for_connection_handler_completion, S!on_stopped,
       S!flagVars, S!observedVars, S!connectorVars,
       Server!launch, Server!listen, Server!on_launched,
       Server!listen_until, Server!update_read, Server!update_write,
       Server!update_test, Server!listen_end, Server!on_terminated,
       Server!accept, Server!handler_shutdown,
       Server!wait_for_connection_handler_completion, Server!on_stopped,
       Server!flagVars, Server!observedVars, Server!connectorVars,
       Server!Progress, Server!Next

LEMMA EnvironmentStep ==
  ASSUME \/ S!connector_launch \/ S!on_server_started
         \/ S!shutdown_server_flag \/ S!controller_shutdown
  PROVE  Server!Next
<1>1. S!started = Server!started /\ S!port = Server!port
  BY DEF S!started, Server!started, S!port, Server!port, S!Contains,
         Server!Contains
<1> QED
  BY <1>1
  DEF S!connector_launch, S!on_server_started, S!shutdown_server_flag,
      S!controller_shutdown, S!flagVars, S!observedVars,
      Server!connector_launch, Server!on_server_started,
      Server!shutdown_server_flag, Server!controller_shutdown,
      Server!flagVars, Server!observedVars, Server!Next

LEMMA ServerNext == [Next]_allVars => [Server!Next]_Server!serverVars
<1> SUFFICES ASSUME [Next]_allVars PROVE [Server!Next]_Server!serverVars
  OBVIOUS
<1>1. UNCHANGED serverVars => UNCHANGED Server!serverVars
  BY DEF serverVars, Server!serverVars, Server!flagVars,
         Server!observedVars, Server!connectorVars
<1>2. CASE UNCHANGED allVars
  BY <1>2, <1>1 DEF allVars
<1>3. CASE ListenStep
  BY <1>3, ListenerStep DEF ListenStep
<1>4. CASE Environment
  BY <1>4, EnvironmentStep DEF Environment
<1>5. CASE accept_incoming_connection \/ shutdown \/ wait_for_completion
  BY <1>5, <1>1, ListenerStep
  DEF accept_incoming_connection, shutdown, wait_for_completion
<1>6. ASSUME NEW t \in Thread, PoolStep(t) PROVE UNCHANGED serverVars
  BY <1>6 DEF PoolStep
<1> QED
  BY <1>1, <1>2, <1>3, <1>4, <1>5, <1>6 DEF Next, Listener

\* With the thread pool behind its connection handler the server still lives
\* the life of HTTPD_SERVER_I: its flags, its observer and the connector see
\* nothing else.
THEOREM ServerImplementsLifeCycle == Spec => Server!Spec
BY ServerInit, ServerNext, PTL DEF Spec, Server!Spec

\* What the components guarantee holds in the running server: each accepted
\* connection is served once, no idle thread sleeps next to one that nobody was
\* told about, and the observer hears a consistent life.
THEOREM ComponentsKeepTheirPromises ==
  Spec => [](Pool!EachWorkOnce /\ Pool!NoLostWakeup /\ Server!ObserverProtocol)
<1>1. Pool!Spec => []Pool!EachWorkOnce
  BY PoolFacts, Pool!WorkIsRunOnce
<1>2. Pool!Spec => []Pool!NoLostWakeup
  BY PoolFacts, Pool!NoWakeupIsLost
<1>3. Server!Spec => []Server!ObserverProtocol
  BY ServerFacts, Server!ObserverHearsConsistentLife
<1> QED
  BY <1>1, <1>2, <1>3, ServerUsesPool, ServerImplementsLifeCycle, PTL

-----------------------------------------------------------------------------
(* A server stopped through its controller has joined its threads.         *)

Joined == \A t \in Thread : pc[t] = "dead"

\* Nobody but the listening thread sets is_shutdown_requested, and it joins the
\* threads between the assignment and the next test of the loop.
JoinedWhenStopped ==
  /\ lpc \in {"idle", "listen"} => created = 0
  /\ is_shutdown_requested /\ lpc \notin {"test", "shutting"} => Joined
  /\ lpc \in {"completing", "ending", "returning", "terminated"}
       /\ created > 0 => Joined

\* A thread that has left its loop takes no step.
LEMMA JoinedStable == ASSUME [Next]_allVars, Joined PROVE Joined'
<1>1. pc' = pc => Joined'
  BY DEF Joined
<1>2. CASE UNCHANGED allVars
  BY <1>1, <1>2 DEF allVars, poolVars
<1>3. CASE Listener \/ Environment
  <2>1. pc' = pc
    BY <1>3
    DEF Listener, ListenStep, Environment, poolVars, shutdown,
        accept_incoming_connection, wait_for_completion, P!add_work,
        P!terminate_set_over, P!terminate_post, P!terminate_return,
        P!wait_for_completion, P!workerVars
  <2> QED
    BY <1>1, <2>1
<1>4. ASSUME NEW t \in Thread, PoolStep(t) PROVE FALSE
  <2>1. pc[t] = "dead"
    BY DEF Joined
  <2> QED
    BY <1>4, <2>1
    DEF PoolStep, P!Worker, P!semaphore_wait, P!get_work_after_wait,
        P!get_work_over, P!get_work_queue, P!get_work_after_check,
        P!call_work, P!check_over, P!thread_terminated
<1> QED
  BY <1>2, <1>3, <1>4 DEF Next

\* terminate returns only when every thread has left its loop.
LEMMA TerminateReturnJoins ==
  ASSUME Pool!Counting, [Next]_allVars, P!terminate_return PROVE Joined'
<1>1. Pool!Counting'
  BY PoolFacts, PoolNext, Pool!CountingStep
<1>2. owner' = "terminated"
  BY DEF P!terminate_return
<1> QED
  BY <1>1, <1>2 DEF Pool!Counting, Pool!TerminateJoins, Joined

LEMMA JoinedInit == Init => JoinedWhenStopped
BY DEF Init, S!Init, JoinedWhenStopped

LEMMA JoinedStep ==
  ASSUME "server" \notin Stoppers
  PROVE  Pool!Counting /\ JoinedWhenStopped /\ [Next]_allVars
           => JoinedWhenStopped'
<1> SUFFICES ASSUME Pool!Counting, JoinedWhenStopped, [Next]_allVars
             PROVE  JoinedWhenStopped'
  OBVIOUS
<1> USE DEF S!flagVars, S!observedVars, S!connectorVars
<1>1. Joined => Joined'
  BY JoinedStable
<1>2. CASE UNCHANGED serverVars
  BY <1>1, <1>2 DEF serverVars, JoinedWhenStopped
<1>3. CASE ListenStep
  BY <1>1, <1>3
  DEF ListenStep, JoinedWhenStopped, S!launch, S!listen, S!on_launched,
      S!listen_until, S!update_read, S!update_write, S!update_test,
      S!listen_end, S!on_terminated
<1>4. CASE Environment
  BY <1>1, <1>4
  DEF Environment, JoinedWhenStopped, S!connector_launch,
      S!on_server_started, S!shutdown_server_flag, S!controller_shutdown
<1>5. CASE accept_incoming_connection
  BY <1>1, <1>5
  DEF accept_incoming_connection, JoinedWhenStopped, S!accept
<1>6. CASE S!handler_shutdown /\ P!terminate_return
  BY <1>6, TerminateReturnJoins DEF JoinedWhenStopped, S!handler_shutdown
<1>7. CASE wait_for_completion
  BY <1>1, <1>7
  DEF wait_for_completion, JoinedWhenStopped,
      S!wait_for_connection_handler_completion
<1> QED
  BY <1>2, <1>3, <1>4, <1>5, <1>6, <1>7
  DEF Next, Listener, shutdown, PoolStep, allVars

\* Whatever the number of threads and of connections: when the server is
\* stopped through HTTPD_CONTROLLER.shutdown, `listen' waits for completion and
\* returns only after pool_gracefull_stop has joined every thread.  (Called on
\* the server object, shutdown_server also sets is_shutdown_requested, and the
\* loop may end without a call of the handler's shutdown.)
THEOREM StoppedServerHasJoined ==
  ASSUME "server" \notin Stoppers
  PROVE  Spec => []StoppedServerIsQuiet
<1>1. JoinedWhenStopped => StoppedServerIsQuiet
  BY DEF JoinedWhenStopped, StoppedServerIsQuiet, Joined
<1>2. Pool!Spec => []Pool!Counting
  BY PoolFacts, Pool!CountingInvariant
<1> QED
  BY <1>1, <1>2, JoinedInit, JoinedStep, ServerUsesPool, PTL DEF Spec
=============================================================================

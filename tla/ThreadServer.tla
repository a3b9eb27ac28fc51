----------------------------- MODULE ThreadServer -----------------------------
(***************************************************************************)
(* The standalone server in `thread' concurrency mode: the listening       *)
(* thread of HttpdServer owns the pool of ThreadPool through the thread    *)
(* version of HTTPD_CONNECTION_HANDLER.  Each accepted connection becomes  *)
(* one item of work, `agent h.safe_execute'.                               *)
(*                                                                         *)
(* Exceptions inside `listen' are left to HttpdServer: the rescue clause   *)
(* abandons the pool and creates another one.                              *)
(***************************************************************************)
EXTENDS Integers, Sequences, FiniteSets

CONSTANTS Thread, Work, NoWork, SemLimit, Stoppers

ASSUME ThreadServerAssumption ==
  /\ IsFiniteSet(Thread)
  /\ Thread # {}
  /\ NoWork \notin Work
  /\ SemLimit \in Nat \ {0}
  /\ Stoppers \subseteq {"controller", "server"}

VARIABLES
  queue, sem, over, live, pc, procedure, owner, added, finished,
  lpc, is_shutdown_requested, requested, shutdown_requested, is_launched,
  is_terminated, created, open, events, cpc, launched, stopper, asked,
  exceptions

P == INSTANCE ThreadPool

S == INSTANCE HttpdServer WITH Async <- FALSE, MaxExceptions <- 0

poolVars == <<queue, sem, over, live, pc, procedure, owner, added, finished>>
serverVars == <<lpc, is_shutdown_requested, requested, shutdown_requested,
                is_launched, is_terminated, created, open, events, cpc,
                launched, stopper, asked, exceptions>>
allVars == <<poolVars, serverVars>>

Init == P!Init /\ S!Init

\* accept_incoming_connection: a connected handler is handed to the pool.
accept_incoming_connection ==
  \/ \E w \in Work : S!accept /\ P!add_work(w)
  \/ S!accept /\ UNCHANGED poolVars

\* Fault: the threads are not joined.
shutdown_unjoined == S!handler_shutdown /\ P!terminate_set_over

\* shutdown and pool_gracefull_stop: terminate the pool; the first call only.
shutdown ==
  \/ /\ lpc = "shutting"
     /\ P!terminate_set_over \/ P!terminate_post
     /\ UNCHANGED serverVars
  \/ S!handler_shutdown /\ P!terminate_return

\* wait_for_completion of the handler is the one of the pool.
wait_for_completion ==
  S!wait_for_connection_handler_completion /\ P!wait_for_completion

\* The steps of `launch' and `listen' that leave the pool alone.
ListenStep ==
  /\ \/ S!launch
     \/ \E b \in BOOLEAN : S!listen(b)
     \/ S!on_launched
     \/ S!listen_until
     \/ S!update_read
     \/ S!update_write
     \/ S!update_test
     \/ S!listen_end
     \/ S!on_terminated
  /\ UNCHANGED poolVars

Environment ==
  /\ \/ S!connector_launch
     \/ S!on_server_started
     \/ S!shutdown_server_flag
     \/ S!controller_shutdown
  /\ UNCHANGED poolVars

PoolStep(t) == P!Worker(t) /\ UNCHANGED serverVars

Listener == ListenStep \/ accept_incoming_connection \/ shutdown
              \/ wait_for_completion

Next == Listener \/ Environment \/ \E t \in Thread : PoolStep(t)

Spec == Init /\ [][Next]_allVars

\* Every thread that can run does; clients keep connecting, or the accept
\* keeps returning without a connection.
FairSpec ==
  /\ Spec
  /\ WF_allVars(Listener)
  /\ \A t \in Thread : WF_allVars(PoolStep(t))

-----------------------------------------------------------------------------
(* Properties.                                                             *)

\* A server that was stopped through its controller has joined its threads
\* before it waits for completion, and none of them runs a request any more.
StoppedServerIsQuiet ==
  lpc \in {"completing", "returning", "terminated"} /\ created > 0
    => \A t \in Thread : pc[t] = "dead"

\* A shutdown reaches every thread of the pool.
ShutdownReachesThreads ==
  (shutdown_requested /\ is_launched) ~> (\A t \in Thread : pc[t] = "dead")

\* "Wait until there is no more work to be completed": wait_for_completion
\* returns, so that a server that was asked to stop ends.
ShutdownCompletes == (shutdown_requested /\ is_launched) ~> lpc = "terminated"
=============================================================================

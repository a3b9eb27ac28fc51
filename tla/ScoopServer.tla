------------------------------ MODULE ScoopServer ------------------------------
(***************************************************************************)
(* The standalone server in `scoop' concurrency mode: the listening        *)
(* processor of HttpdServer and the pool of ScoopPool, joined by the SCOOP *)
(* version of HTTPD_CONNECTION_HANDLER.                                    *)
(*                                                                         *)
(* Exceptions inside `listen' are left to HttpdServer: the rescue clause   *)
(* abandons the pool and creates another one.                              *)
(***************************************************************************)
EXTENDS ScoopPool, Sequences

CONSTANT Stoppers

ASSUME ScoopServerAssumption == Stoppers \subseteq {"controller", "server"}

VARIABLES
  lpc, is_shutdown_requested, requested, shutdown_requested, is_launched,
  is_terminated, created, open, events, cpc, launched, stopper, asked,
  exceptions

S == INSTANCE HttpdServer WITH Async <- TRUE, MaxExceptions <- 0

serverVars == <<lpc, is_shutdown_requested, requested, shutdown_requested,
                is_launched, is_terminated, created, open, events, cpc,
                launched, stopper, asked, exceptions>>
allVars == <<scoopVars, serverVars>>

ServerInit == Init /\ S!Init

\* accept_incoming_connection: waits for a slot, then for a client; the call
\* returns when the handler has been started.
accept_incoming_connection ==
  \/ /\ lpc = "accept"
     /\ accept_connection_on_pool \/ accept_fails
     /\ UNCHANGED serverVars
  \/ S!accept /\ process_handler

shutdown == S!handler_shutdown /\ gracefull_stop

\* Fault: the pool's completion is asked for, not waited for.
wait_for_completion_asks ==
  S!wait_for_connection_handler_completion /\ UNCHANGED scoopVars

wait_for_completion ==
  S!wait_for_connection_handler_completion /\ wait_for_pool_completion

\* The steps of `launch' and `listen' that leave the pool alone.
ListenStep ==
  /\ \/ S!launch
     \/ \E b \in BOOLEAN : S!listen(b)
     \/ S!on_launched
     \/ S!listen_until
     \/ S!update_read
     \/ S!update_write
     \/ S!update_test
     \/ S!listen_end
     \/ S!on_terminated
  /\ UNCHANGED scoopVars

Environment ==
  /\ \/ S!connector_launch
     \/ S!on_server_started
     \/ S!connector_shutdown_server
     \/ S!controller_shutdown
  /\ UNCHANGED scoopVars

Execute(h) == safe_execute(h) /\ UNCHANGED serverVars

Release(h) == release_item(h) /\ UNCHANGED serverVars

Listener == ListenStep \/ accept_incoming_connection \/ shutdown
              \/ wait_for_completion

ServerNext ==
  \/ Listener
  \/ Environment
  \/ \E h \in Handler : Execute(h) \/ Release(h)

ServerSpec == ServerInit /\ [][ServerNext]_allVars

\* Every processor that can run does, and clients keep connecting.  Requests
\* to lock the pool are served in their order, so a handler that wants to be
\* released gets the pool although the listening processor takes it again
\* and again.
FairServerSpec ==
  /\ ServerSpec
  /\ WF_allVars(Listener)
  /\ \A h \in Handler : WF_allVars(Execute(h)) /\ SF_allVars(Release(h))

-----------------------------------------------------------------------------
(* Properties.                                                             *)

\* "Wait until Current completed any pending task.": in SCOOP mode the server
\* ends only when the pool is empty and no handler is at work.
PendingCompleted ==
  lpc \in {"ending", "returning", "terminated"} /\ created > 0
    => count = 0 /\ \A h \in Handler : hpc[h] = "idle"

\* The listening processor is stuck for ever: accept_to ended without a client,
\* and process_handler waits for a connected handler with the pool locked.
Stuck == lock = "connect"

\* A server that was asked to stop ends, unless an accept without a client got
\* it stuck.
ShutdownCompletes ==
  (shutdown_requested /\ is_launched) ~> lpc = "terminated" \/ Stuck

\* A handler at work comes back to the pool, although the pool is locked while
\* the server waits for the next client, unless it is stuck.
HandlerReturns ==
  \A h \in Handler : hpc[h] = "execute" ~> hpc[h] = "idle" \/ Stuck
=============================================================================

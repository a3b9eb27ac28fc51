------------------------------ MODULE HttpdServer ------------------------------
(***************************************************************************)
(* The life of the standalone server: HTTPD_SERVER_I (launch, listen, its  *)
(* rescue clause, shutdown_server), HTTPD_CONTROLLER, the observer, and    *)
(* the WGI_STANDALONE_CONNECTOR that launches the server and asks it to    *)
(* stop.  The connection handler is seen from outside: it is created,      *)
(* accepts, is shut down, completes.  ThreadServer plugs the thread pool   *)
(* into these points.                                                      *)
(*                                                                         *)
(* The listening thread, the connector and another thread that stops the   *)
(* server interleave; every read and every write of a flag that another    *)
(* thread may write is a step of its own.                                  *)
(***************************************************************************)
EXTENDS Naturals, Sequences, SequencesExt

CONSTANTS
  Async,          \* SCOOP: `launch' of the server returns to the connector at
                  \* once; otherwise the connector's thread runs the server
  Stoppers,       \* what another thread may call to stop the server: shutdown
                  \* of the "controller", shutdown_server of the "server"
  MaxExceptions   \* bound: exceptions raised inside `listen'

ASSUME ServerAssumption ==
  /\ Async \in BOOLEAN
  /\ Stoppers \subseteq {"controller", "server"}
  /\ MaxExceptions \in Nat

VARIABLES
  lpc,                     \* where the listening thread is
  is_shutdown_requested,
  requested,               \* the value computed by update_is_shutdown_requested
  shutdown_requested,      \* HTTPD_CONTROLLER.shutdown_requested
  is_launched,
  is_terminated,
  created,                 \* connection handlers created so far
  open,                    \* connection handlers not shut down
  events,                  \* notifications of the observer
  cpc,                     \* the connector: "idle", "launching" or "ready"
  launched,                \* WGI_STANDALONE_CONNECTOR.launched
  stopper,                 \* the other thread that stops the server
  asked,                   \* history: the connector's shutdown_server returned
  exceptions               \* exceptions raised so far

flagVars == <<is_shutdown_requested, requested, shutdown_requested>>
observedVars == <<is_launched, is_terminated, created, open, events>>
connectorVars == <<cpc, launched, stopper, asked>>
serverVars == <<lpc, flagVars, observedVars, connectorVars, exceptions>>

\* Positions of the listening thread.
\*   idle, listen        before and at the entry of `listen'
\*   bound               the handler exists, the socket is about to listen
\*   until, accept       the loop of `listen'
\*   read, write, test   in update_is_shutdown_requested
\*   shutting            in the handler's `shutdown'
\*   completing          in the handler's `wait_for_completion'
\*   ending, returning   after the loop, and back in `launch'
\*   rescue              in the rescue clause
ListenPosition == {"idle", "listen", "bound", "until", "accept", "read",
                   "write", "test", "shutting", "completing", "ending",
                   "returning", "rescue", "terminated"}

Init ==
  /\ lpc = "idle"
  /\ is_shutdown_requested = FALSE
  /\ requested = FALSE
  /\ shutdown_requested = FALSE
  /\ is_launched = FALSE
  /\ is_terminated = FALSE
  /\ created = 0
  /\ open = {}
  /\ events = <<>>
  /\ cpc = "idle"
  /\ launched = FALSE
  /\ stopper = "idle"
  /\ asked = FALSE
  /\ exceptions = 0

-----------------------------------------------------------------------------
(* The listening thread.                                                   *)

\* launch, up to the call of listen.
launch ==
  /\ lpc = "idle"
  /\ cpc = "launching"
  /\ is_terminated' = FALSE
  /\ is_shutdown_requested' = FALSE
  /\ lpc' = "listen"
  /\ UNCHANGED <<requested, shutdown_requested, is_launched, created, open,
                 events, connectorVars, exceptions>>

\* Fault: the controller is reset with the server's own flag.
listen_resets_controller(bound) ==
  /\ lpc = "listen"
  /\ is_terminated' = FALSE
  /\ is_launched' = FALSE
  /\ is_shutdown_requested' = FALSE
  /\ shutdown_requested' = FALSE
  /\ created' = IF bound THEN created + 1 ELSE created
  /\ open' = IF bound THEN open \union {created'} ELSE open
  /\ lpc' = IF bound THEN "bound" ELSE "ending"
  /\ UNCHANGED <<requested, events, connectorVars, exceptions>>

\* listen, from its entry to the creation of the connection handler, or to
\* the end when the socket could not be bound.
listen(bound) ==
  /\ lpc = "listen"
  /\ is_terminated' = FALSE
  /\ is_launched' = FALSE
  /\ is_shutdown_requested' = FALSE
  /\ IF bound
     THEN /\ created' = created + 1
          /\ open' = open \union {created'}
          /\ lpc' = "bound"
     ELSE /\ lpc' = "ending"
          /\ UNCHANGED <<created, open>>
  /\ UNCHANGED <<requested, shutdown_requested, events, connectorVars,
                 exceptions>>

\* l_listening_socket.listen and on_launched.
on_launched ==
  /\ lpc = "bound"
  /\ is_launched' = TRUE
  /\ events' = Append(events, "launched")
  /\ lpc' = "until"
  /\ UNCHANGED <<flagVars, is_terminated, created, open, connectorVars,
                 exceptions>>

listen_until ==
  /\ lpc = "until"
  /\ lpc' = IF is_shutdown_requested THEN "completing" ELSE "accept"
  /\ UNCHANGED <<flagVars, observedVars, connectorVars, exceptions>>

\* The handler's accept_incoming_connection returns, with a connection or not.
accept ==
  /\ lpc = "accept"
  /\ lpc' = "read"
  /\ UNCHANGED <<flagVars, observedVars, connectorVars, exceptions>>

\* update_is_shutdown_requested: the read of both flags, ...
update_read ==
  /\ lpc = "read"
  /\ requested' = (is_shutdown_requested \/ shutdown_requested)
  /\ lpc' = "write"
  /\ UNCHANGED <<is_shutdown_requested, shutdown_requested, observedVars,
                 connectorVars, exceptions>>

\* ... the assignment, ...
update_write ==
  /\ lpc = "write"
  /\ is_shutdown_requested' = requested
  /\ lpc' = "test"
  /\ UNCHANGED <<requested, shutdown_requested, observedVars, connectorVars,
                 exceptions>>

\* ... and the test that leads to the shutdown of the handler.
update_test ==
  /\ lpc = "test"
  /\ lpc' = IF is_shutdown_requested THEN "shutting" ELSE "until"
  /\ UNCHANGED <<flagVars, observedVars, connectorVars, exceptions>>

handler_shutdown ==
  /\ lpc = "shutting"
  /\ open' = open \ {created}
  /\ lpc' = "until"
  /\ UNCHANGED <<flagVars, is_launched, is_terminated, created, events,
                 connectorVars, exceptions>>

wait_for_connection_handler_completion ==
  /\ lpc = "completing"
  /\ lpc' = "ending"
  /\ UNCHANGED <<flagVars, observedVars, connectorVars, exceptions>>

\* Fault: the observer is told of a server that was not launched.
on_stopped_always == events' = Append(events, "stopped")

\* on_stopped: the observer is told; is_launched keeps its value.
on_stopped ==
  events' = IF is_launched THEN Append(events, "stopped") ELSE events

listen_end ==
  /\ lpc = "ending"
  /\ on_stopped
  /\ lpc' = "returning"
  /\ UNCHANGED <<flagVars, is_launched, is_terminated, created, open,
                 connectorVars, exceptions>>

\* launch, after the call of listen.
on_terminated ==
  /\ lpc = "returning"
  /\ is_terminated' = TRUE
  /\ events' = Append(events, "terminated")
  /\ lpc' = "terminated"
  /\ UNCHANGED <<flagVars, is_launched, created, open, connectorVars,
                 exceptions>>

\* An exception inside `listen': the socket cannot listen, the factory or the
\* accept fails, or, after the loop, the wait for completion or the clean up of
\* the socket.
raise ==
  /\ \/ lpc \in {"bound", "accept", "completing"}
     \/ lpc = "ending" /\ is_launched
  /\ exceptions < MaxExceptions
  /\ exceptions' = exceptions + 1
  /\ lpc' = "rescue"
  /\ UNCHANGED <<flagVars, observedVars, connectorVars>>

\* The rescue clause, up to `retry'.
listen_rescue ==
  /\ lpc = "rescue"
  /\ on_stopped
  /\ is_shutdown_requested' = TRUE
  /\ lpc' = "listen"
  /\ UNCHANGED <<requested, shutdown_requested, is_launched, is_terminated,
                 created, open, connectorVars, exceptions>>

\* Everything the listening thread does on its own.
Progress ==
  \/ launch
  \/ \E b \in BOOLEAN : listen(b)
  \/ on_launched
  \/ listen_until
  \/ update_read
  \/ update_write
  \/ update_test
  \/ handler_shutdown
  \/ wait_for_connection_handler_completion
  \/ listen_end
  \/ on_terminated
  \/ listen_rescue

-----------------------------------------------------------------------------
(* The connector and the other threads.                                    *)

\* WGI_STANDALONE_CONNECTOR.launch, up to the call of the server.
connector_launch ==
  /\ cpc = "idle"
  /\ launched' = FALSE
  /\ cpc' = "launching"
  /\ UNCHANGED <<lpc, flagVars, observedVars, stopper, asked, exceptions>>

\* The observer's `started' and `port'.
started == Contains(events, "launched")

port == IF started /\ ~Contains(events, "terminated") THEN 1 ELSE 0

\* WGI_STANDALONE_CONNECTOR.on_server_started; `started' is a wait condition.
on_server_started ==
  /\ cpc = "launching"
  /\ Async \/ lpc = "terminated"
  /\ started
  /\ launched' = (launched \/ port > 0)
  /\ cpc' = "ready"
  /\ UNCHANGED <<lpc, flagVars, observedVars, stopper, asked, exceptions>>

\* WGI_STANDALONE_CONNECTOR.shutdown_server.  Under SCOOP the connector
\* handles it after `launch'; without SCOOP another thread may call it.  The
\* caller knows from the observer that the server was launched.
connector_shutdown_server ==
  /\ started
  /\ Async => cpc = "ready"
  /\ ~asked
  /\ asked' = TRUE
  /\ shutdown_requested' = (shutdown_requested \/ launched)
  /\ UNCHANGED <<lpc, is_shutdown_requested, requested, observedVars, cpc,
                 launched, stopper, exceptions>>

\* HTTPD_SERVER_I.shutdown_server: its own flag, then the controller's; the
\* controller may also be asked directly.
shutdown_server_flag ==
  /\ "server" \in Stoppers
  /\ stopper = "idle"
  /\ is_shutdown_requested' = TRUE
  /\ stopper' = "flagged"
  /\ UNCHANGED <<lpc, requested, shutdown_requested, observedVars, cpc,
                 launched, asked, exceptions>>

controller_shutdown ==
  /\ \/ stopper = "flagged"
     \/ stopper = "idle" /\ "controller" \in Stoppers
  /\ shutdown_requested' = TRUE
  /\ stopper' = "done"
  /\ UNCHANGED <<lpc, is_shutdown_requested, requested, observedVars, cpc,
                 launched, asked, exceptions>>

-----------------------------------------------------------------------------

Next ==
  \/ Progress
  \/ accept
  \/ raise
  \/ connector_launch
  \/ on_server_started
  \/ connector_shutdown_server
  \/ shutdown_server_flag
  \/ controller_shutdown

Spec == Init /\ [][Next]_serverVars

(***************************************************************************)
(* Fairness.  A thread that can run does, and a call of shutdown_server    *)
(* that has begun ends.  accept returns only when a client connects: the   *)
(* listening socket has no timeout, so the last conjunct says that clients *)
(* keep connecting.                                                        *)
(***************************************************************************)
FairSpec ==
  /\ Spec
  /\ WF_serverVars(Progress)
  /\ WF_serverVars(on_server_started)
  /\ WF_serverVars(stopper = "flagged" /\ controller_shutdown)
  /\ WF_serverVars(accept)

-----------------------------------------------------------------------------
(* Properties.                                                             *)

TypeOK ==
  /\ lpc \in ListenPosition
  /\ is_shutdown_requested \in BOOLEAN
  /\ requested \in BOOLEAN
  /\ shutdown_requested \in BOOLEAN
  /\ is_launched \in BOOLEAN
  /\ is_terminated \in BOOLEAN
  /\ created \in Nat
  /\ open \subseteq 1..created
  /\ events \in Seq({"launched", "stopped", "terminated"})
  /\ cpc \in {"idle", "launching", "ready"}
  /\ launched \in BOOLEAN
  /\ stopper \in {"idle", "flagged", "done"}
  /\ asked \in BOOLEAN
  /\ exceptions \in 0..MaxExceptions

\* The observer hears of a consistent life, also across the restarts of the
\* rescue clause and although is_launched is never reset when the server
\* stops: launched and stopped alternate, terminated comes last.
ObserverProtocol ==
  \A i \in DOMAIN events :
    LET before == IF i = 1 THEN "stopped" ELSE events[i - 1] IN
    /\ events[i] = "launched" => before = "stopped"
    /\ events[i] = "stopped" => before = "launched"
    /\ events[i] = "terminated" => before = "stopped" /\ i = Len(events)

\* A shutdown that reached the controller is not lost: not by the assignment
\* in update_is_shutdown_requested, which may overwrite the flag set by
\* shutdown_server, and not by the restart, which resets that flag.
ShutdownHonoured ==
  (shutdown_requested /\ cpc # "idle") ~> lpc = "terminated"
=============================================================================

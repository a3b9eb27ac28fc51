------------------------------ MODULE Connection ------------------------------
(***************************************************************************)
(* One request handler serving connections: HTTPD_REQUEST_HANDLER_I        *)
(* (safe_execute, the keep-alive loop of execute, execute_request,         *)
(* get_request_header, reset, release) and the process_request of          *)
(* WGI_HTTPD_REQUEST_HANDLER with its rescue clause.  The handler is       *)
(* reused for the next connection, as the SCOOP pool does.                 *)
(*                                                                         *)
(* The client sends requests, stays silent, resets or leaves at any time;  *)
(* the application writes what it wants on the response (module Response), *)
(* and may raise an exception at any point.                                *)
(***************************************************************************)
EXTENDS Integers, Response

CONSTANTS
  KeepAliveSettings,  \* the values of max_keep_alive_requests considered
  HeadFallback,       \* does the router serve HEAD with the GET handlers?
  AppHeaders,         \* the header texts the application may put
  MaxRequests,        \* bound: requests a client sends on one connection
  MaxConnections,     \* bound: connections given to the handler
  MaxTokens           \* bound: tokens the application lets a response grow to

ASSUME ConnectionAssumption ==
  /\ KeepAliveSettings \subseteq Nat \cup {-1}
  /\ HeadFallback \in BOOLEAN
  /\ AppHeaders \subseteq HeaderText
  /\ MaxRequests \in Nat /\ MaxConnections \in Nat /\ MaxTokens \in Nat

VARIABLES
  pc,                        \* where the handler is
  max_keep_alive_requests,
  n,                         \* requests begun on this connection
  is_next_persistent_connection_supported,
  is_persistent_connection_requested,
  has_error,
  socket,                    \* client_socket: "void", "open" or "closed"
  remote_info,               \* remote_info /= Void
  version,                   \* "1.0", "1.1" (any other text too) or "void"
  request_header_map,        \* its Connection entry, or "none"
  gone,                      \* the client has closed its side
  created,                   \* process_request: "none", "res", "exec" created
  retried,                   \* process_request was rescued
  sent,                      \* history: the request the client sent last
  status_asked,              \* history: the status the application set last
  connections                \* connections served so far

flagVars == <<is_next_persistent_connection_supported,
              is_persistent_connection_requested, has_error>>
requestVars == <<version, request_header_map, sent>>
linkVars == <<socket, remote_info, gone, connections, max_keep_alive_requests>>
executionVars == <<created, retried, status_asked>>
vars == <<pc, n, flagVars, requestVars, linkVars, executionVars, responseVars>>

\* Positions of the handler.
\*   idle             no connection
\*   request          in the loop of execute, before execute_request
\*   process          at the entry of process_request
\*   app              in exec.execute
\*   push, clean      the calls that follow it
\*   rescue           an exception reached the rescue clause
\*   rescued          exec.clean of the retried body
\*   exit             execute_request returned
\*   release          safe_execute calls release
Position == {"idle", "request", "process", "app", "push", "clean", "rescue",
             "rescued", "exit", "release"}

Version == {"1.0", "1.1"}
ClientConnection == {"none", "keep-alive", "close"}
NoRequest == [version |-> "void", connection |-> "none"]

Init ==
  /\ pc = "idle"
  /\ max_keep_alive_requests \in KeepAliveSettings
  /\ n = 0
  /\ is_next_persistent_connection_supported = FALSE
  /\ is_persistent_connection_requested = FALSE
  /\ has_error = FALSE
  /\ socket = "void"
  /\ remote_info = FALSE
  /\ version = "void"
  /\ request_header_map = "none"
  /\ gone = FALSE
  /\ created = "none"
  /\ retried = FALSE
  /\ sent = NoRequest
  /\ status_asked = Unset
  /\ connections = 0
  /\ ResponseInit

is_http_version_1_0 == version \in {"void", "1.0"}
is_persistent_connection_supported == max_keep_alive_requests # 0

(***************************************************************************)
(* The connection                                                          *)
(***************************************************************************)

\* A connection is accepted on the handler's socket; safe_execute enters
\* execute, which sets the remote information and the loop's variables.
safe_execute ==
  /\ pc = "idle" /\ connections < MaxConnections
  /\ ~has_error
  /\ connections' = connections + 1
  /\ socket' = "open" /\ gone' = FALSE
  /\ remote_info' = TRUE
  /\ n' = 0
  /\ is_next_persistent_connection_supported' = TRUE
  /\ pc' = "request"
  /\ UNCHANGED <<max_keep_alive_requests, is_persistent_connection_requested,
                 has_error, requestVars, executionVars, responseVars>>

\* The client leaves.
client_leaves ==
  /\ socket = "open" /\ ~gone
  /\ gone' = TRUE
  /\ UNCHANGED <<pc, n, flagVars, requestVars, socket, remote_info, connections,
                 max_keep_alive_requests, executionVars, responseVars>>

\* Fault: the limit is noticed one request too late.
begin_request_late ==
  /\ n' = n + 1
  /\ is_next_persistent_connection_supported' =
       IF max_keep_alive_requests >= 0 /\ n >= max_keep_alive_requests
       THEN FALSE ELSE is_next_persistent_connection_supported

\* The head of one iteration of the loop.
begin_request ==
  /\ n' = n + 1
  /\ is_next_persistent_connection_supported' =
       IF max_keep_alive_requests >= 0 /\ n + 1 >= max_keep_alive_requests
       THEN FALSE ELSE is_next_persistent_connection_supported

\* Is a persistent connection requested by these header lines?
wants_persistent(is_1_0, connection) ==
  IF is_1_0 THEN connection = "keep-alive" ELSE connection # "close"

\* get_request_header succeeds.  The Connection entry of the map is replaced
\* when the request has such a header.  A client may leave with requests still
\* to be read.
request_received(v, c) ==
  /\ pc = "request" /\ n < MaxRequests
  /\ begin_request
  /\ sent' = [version |-> v, connection |-> c]
  /\ version' = v
  /\ request_header_map' = IF c = "none" THEN request_header_map ELSE c
  /\ is_persistent_connection_requested' =
       wants_persistent(v = "1.0", request_header_map')
  /\ pc' = "process"
  /\ UNCHANGED <<has_error, linkVars, executionVars, responseVars>>

\* get_request_header reports an error: nothing came before the timeout, the
\* first line is empty or has no method, or the lines stop in the middle.
\* An exception in next_line also closes the socket.
request_failed(line, socket_closed) ==
  /\ pc = "request"
  /\ begin_request
  /\ has_error' = TRUE
  /\ socket' = IF socket_closed THEN "closed" ELSE socket
  /\ version' = line
  /\ is_persistent_connection_requested' = FALSE
  /\ pc' = "exit"
  /\ UNCHANGED <<request_header_map, sent, remote_info, gone, connections,
                 max_keep_alive_requests, executionVars, responseVars>>

(***************************************************************************)
(* process_request                                                         *)
(***************************************************************************)
\* Fault: the response does not know of max_keep_alive_requests.
NewStream_unlimited ==
  stream_make(is_persistent_connection_supported,
              is_persistent_connection_requested, is_http_version_1_0)

NewStream ==
  stream_make(is_persistent_connection_supported
                /\ is_next_persistent_connection_supported,
              is_persistent_connection_requested, is_http_version_1_0)

create_exec ==
  /\ pc = "process"
  /\ make_from_wgi(NewStream)
  /\ created' = "exec" /\ retried' = FALSE /\ status_asked' = "200"
  /\ pc' = "app"
  /\ UNCHANGED <<n, flagVars, requestVars, linkVars>>

\* An exception before `res' exists, or in the creation of the execution
\* before or after its WSF_RESPONSE is made.
create_raises(what, hooked) ==
  /\ pc = "process"
  /\ what = "none" => ~hooked
  /\ stream' = IF what = "none" THEN NoStream
               ELSE [NewStream EXCEPT !.action = hooked]
  /\ wsf' = IF hooked THEN [status |-> "200", target |-> "delayed"] ELSE NoHead
  /\ head' = NoHead /\ header' = <<>> /\ wire' = <<>> /\ output_ok' = TRUE
  /\ created' = what /\ retried' = FALSE /\ status_asked' = "200"
  /\ pc' = "rescue"
  /\ UNCHANGED <<n, flagVars, requestVars, linkVars>>

unchangedByApp == <<n, flagVars, requestVars, linkVars, created, retried>>

\* The router dispatches before any content is written.
app_head ==
  /\ pc = "app" /\ HeadFallback /\ "body" \notin ToSet(wire)
  /\ make_from_response
  /\ status_asked' = IF stream.status = Unset THEN "200" ELSE status_asked
  /\ UNCHANGED <<pc, unchangedByApp>>

app_set_status_code(code) ==
  /\ pc = "app"
  /\ set_status_code(code)
  /\ status_asked' = code
  /\ UNCHANGED <<pc, unchangedByApp>>

app_put_header(text) ==
  /\ pc = "app"
  /\ put_header(text)
  /\ UNCHANGED <<pc, unchangedByApp, status_asked>>

app_write ==
  /\ pc = "app" /\ Len(wire) < MaxTokens
  /\ put_string(gone) \/ put_file_content(gone) \/ flush(gone)
  /\ UNCHANGED <<pc, unchangedByApp, status_asked>>

app_return ==
  /\ pc = "app"
  /\ pc' = "push"
  /\ UNCHANGED <<unchangedByApp, status_asked, responseVars>>

\* An exception in the application, in res.push or in exec.clean.
raise ==
  /\ pc \in {"app", "push", "clean"}
  /\ pc' = "rescue"
  /\ UNCHANGED <<unchangedByApp, status_asked, responseVars>>

res_push ==
  /\ pc = "push"
  /\ push(gone)
  /\ pc' = "clean"
  /\ UNCHANGED <<unchangedByApp, status_asked>>

exec_clean ==
  /\ pc \in {"clean", "rescued"}
  /\ pc' = "exit"
  /\ UNCHANGED <<unchangedByApp, status_asked, responseVars>>

\* The rescue clause and the retried body, up to its exec.clean.
rescue_retry ==
  /\ pc = "rescue" /\ ~retried
  /\ retried' = TRUE
  /\ has_error' = (has_error \/ ~output_ok)
  /\ IF has_error' \/ created = "none"
     THEN UNCHANGED responseVars
     ELSE rescue_execute(gone)
  /\ pc' = IF created = "exec" THEN "rescued" ELSE "exit"
  /\ UNCHANGED <<n, is_next_persistent_connection_supported,
                 is_persistent_connection_requested, requestVars, linkVars,
                 created, status_asked>>

\* `req', `res' and `exec' are locals of process_request.
locals_dropped ==
  /\ created' = "none" /\ retried' = FALSE /\ status_asked' = Unset
  /\ stream' = NoStream /\ wsf' = NoHead /\ head' = NoHead
  /\ header' = <<>> /\ wire' = <<>> /\ output_ok' = TRUE

\* The retried body has something to do: the rescue execution, or exec.clean.
RetryRuns ==
  \/ pc = "rescued"
  \/ pc = "rescue" /\ (created = "exec" \/ (created = "res" /\ ~has_error /\ output_ok))

\* Fault: safe_execute does not rescue.
raise_again_unrescued ==
  /\ RetryRuns
  /\ has_error' = (has_error \/ ~output_ok)
  /\ locals_dropped
  /\ pc' = "dead"
  /\ UNCHANGED <<n, is_next_persistent_connection_supported,
                 is_persistent_connection_requested, requestVars, linkVars>>

\* A second exception, in the retried body: it leaves execute, and
\* safe_execute's own rescue releases the handler.
raise_again ==
  /\ RetryRuns
  /\ has_error' = (has_error \/ ~output_ok)
  /\ locals_dropped
  /\ pc' = "release"
  /\ UNCHANGED <<n, is_next_persistent_connection_supported,
                 is_persistent_connection_requested, requestVars, linkVars>>

(***************************************************************************)
(* The end of an iteration, of the connection                              *)
(***************************************************************************)
l_exit ==
  \/ ~is_persistent_connection_supported
  \/ ~is_next_persistent_connection_supported
  \/ ~is_persistent_connection_requested
  \/ has_error
  \/ socket = "closed"

\* Fault: the remote information is dropped with each request.
reset_request_forgets(reusing) ==
  /\ remote_info' = FALSE
  /\ version' = "void"
  /\ request_header_map' = "none"
  /\ is_persistent_connection_requested' = FALSE

\* Fault: the header map is kept.
reset_request_keeps_map(reusing) ==
  /\ remote_info' = (reusing /\ remote_info)
  /\ version' = "void"
  /\ request_header_map' = request_header_map
  /\ is_persistent_connection_requested' = FALSE

reset_request(reusing) ==
  /\ remote_info' = (reusing /\ remote_info)
  /\ version' = "void"
  /\ request_header_map' = "none"
  /\ is_persistent_connection_requested' = FALSE

end_request ==
  /\ pc = "exit"
  /\ reset_request(~l_exit)
  /\ socket' = IF l_exit /\ has_error THEN "closed" ELSE socket
  /\ locals_dropped
  /\ pc' = IF l_exit THEN "release" ELSE "request"
  /\ UNCHANGED <<n, is_next_persistent_connection_supported, has_error, sent,
                 gone, connections, max_keep_alive_requests>>

release ==
  /\ pc = "release"
  /\ reset_request(FALSE)
  /\ has_error' = FALSE
  /\ socket' = "void"
  /\ pc' = "idle"
  /\ UNCHANGED <<n, is_next_persistent_connection_supported, sent, gone,
                 connections, max_keep_alive_requests, executionVars,
                 responseVars>>

Application ==
  \/ app_head
  \/ \E code \in Status : app_set_status_code(code)
  \/ \E text \in AppHeaders : app_put_header(text)
  \/ app_write

Handler ==
  \/ \E v \in Version, c \in ClientConnection : request_received(v, c)
  \/ \E line \in Version \cup {"void"}, b \in BOOLEAN : request_failed(line, b)
  \/ create_exec
  \/ \E what \in {"none", "res"}, b \in BOOLEAN : create_raises(what, b)
  \/ app_return \/ raise \/ res_push \/ exec_clean
  \/ rescue_retry \/ raise_again
  \/ end_request \/ release

Next == safe_execute \/ client_leaves \/ Application \/ Handler

\* The handler's own steps are those of one sequential process, and the
\* application's execution is assumed to end.  A client may stay connected,
\* but reads time out, so the handler never waits for it.
FairSpec == Init /\ [][Next]_vars /\ WF_vars(Handler)
Spec == Init /\ [][Next]_vars

-------------------------------------------------------------------------------
(***************************************************************************)
(* Properties                                                              *)
(***************************************************************************)
Blank(w) == \E i \in 1 .. Len(w) : w[i] = "blank"

\* The lines of the header a client reads: up to the first empty line.
HeaderSeen(w) ==
  {w[i] : i \in {j \in 1 .. Len(w) : \A k \in 1 .. j : w[k] # "blank"}}

\* Does the client expect the connection to stay open after this response?
ClientKeeps ==
  IF sent.version = "1.0" THEN "keep-alive" \in HeaderSeen(wire)
  ELSE "close" \notin HeaderSeen(wire)

TypeOK ==
  /\ pc \in Position
  /\ max_keep_alive_requests \in KeepAliveSettings
  /\ n \in Nat
  /\ {has_error, remote_info, gone, retried, output_ok,
      is_next_persistent_connection_supported,
      is_persistent_connection_requested} \subseteq BOOLEAN
  /\ socket \in {"void", "open", "closed"}
  /\ version \in Version \cup {"void"}
  /\ request_header_map \in ClientConnection
  /\ created \in {"none", "res", "exec"}
  /\ wire \in Seq(Status \cup ConnectionLine \cup {"line", "blank", "body", "trace"})

\* Every iteration of the loop of `execute' meets the precondition of
\* execute_request: connected, no pending error, the remote information
\* known, and a reused connection only where reuse is supported.
ExecuteRequestContract ==
  pc = "request" =>
    /\ socket = "open"
    /\ ~has_error
    /\ remote_info
    /\ n > 0 => is_persistent_connection_supported

\* No more requests are served on a connection than max_keep_alive_requests
\* allows (one, when keep-alive is disabled).
RequestLimit ==
  max_keep_alive_requests >= 0 =>
    n <= IF max_keep_alive_requests = 0 THEN 1 ELSE max_keep_alive_requests

\* Whether the connection persists is decided by the request being served,
\* never by a header left from an earlier request or connection.
DecidedByThisRequest ==
  pc \in {"process", "app", "push", "clean"} =>
    is_persistent_connection_requested
      = wants_persistent(sent.version = "1.0", sent.connection)

\* When neither the application chose a Connection header nor anything went
\* wrong, the client and the server agree on what happens to the connection:
\* the header sent by put_header_text, computed before the request executes,
\* says what the loop of `execute' decides after it.
KeepAliveAgreement ==
  (/\ pc = "exit" /\ ~has_error /\ ~retried /\ created = "exec"
   /\ \A c \in ConnectionLine : c \notin ToSet(header)) =>
  (ClientKeeps <=> ~l_exit)

\* A status, header lines, the empty line that ends them, and then content only.
WellFormed(w) ==
  \E e \in 2 .. Len(w) :
    /\ w[1] \in Status
    /\ \A i \in 2 .. e - 1 : w[i] \in {"line"} \cup ConnectionLine
    /\ w[e] = "blank"
    /\ \A i \in e + 1 .. Len(w) : w[i] \in {"body", "trace"}

\* What the rescue writes when nothing was sent: its header text ends the header
\* itself, so what put_header_text adds is already content for the client.
RescueWire ==
  {<<"500", "line", "blank", "blank", "trace">>,
   <<"500", "line", "blank", "close", "blank", "trace">>,
   <<"500", "line", "blank", "keep-alive", "blank", "trace">>}

\* A response is one status, then one header with its empty line, then content
\* only: nothing is written before the status, and no part of it is ever sent
\* twice, even when the execution is rescued in the middle of a response.  The
\* one other form is that of a rescue that sends its own header.
ResponseOrder ==
  wire # <<>> => WellFormed(wire) \/ (retried /\ wire \in RescueWire)

\* "It should not contain the ending CR LF CR LF since it is the duty of
\* put_header_text to write it": a response has one empty line behind its header.
HeaderEndsOnce ==
  \A i, j \in 1 .. Len(wire) : wire[i] = "blank" /\ wire[j] = "blank" => i = j

\* A connection goes on to its next request only after the request before it
\* was answered (unless no response object could be made for it).
AnsweredBeforeReuse ==
  (pc = "exit" /\ ~has_error /\ created # "none") =>
    stream.header_committed /\ Blank(wire)

\* A response that went through without an exception.
Undisturbed ==
  pc = "exit" /\ ~retried /\ created = "exec" /\ ~has_error /\ wire # <<>>

\* The status the client gets is the last one the application set, although
\* the delayed header reads it only when the first content is written.
StatusSent == Undisturbed /\ head = NoHead => wire[1] = status_asked

\* Once the client has left, the handler is released for another connection.
HandlerFreed == gone /\ pc # "idle" ~> pc = "idle"
===============================================================================

# A TLA+ model of the Eiffel Web Framework

EWF is a library for writing web applications in Eiffel. An application runs
behind a *connector*; the one modelled here is the *standalone* connector, which
contains its own HTTP server (`library/server/httpd`). On top of the connector,
WSF gives the application request and response objects, a router, filters and
sessions. This directory models the parts of EWF in which processes, exceptions
and long sequences of calls meet: the server's life, its two pools, the keep-alive
loop of a connection, the layers of a response, web sockets, sessions kept in
files, and the page of the JavaScript widget library with its callbacks.

Paths below are relative to `library/server/` unless they start with `library/`.

## Inventory

| Part | State | Operations | What makes it hard | Correct when |
|---|---|---|---|---|
| Thread pool `httpd/concurrency/thread/pool` | work queue, semaphore, `is_over`, `terminated_count`, position and work of each thread | `add_work`, `get_work`, `terminate`, `wait_for_completion`, loop of `POOLED_THREAD` | three mutexes that are never held together, a semaphore posted only up to the capacity | each work runs once, in order; no thread sleeps beside an item; `terminate` joins the threads |
| SCOOP handler pool `httpd/concurrency/scoop/pool` | `items`, `busy_items`, `count`, `stop_requested` | `separate_item`, `release_item`, `gracefull_stop`, `terminate` | the pool's processor is locked across a blocking accept; wait conditions | count and flags exact; every handler at work is known; completion means quiet |
| Server life `httpd/httpd_server_i.e`, controller, observer, `wgi_standalone_connector.e` | `is_shutdown_requested`, the controller's flag, `is_launched`, `is_terminated`, `launched` | `launch`, `listen` and its rescue clause, `shutdown_server`, `on_*` | flags written by several threads without a lock; retry after an exception | a shutdown is not lost; the observer hears a consistent life |
| Connection handlers `httpd/concurrency/{thread,scoop,none}` | the pool, their own shutdown flag | `accept_incoming_connection`, `shutdown`, `wait_for_completion` | the order of stop, join and wait | accepted connections are served; a stopped server is quiet and ends |
| Request handler `httpd/httpd_request_handler_i.e`, `wgi_httpd_request_handler.e` | socket, counter, flags of the request and of the connection | `safe_execute`, `execute`, `execute_request`, `get_request_header`, `process_request`, `release` | clients that leave, timeouts, exceptions in the application and in the rescue itself; reuse of the handler | one response per request; client and server agree on keep-alive; the handler is always freed |
| Response layers (WGI stream, delayed header, `WSF_RESPONSE`, HEAD wrapper, rescue response) | status, header, hook on commit, what was sent | `set_status_code`, `put_header*`, `put_*`, `flush`, `push`, rescue | header delayed until the first content, two objects over one stream | status, header, content in this order, each once |
| Router, filters, policy-driven handlers | mappings, session of a dispatch | `dispatch`, `try`, `execute_next` | order of matching, HEAD from GET | first match wins; HEAD mirrors GET |
| Sessions `wsf/session` | session files; id, data, `is_pending`, `is_destroyed` of each request's session | `make`, `load`, `build`, `commit`, `destroy`, `apply_to`; `session_data`, `save_session`, `delete_session` | files shared by concurrent requests without a lock, truncated before they are written; failed stores and deletes, crashes | what is committed is kept; a destroyed session stays gone; no file stays damaged; requests get past a damaged one |
| Web sockets, server `wsf/connector/standalone_websocket`, `library/network/websocket/protocol` | frame being assembled, injected control frames, bytes read | `open_ws_handshake`, `wait_for_input`, `next_frame`, `on_event`, `send` | fragmentation, control frames between fragments, characters split across fragments, short reads, a stream that ends anywhere | messages whole and in order; pings answered; one close, whatever ends the connection |
| JavaScript widgets `draft/library/server/wsf_js_widget` | browser: `state`, `fullstate`, elements, controls, `loaded`; server: nothing between two callbacks | `lazy_load`, `cachedAsset`, `once`, `run_trigger_callback`, `update`; `WSF_PAGE_CONTROL.execute`, `add_control_from_tag`, `execute_pending_removes` | callbacks overlap, overtake each other, get lost; scripts come late or never; an update may raise half-way | the page shows the server's items and sends back what its handlers heard; events attached once, when the scripts are there |
| Input streams | chunk being read, trailer | `read_string`, `read_chunk` | short reads | decodes to the content sent |
| Web sockets, client `library/network/websocket/client` | ready state, frames | callbacks of the client | as on the server | as on the server |
| HTTP client, MIME handlers, HTTP protocol library, encoders, forms, proxy, security libraries, other connectors | mostly none | functions on text, I/O | | |

Interaction. `WGI_STANDALONE_CONNECTOR.launch` calls `HTTPD_SERVER_I.launch`
(asynchronously under SCOOP). `listen` creates a connection handler and lets it
accept connections one by one; the handler gives each to its pool. A thread or a
SCOOP processor runs `safe_execute` of a request handler, whose loop reads
requests and calls `process_request`, which creates the application's execution
with a request and a response. The observer is called by the server and read by
the connector; the controller is written by whoever stops the server and read by
`listen`. An execution that inherits `WSF_WEBSOCKET_EXECUTION` turns the connection
into a web socket and keeps the thread until it is closed. Sessions are objects of
one request; the requests meet in the session files. A widget page posts its whole
state with each callback, and the server answers with the changes.

`PROJECT.json` lists every part with its status, and the hazards line by line.

## Modules

| Module | Models | Built on |
|---|---|---|
| `WorkQueue` | what a pool promises: a FIFO of works, each started once on a free runner, closed only when nothing runs | |
| `ThreadPool` | `THREAD_POOL`, `POOLED_THREAD` | refines `WorkQueue` |
| `ScoopPool` | `CONCURRENT_POOL`, its items, the SCOOP connection handler's use of it | |
| `HttpdServer` | `HTTPD_SERVER_I`, `HTTPD_CONTROLLER`, observer, connector | |
| `ThreadServer` | the server in thread mode | `HttpdServer` + `ThreadPool` |
| `ScoopServer` | the server in SCOOP mode (`ServerSpec`) | instantiates `HttpdServer`, extends `ScoopPool` |
| `Response` | the layers of one response | |
| `Connection` | the request handler and its connections | extends `Response` |
| `WebSocket` | one web socket: `WSF_WEBSOCKET_EXECUTION`, `WEB_SOCKET`, `WEB_SOCKET_HANDLER`, `WEB_SOCKET_FRAME`, `WEB_SOCKET_EVENT_I` | |
| `Session` | `WSF_COOKIE_SESSION`, `WSF_FS_SESSION_MANAGER`, concurrent requests and the files | |
| `WidgetPage` | `widget.js` (loader, controls, callbacks, `WSF_DYNAMIC_MULTI_CONTROL`) and its server side | |
| `ThreadPoolProofs`, `HttpdServerProofs`, `ConnectionProofs`, `WebSocketProofs`, `SessionProofs`, `WidgetPageProofs` | theorems about the module they are named after (`ConnectionProofs` also about `Response`) | extend that module |
| `ScoopProofs` | theorems about the SCOOP pool and its server | extends `ScoopServer`, instantiates `HttpdServerProofs` |
| `ThreadServerProofs` | theorems about the composition | instantiates `ThreadPoolProofs` and `HttpdServerProofs` |
| `MC*` | instances for TLC | |

**Correspondence with the code.** Variables and actions have the names of the
code. In `ThreadPool` every critical section is one action, because nothing is
shared outside the mutexes: `get_work` is two (`over` under `over_mutex`, the queue
under `work_queue_mutex`), `terminate` is the assignment of `is_over`, then one
post or the exit test per turn. `wait_for_completion` is its last, successful poll.
In `HttpdServer` the flags have no lock, so the read, the write and the test of
`update_is_shutdown_requested` are three actions, interleaved with
`shutdown_server` and the controller's `shutdown`. In `ScoopPool` a routine with a
separate argument holds that processor: `lock` says who has the pool, a wait
condition is a guard. `Connection` is one sequential handler with a client that
may leave between any two steps and an application that may do anything the
`WSF_RESPONSE` interface allows. The application, `res.push` and `exec.clean` may
raise, and so may the retried body of `process_request`, whose exception leaves
`execute`.
In `WebSocket` a turn of the loop of `next_frame` is one action, since a turn either
gets a whole fragment or ends the connection; `HeadOf`, `Fragment` and `Turn` are its
three parts. `next_bytes_short` is the read that makes `next_bytes` run past its
request. In `Session` every access to the file system is one action, because only
the files are shared. In `WidgetPage` every handler of the browser is one action,
and so is the whole of `execute` on the server, which keeps no state; an element and
its control object are known by the id and the how manieth under it they are.

**Abstractions.** Works, handlers and connections are identities. Texts are left
out except what decides something: the version and the Connection header of a
request, the Connection lines of a response header *and their place in the text*
(`put_header_text` looks for a line feed before "Connection:", so it does not find
one in the first line), and the empty line that ends a header. What a response
writes is a sequence of tokens in which the content is one token per call. A byte of
a web socket payload is one of three classes (alone, leading, trailing), enough for
a character to be split anywhere, and a length is the class of its encoding. The
entries of a session are a set. The state of a widget is its tag and whether a
change of it was heard; beside it the element knows whether the user edited it; the items are a set, since their order shows only on the page. Logging
and configuration values are left out. Time is left out: a timeout is an outcome
the environment may choose.

Definitions marked `Fault:` are variants of a definition with one mistake; they
take no part in the specifications. Each property is shown to notice one of them,
as listed in `PROJECT.json`. `TypeOK` of a module says what its variables hold; only
that of the thread pool is among the runs' properties, for its counter.

## Runs

Passing runs:

| Run | Module / config | Question | Bounds |
|---|---|---|---|
| `pool` | `MCThreadPool` | is the pool a FIFO work queue in which every work runs once and no wakeup is lost; are works served; are the threads joined when `terminate` returns? | 2 threads, 3 works, 3 surplus posts |
| `server` | `MCHttpdServer` | is the life heard by the observer consistent, and no shutdown lost, across exceptions and with unsynchronized stoppers? | 2 exceptions, both ways to stop |
| `threads` | `MCThreadServer` | does a shutdown reach the threads; is a stopped server quiet? | 2 threads, 3 connections, stopped through the controller |
| `scoop` | `MCScoopServer` | are the pool's count, flags and items exact; does the server end, only when quiet; do handlers come back? | 4 handlers, failing accepts, stopped through the controller or the connector |
| `connection` | `MCConnection` | keep-alive, one response per request, no stale state; is the handler freed once the client has left? | 2 connections, 3 requests each, limits -1, 0, 1, 2, every place of a Connection line, HEAD served by GET handlers |
| `websocket` | `MCWebSocket` | are messages reassembled whole and in order, pings answered, texts well formed; does every end close once and free the thread? | 3 frames out of 18, 2 unread, one `on_timer` |
| `session` | `MCSession` | is what was committed kept, a damaged file overcome, no unknown id adopted, every request answered? | 2 requests, 1 item, 3 ids, one failed store, failed delete or crash |
| `widgets` | `MCWidgetPage` | does the page show the items, send back what its handlers heard, attach events once and eventually? | 3 kinds of items (no script, one, two stages that begin with the same script), 2 ids, 2 elements under each, 4 callbacks |

The bounds are large enough for the cases that matter: three works on two threads
reach the branch of `add_work` that does not post and the threads that fetch
without a post; two exceptions reach a restart of a restarted server; four
handlers reach a full pool with releases out of order; three requests go one
beyond the largest limit considered, and two connections show what a reused
handler keeps. `SemLimit` bounds the surplus posts of `terminate`, which only
repeat; `MaxRequests`, `MaxConnections` and `MaxTokens` bound what clients and
applications do. Three frames are a fragmented message with a control frame between
its fragments, and a second fragment that completes a split character. Two requests
are enough for each loss the session files allow (a read between truncation and
store, a delete between test and open), and a third id lets both build a session.
Four callbacks and two elements under each id reach an id given to a second item, two adds under
way at once, and answers applied in the wrong order. No symmetry is used, since the runs check liveness too.

An accept that fails leaves `process_handler` waiting for ever with the pool locked
(`Stuck`): the pool's invariants hold in that state too, and the liveness properties
of `scoop` say what holds as long as it is not reached.

What the properties leave out, and why, is stated with them. `HeardIsSent` is about
what the change handlers heard: an edit made before the handler is there, or in the
CodeMirror editor of a codeview, is shown but not sent (see the observations).
`ItemsShown` leaves out callbacks that overlap, that remove two items, and updates
that are aborted; `SessionKept` leaves out sessions used by two requests at once or
hit by a fault. `StoppedServerIsQuiet` and `PendingCompleted` are about servers that are
stopped through the controller or the connector. `ResponseOrder` allows one form that
is not a well-formed response, the rescue's own header, which `rescue_header` shows.

Runs that show a disagreement between the code and what is said of it:

| Run | Said | Done |
|---|---|---|
| `threads_hang` | `wait_for_completion`: "Wait until there is no more work to be completed" | the terminated pool leaves queued work in the queue; the wait never ends |
| `rescue_header` | `put_header_text`: "It should not contain the ending CR LF CR LF since it is the duty of `put_header_text' to write it." | the rescue's header text does; the Connection line and a second empty line follow the end of the header |
| `websocket_text` | `check is_valid_utf_8` before `on_text` | an empty last fragment, or a stream that ends between fragments, skips the check of the whole text |
| `widgets_removes` | invariant `all_items_exist: items.count = controls.count` | `found` is not reset between two removals; the second control stays |

### Observations

What reading the code beside the model showed, without a run of its own.

*Server.* Outside SCOOP, `WGI_STANDALONE_CONNECTOR.launch` returns, and `launched` may
become True, only after the server has ended, so the connector's `shutdown_server`
("Shutdown web server listening.") does nothing while the server runs. A flag set by
`shutdown_server` between the test in `update_is_shutdown_requested` and the exit test
of the loop skips the handler's shutdown, and in thread mode the server ends while a
thread serves, although `wait_for_completion` is to "Wait until Current completed any
pending task." The rescue clause of `listen` logs "Please relaunch manually." and then
listens again.

*Responses.* The HEAD wrapper has a status of its own that is never sent (the client
gets 200), and it does not redefine `put_file_content`, so a HEAD request served by
a GET handler that sends a file gets the content. The rescue response ends its header
itself, so the "Connection: close" line of `put_header_text` and a second empty line land
in the body (run `rescue_header`); they are not in its Content-Length, so on a connection
that is kept open the end of the trace is left for the next response. The preconditions
of `put_header_text` compare three characters with two and five with four, so they notice
nothing. Without a trace (`e.trace` Void) the rescue writes nothing at all; the model
always has one.

*Web sockets.* After a short read `next_bytes` (`web_socket.e:641`) asks for all its
bytes again; if it gets more than were missing, its counter becomes negative and it
reads until the stream ends. A control frame between fragments is accepted although
its FIN bit is not set (`make_as_injected_control` takes it as True). An injected close
replaces the message, and pings injected before it are not answered. When the web
socket ends, `process_request` returns to the keep-alive loop of the connection. Callbacks of the
application that raise are not modelled: the exception leaves the loop and reaches the
rescue clause of `process_request`, as any exception of an application does.

*Sessions.* Two overlapping requests may lose more than an update: the one that loads
between the other's `create_read_write` and `general_store` finds no object, starts
empty, and saves that. A request that holds a session another one destroys brings it
back with its commit. A session that vanishes between `make` and `load` is built anew
without `is_pending`. A file deleted before `open_read` fails the request, since
`session_data` and `load` have rescue clauses without retry. A failed store is not
reported to the application, nor is a failed delete: the file of the destroyed session
stays, and a request that still has the cookie loads it.

*Widgets.* `fullstate.controls` is never pruned: a new item under the id of a removed
one is given the state of the removed one. An element can be edited as soon as it is
appended, but `state['text']` follows only once `attach_events` has run and a change
fires; what is edited before and not changed again is never sent. CodeMirror neither
saves to the textarea nor fires its change event, so the edits of a codeview are never
sent at all. `execute_pending_removes` removes items from a list cursor on: of the ids
2 and 1, in this order, the second item stays. Two adds under way at once get the same
id, and one item is lost. The loader keeps a failed script in `loaded` and never asks
again. `WSF_CODEVIEW_CONTROL` replaces the `initialize` wrapped in `once` and attaches
another editor at every update, of which its `remove` takes away the last only (the
wrappers of the others, outside what the model calls the page, stay); removing it before its editor is there raises, and the
update is dropped half-way. A control removed while its scripts load is attached
after its removal. The file control keeps `uploading` after a failed upload.

Deadlock is not checked: every instance may stop, because works, connections and
exceptions run out and servers end.

**Fairness.** Every thread or processor that can run eventually does (weak
fairness of each thread's steps); an application's execution ends, because it is
`safe_execute`, whose reads time out and whose exceptions are rescued. In the
server modules clients keep connecting: the listening socket has no timeout, and
without a further client no shutdown is ever noticed. In `ScoopServer` the release
of a handler has strong fairness: SCOOP serves requests for a processor in their
order, so the listening processor cannot take the pool before the releaser for
ever. A web socket's thread runs (weak fairness of the server's steps); its client
need not send nor leave, and `next_frame_rescue` and short reads may or may not happen.
In `Session` the steps of a request are fair, and `apply_to` strongly so: an application
that has its session may go on changing it, but answers in the end. In `WidgetPage` a
script comes or fails, because `cachedAsset` sets a timer of 7.5 s; answers to callbacks
need not come. Nothing obliges anyone to stop a server, to add work, or a client to leave.

## Proofs

Checked by TLAPS for every value of the constants. All invariants and the action
property that the passing runs check are proved, and the refinement of `WorkQueue`.

*Thread pool* (`ThreadPoolProofs`; assumption: finitely many threads, `NoWork` is
no work). First the counting invariant: types, `LiveCount` (`terminated_count`
is the number of threads that have not ended), `OverPhase` (threads leave only
when the pool is over) and `TerminateJoins`; `TerminateJoins` alone is not
inductive, since the return of `terminate` only sees the counter. From it follow
`TypeCorrect` and `TerminateJoinsThreads`. `EachWorkOnce` is inductive relative to
it (`WorkIsRunOnce`). `NoLostWakeup` is inductive too (`NoWakeupIsLost`): it is a
disjunction, because posts are skipped when many items wait, and the proof
follows the cardinalities of the idle and of the fetching threads through each
step. `PoolIsWorkQueue` shows that every step of the pool is a step of
`WorkQueue` or a stutter under the mapping given in `ThreadPool`.

*SCOOP pool* (`ScoopProofs`; assumption: a capacity of at least 1). One
inductive invariant `IndInv`: the properties checked by the run, plus `LockCurrent`
(the handler in hand and the lock go together), `MadeExact` (handlers made are the
ones in slots: needed to see that an empty free slot means another handler may be
made) and `FreshForAccept`. *Server in SCOOP mode* (same module): `ScoopServerUsesPool`
and `ScoopServerImplementsLifeCycle` show that every step of the server is a step of
the pool, and of `HttpdServer`, or leaves it alone, which brings in what is proved of
them (`ScoopComponentsKeepTheirPromises`); `ScoopPendingCompleted` adds `CompletedAtEnd`: `listen` ends after
`wait_for_completion`, or before any pool was made, and a completed pool stays so.

*Server life* (`HttpdServerProofs`; any number of exceptions, both concurrency
modes, any stopper). `ObserverProtocol` looks back at the last event, so the
invariant must know what that was: `Heard` gives, for each position of the
listening thread, the last event and the value of `is_launched` where `on_stopped`
reads it. It is the reason why a flag that is never reset when the server stops
does no harm.

*Server in thread mode* (`ThreadServerProofs`; the assumptions of its components).
`ServerUsesPool` and `ServerImplementsLifeCycle` show, action by action, that the
composition is a behaviour of `ThreadPool` and of `HttpdServer`; what is proved of
those then holds in it (`ComponentsKeepTheirPromises`). `StoppedServerHasJoined`
adds `JoinedWhenStopped`, which uses the count of live threads of the pool. It is
proved for a server stopped through its controller (`"server" \notin Stoppers`): a
`shutdown_server` on the server object can set the flag just before the exit test,
and the property is then false (see the observations).

*Connection and response* (`ConnectionProofs`; assumption: settings are at least -1,
the bounds are naturals). Two invariants. `Loop` is about the handler: between
requests nothing of the last one is left, the request being served is the one in
the attributes, and the count was compared with the limit when the request began.
It gives `RequestsMeetContract`, `RequestsWithinLimit` and
`PersistenceDecidedByRequest`. `Responses` is about what is written: the wire has a
status, a header and its one empty line exactly when the stream says it is committed,
or what the rescue writes (`RescueSent`); a response object
writes to the stream directly only after that; the stream was told what the loop
will decide (`MadeByExec`); and without an exception what was sent is what was asked
(`Faithful`). Lemmas say what each layer (`put`, `put_header_text`, `process_header`,
`put_string`, `flush`, `push`, the rescue) does to stream and wire, for any state
of the invariant, and the steps cite them. From both follow `ClientAndServerAgree`,
`ResponsesAreOrdered`, `ReuseAfterAnswer` and `AskedStatusIsSent`.

*Sessions* (`SessionProofs`; finitely many requests, an id for each and one more, any
number of items and faults). `Base` is types, `Known` (no file and no request has an id that
was not given out or that a client invented) and `Untouched`. `TornIsTransient` and
`FailsOnlyIfVanished` are inductive relative to it, the second through
`MissingVanished`. `DeadStaysDead` is the action property, from `Base` alone.
`CommittedSessionIsKept` needs `KeptAll`: an undisturbed session has at most one
user, and where this user is determines what the file and the data in memory hold.

*Web sockets* (`WebSocketProofs`; any set of frames and any number of them, where a frame with
an extended length has a payload).
`CloseHandshake` and `TextNeverMalformed` are inductive with the types and
`Reading`, which says what the frame being assembled may be at each position.
`EveryPingIsAnswered` and `DeliversInOrder` compare with what the client sent, by
recursive functions over the frames: `Answering` says that the pongs sent and the
pings still injected in the frame are the pings read; `Delivering` that the messages
delivered and the frame in assembly are what the reference definition gathers from
the frames read. How these functions grow by one frame is proved by expanding their
definition at one index; what holds for a whole sequence of frames is proved from
the least counterexample, a set of naturals (`NatMin`, `SetInduction`), since an
induction theorem with an operator parameter cannot be used here.

*Widget page* (`WidgetPageProofs`; any tags, scripts, stages and bounds).
`AllReady` says of each control that it attached only with all its scripts there
(what is loaded stays loaded) and, unless it is a codeview, that it attached or
still waits to attach once at most, and only after its `initialize` ran. `Saved` says what `fullstate.controls` holds for an id that was used
once, and, for an id that was reused, that no change heard is lost; `Early`, that an answer
brings no edit for an id that never was shown. `Settled` describes the one callback under way as long as callbacks do not
overlap: a request carries the items shown, an answer keeps those it does not remove;
`ItemsShown` alone is not inductive without it. Each was model-checked on the
instance of the run before it was proved.

*Only model-checked*: the liveness properties (`QueuedIsServed`, `ShutdownHonoured`,
`ShutdownReachesThreads`, `ShutdownCompletes`, `HandlerReturns`, `HandlerFreed`,
`GoneThenDone`, `MessageDelivered`, `Answered`, `EventuallyAttached`), which rest on
fairness and so on `ENABLED`, out of the prover's reach; and the four violations, whose evidence is a
behaviour.

## Not modelled, and the plan

Not modelled: text processing (headers, URIs, forms, MIME, encoders, tokens),
sockets and TLS, the wrappers of C code (libFCGI, libcurl), and the vendored scripts
(jQuery, CodeMirror, Bootstrap) that EWF's pages load. An update of the controls inside an
item (`process_update` of sub-controls) is left out. Of `widget.js`, the controls
that only add a state field and a callback of the kind modelled (form elements and
their validators, autocompletion, upload, pagination, grid) are left out.

Done: thread pool, SCOOP pool, server life, both compositions, connection and
response, web sockets, sessions, the widget page, theorems on each of them. Next, in this order:

1. A theorem on what is still true of a server in thread mode that is stopped by
   `shutdown_server` on the server object.
2. `none` mode as a third composition of `HttpdServer`; the composition of
   `Connection` with the pools and with `WebSocket`.
3. `Router`: matching, methods, HEAD and OPTIONS; filters; conditional requests of
   the policy-driven handlers as operators against a reference definition.
4. `ChunkedInput`: the decoder against a reference over bounded inputs; the error
   handler's propagation; the upload of the file control.

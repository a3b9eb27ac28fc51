------------------------------- MODULE Response -------------------------------
(***************************************************************************)
(* The response of one request, through its layers: the stream that writes *)
(* on the socket (WGI_STANDALONE_RESPONSE_STREAM), the filter that delays  *)
(* the header until the first byte of content                              *)
(* (WSF_WGI_DELAYED_HEADER_RESPONSE), the WSF_RESPONSE of the application, *)
(* and the WSF_HEAD_RESPONSE_WRAPPER with which the router answers HEAD    *)
(* from a GET handler.                                                     *)
(*                                                                         *)
(* What is written is a sequence of tokens: a status, header lines, the    *)
(* empty line that ends a header, and pieces of content.  Of the header    *)
(* lines only the Connection lines are told apart.  Connection drives      *)
(* these operations.                                                       *)
(***************************************************************************)
EXTENDS Naturals, Sequences, SequencesExt

VARIABLES
  stream,   \* WGI_STANDALONE_RESPONSE_STREAM: its settings, status, header
            \* committed?, and whether post_commit_action is set
  wsf,      \* WSF_RESPONSE: status_code, and its wgi_response (the delayed
            \* filter, or the stream itself)
  head,     \* the WSF_HEAD_RESPONSE_WRAPPER, or NoHead
  header,   \* internal_header, shared by `wsf' and `head'
  wire,     \* what this response has written
  output_ok \* last_target_call_succeed of the output stream

responseVars == <<stream, wsf, head, header, wire, output_ok>>

ConnectionLine == {"keep-alive", "close", "upgrade"}
Status == {"200", "404", "500"}
Unset == "unset"
NoHead == [status |-> Unset, target |-> "none"]

\* Header texts of the application.  put_header_text looks for a Connection
\* line behind a newline, so its place in the text matters.
HeaderText ==
  {<<"line">>} \cup
  UNION {{<<"line", c>>, <<c>>} : c \in {"keep-alive", "close", "upgrade"}}

\* put_header_text of WGI_RESCUE_EXECUTION: the text it gives ends the header.
RescueHeaderText == <<"line", "blank">>

NoStream == [supported |-> FALSE, requested |-> FALSE, is_1_0 |-> FALSE,
             status |-> Unset, header_committed |-> FALSE, action |-> FALSE]

ResponseInit ==
  /\ stream = NoStream
  /\ wsf = NoHead
  /\ head = NoHead
  /\ header = <<>>
  /\ wire = <<>>
  /\ output_ok = TRUE

\* create res.make, its settings, and WSF_RESPONSE.make_from_wgi: the delayed
\* filter hooks its commit to the stream's post_commit_action.
stream_make(supported, requested, is_1_0) ==
  [NoStream EXCEPT !.supported = supported,
                   !.requested = requested, !.is_1_0 = is_1_0]

make_from_wgi(s) ==
  /\ stream' = [s EXCEPT !.action = TRUE]
  /\ wsf' = [status |-> "200", target |-> "delayed"]
  /\ head' = NoHead
  /\ header' = <<>>
  /\ wire' = <<>>
  /\ output_ok' = TRUE

\* The header text as put_header_text writes it.
found(text) == \E i \in 2 .. Len(text) : text[i] \in ConnectionLine

first_connection(text) ==
  CHOOSE i \in 2 .. Len(text) :
    /\ text[i] \in ConnectionLine
    /\ \A j \in 2 .. i - 1 : text[j] \notin ConnectionLine

with_connection(s, text) ==
  CASE s.supported /\ s.requested ->
         IF s.is_1_0 /\ ~found(text) THEN Append(text, "keep-alive") ELSE text
    [] s.supported /\ ~s.requested ->
         IF ~s.is_1_0 /\ ~found(text) THEN Append(text, "close") ELSE text
    [] ~s.supported /\ found(text) ->
         IF text[first_connection(text)] = "keep-alive"
         THEN ReplaceAt(text, first_connection(text), "close")
         ELSE text
    [] OTHER ->
         IF ~s.is_1_0 \/ s.requested THEN Append(text, "close") ELSE text

\* Effects on the pair [s |-> stream, w |-> wire], composed by the operations.
set_status_line(r, code) ==
  [s |-> [r.s EXCEPT !.status = code], w |-> Append(r.w, code)]

put_header_text(r, text) ==
  [s |-> [r.s EXCEPT !.header_committed = TRUE],
   w |-> Append(r.w \o with_connection(r.s, text), "blank")]

put(r, token) == [s |-> r.s, w |-> Append(r.w, token)]

\* set_post_commit_action (Void)
unhooked(r) == [s |-> [r.s EXCEPT !.action = FALSE], w |-> r.w]

\* Fault: the default status is sent.
process_header_default(r) ==
  IF r.s.header_committed THEN unhooked(r)
  ELSE put_header_text(set_status_line(unhooked(r), "200"), header)

\* WSF_WGI_DELAYED_HEADER_RESPONSE.process_header: the status and the header
\* come from its wsf_response, the one it was made with.
process_header(r) ==
  IF r.s.header_committed THEN unhooked(r)
  ELSE put_header_text(set_status_line(unhooked(r), wsf.status), header)

\* Fault: the delayed header is forgotten when there is no content.
pushed_without_action(r) == unhooked(r)

\* {WGI_RESPONSE}.push: the post_commit_action, which is the delayed filter's
\* commit, then the stream's commit.
pushed(r) ==
  unhooked(IF r.s.action /\ ~r.s.header_committed THEN process_header(r) ELSE r)

Current == [s |-> stream, w |-> wire]

\* A client that has gone makes every write fail; the application is not told.
Written(r, gone) ==
  /\ stream' = r.s
  /\ wire' = r.w
  /\ output_ok' = IF Len(r.w) > Len(wire) THEN ~gone ELSE output_ok

(***************************************************************************)
(* Operations of the application on `res', the response it was given.      *)
(***************************************************************************)
res == IF head = NoHead THEN wsf ELSE head

\* router_dispatch, no handler for HEAD: the GET handler gets the wrapper.
make_from_response ==
  /\ head = NoHead
  /\ head' = [status |-> "200", target |-> wsf.target]
  /\ UNCHANGED <<stream, wsf, header, wire, output_ok>>

set_status_code(code) ==
  /\ stream.status = Unset /\ ~stream.header_committed
  /\ IF head = NoHead
     THEN wsf' = [wsf EXCEPT !.status = code] /\ UNCHANGED head
     ELSE head' = [head EXCEPT !.status = code] /\ UNCHANGED wsf
  /\ UNCHANGED <<stream, header, wire, output_ok>>

\* put_header_text, put_header_lines and their kin; ignored once committed.
put_header(text) ==
  /\ header' = IF stream.header_committed THEN header ELSE text
  /\ UNCHANGED <<stream, wsf, head, wire, output_ok>>

\* Content given to the wgi_response of `res'; the delayed filter processes
\* the header first, and lets its own wsf_response use the stream directly.
content(token, gone) ==
  LET ready == IF res.target = "delayed" THEN process_header(Current) ELSE Current
  IN  /\ Written(IF token = "none" THEN ready ELSE put(ready, token), gone)
      /\ wsf' = IF res.target = "delayed" THEN [wsf EXCEPT !.target = "stream"]
                ELSE wsf
      /\ UNCHANGED <<head, header>>

\* put_string, put_character, put_substring, put_chunk: nothing for HEAD.
put_string(gone) ==
  IF head = NoHead THEN content("body", gone) ELSE UNCHANGED responseVars

\* put_file_content is not redefined by the wrapper.
put_file_content(gone) == content("body", gone)

flush(gone) == content("none", gone)

\* res.push of the request handler
push(gone) ==
  /\ Written(pushed(Current), gone)
  /\ wsf' = IF stream.action /\ ~stream.header_committed
            THEN [wsf EXCEPT !.target = "stream"] ELSE wsf
  /\ UNCHANGED <<head, header>>

\* Fault: the rescue answers whatever was sent before.
rescue_execute_always(gone) ==
  LET headed == put_header_text(set_status_line(Current, "500"), RescueHeaderText)
  IN  /\ Written(pushed(put(headed, "trace")), gone)
      /\ UNCHANGED <<wsf, head, header>>

\* WGI_RESCUE_EXECUTION.execute on the stream
rescue_execute(gone) ==
  LET set == IF stream.status = Unset THEN set_status_line(Current, "500")
             ELSE Current
      headed == IF set.s.header_committed THEN set
                ELSE put_header_text(set, RescueHeaderText)
      traced == put(headed, "trace")
  IN  /\ Written(pushed(traced), gone)
      /\ UNCHANGED <<wsf, head, header>>
===============================================================================

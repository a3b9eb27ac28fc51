------------------------------- MODULE WebSocket -------------------------------
(***************************************************************************)
(* One web socket connection on the server: the opening handshake of       *)
(* WSF_WEBSOCKET_EXECUTION.http_execute, the loop of WEB_SOCKET_HANDLER,   *)
(* WEB_SOCKET.next_frame with WEB_SOCKET_FRAME, and the callbacks          *)
(* WEB_SOCKET_EVENT_I implements itself.                                   *)
(*                                                                         *)
(* The client sends frames, also wrong ones, and leaves at any point, the  *)
(* middle of a frame included; the network splits what it sends as it      *)
(* likes; a read may raise (a timeout or a reset).  A byte of a payload is *)
(* one of three classes: "a" stands alone, "l" leads a two-byte character, *)
(* "t" is its trailing byte.  The class of the length field is kept beside *)
(* the payload, whose own length is abstracted to that sequence.           *)
(***************************************************************************)
EXTENDS Integers, SequencesExt

CONSTANTS
  ClientFrame,   \* the frames the client may send
  MaxFrames,     \* bound: frames sent by the client
  MaxBacklog,    \* bound: frames sent and not read yet
  MaxTimer       \* bound: frames the application sends from on_timer

Byte == {"a", "l", "t"}
DataOpcode == {"text", "binary"}
ControlOpcode == {"close", "ping", "pong"}
Opcode == DataOpcode \cup ControlOpcode \cup {"cont", "reserved"}

\* rsv: one of the RSV bits is set.  len: how the length is written, in 7, 16
\* or 64 bits, "huge" beyond what an INTEGER_32 holds.
FrameType ==
  [op: Opcode, fin: BOOLEAN, rsv: BOOLEAN, masked: BOOLEAN,
   len: {"7", "16", "64", "huge"}, data: Seq(Byte)]

ASSUME WebSocketAssumption ==
  /\ ClientFrame \subseteq FrameType
  /\ \A f \in ClientFrame : f.len # "7" => f.data # <<>>
  /\ MaxFrames \in Nat /\ MaxBacklog \in Nat /\ MaxTimer \in Nat

VARIABLES
  pc,         \* handshake, http, wait, fragment, overrun, events, done
  status,     \* the status the handshake set: "none", "101" or "400"
  sent,       \* the frames the client sent, whole
  read,       \* how many of them were read
  gone,       \* the client has closed its side
  cut,        \* it did so in the middle of a further frame
  frame,      \* Result of next_frame, Void as NoFrame
  out,        \* the frames sent to the client: opcode and payload
  delivered,  \* the messages given to on_text and on_binary
  closed,     \* the calls of on_close
  overrun     \* next_bytes went past what it was asked for: "", "ext", "mask"

readVars == <<read, frame, overrun>>
clientVars == <<sent, gone, cut>>
appVars == <<out, delivered, closed>>
vars == <<pc, status, readVars, clientVars, appVars>>

Message == [op: Opcode, data: Seq(Byte)]
Msg(o, d) == [op |-> o, data |-> d]

\* The payloads of those of the first n frames that have opcode o, in order
\* (a recursive function, which TLAPS can expand as it cannot SelectSeq).
Payloads(frames, o) ==
  LET upto[n \in 0 .. Len(frames)] ==
        IF n = 0 THEN <<>>
        ELSE IF frames[n].op = o THEN Append(upto[n - 1], frames[n].data)
        ELSE upto[n - 1]
  IN  upto

NoFrame == [op |-> "none", fin |-> FALSE, data |-> <<>>, valid |-> TRUE,
            injected |-> <<>>]
Frame == [op: Opcode, fin: BOOLEAN, data: Seq(Byte), valid: BOOLEAN,
          injected: Seq(Message)]

Init ==
  /\ pc = "handshake" /\ status = "none"
  /\ sent = <<>> /\ read = 0 /\ gone = FALSE /\ cut = FALSE
  /\ frame = NoFrame /\ overrun = ""
  /\ out = <<>> /\ delivered = <<>> /\ closed = 0

--------------------------------------------------------------------------------
(* The client                                                              *)

client_send ==
  /\ pc \notin {"handshake", "http", "done"} /\ ~gone
  /\ Len(sent) < MaxFrames /\ Len(sent) - read < MaxBacklog
  /\ \E f \in ClientFrame : sent' = Append(sent, f)
  /\ UNCHANGED <<pc, status, readVars, appVars, gone, cut>>

client_leaves ==
  /\ pc \notin {"handshake", "http", "done"} /\ ~gone
  /\ gone' = TRUE
  /\ cut' \in BOOLEAN
  /\ UNCHANGED <<pc, status, readVars, appVars, sent>>

--------------------------------------------------------------------------------
(* The handshake                                                           *)

\* Not a web socket request: the execution answers it as any HTTP request.
open_ws_handshake_http ==
  /\ pc = "handshake"
  /\ pc' = "http"
  /\ UNCHANGED <<status, readVars, clientVars, appVars>>

\* A header is missing or wrong: status 400, then the same HTTP execution.
open_ws_handshake_refused ==
  /\ pc = "handshake"
  /\ pc' = "http" /\ status' = "400"
  /\ UNCHANGED <<readVars, clientVars, appVars>>

\* 101 is pushed, the handler is created and on_open called.
open_ws_handshake_upgraded ==
  /\ pc = "handshake"
  /\ pc' = "wait" /\ status' = "101"
  /\ UNCHANGED <<readVars, clientVars, appVars>>

--------------------------------------------------------------------------------
(* next_frame                                                              *)

\* is_valid_utf_8: every leading byte has its trailing byte and conversely; a
\* stream may end inside a character.
is_valid_utf_8(s, a_is_stream) ==
  \A i \in 1 .. Len(s) :
    /\ s[i] = "l" => IF i = Len(s) THEN a_is_stream ELSE s[i + 1] = "t"
    /\ s[i] = "t" => i > 1 /\ s[i - 1] = "l"

\* WEB_SOCKET_FRAME.make
make(o, fin) ==
  [NoFrame EXCEPT !.op = o, !.fin = fin,
     !.valid = o # "reserved" /\ (o \in ControlOpcode => fin)]

\* Fault: a continuation does not update the flag of the message.
HeadOf_keeps_fin(parent, f) ==
  LET result ==
        IF parent = NoFrame
        THEN [make(f.op, f.fin) EXCEPT !.valid = @ /\ f.op # "cont"]
        ELSE IF f.op = "cont" THEN parent
        ELSE IF f.op \in ControlOpcode THEN make(f.op, TRUE)
        ELSE [make(f.op, f.fin) EXCEPT !.valid = FALSE]
  IN  [result EXCEPT !.valid = @ /\ ~f.rsv]

\* The frame that the first byte of f starts or continues; the control frame
\* injected in a fragmented message has the message as its parent.
HeadOf(parent, f) ==
  LET result ==
        IF parent = NoFrame
        THEN [make(f.op, f.fin) EXCEPT !.valid = @ /\ f.op # "cont"]
        ELSE IF f.op = "cont" THEN [parent EXCEPT !.fin = f.fin]
        ELSE IF f.op \in ControlOpcode THEN make(f.op, TRUE)
        ELSE [make(f.op, f.fin) EXCEPT !.valid = FALSE]
  IN  [result EXCEPT !.valid = @ /\ ~f.rsv]

\* Fault: the chop replaces the payload.
append_payload_replaces(result, data) ==
  IF data = <<>> THEN result
  ELSE [result EXCEPT !.data = data,
          !.valid = @ /\ (result.op = "text" => is_valid_utf_8(data, ~result.fin))]

\* Fault: the whole message is not checked again at its end.
append_payload_streams(result, data) ==
  LET whole == result.data \o data IN
  IF data = <<>> THEN result
  ELSE [result EXCEPT !.data = whole,
          !.valid = @ /\ (result.op = "text" /\ ~result.fin => is_valid_utf_8(whole, TRUE))]

\* append_payload_data_chop up to the complete one.  A payload of no byte
\* makes no call, so nothing is checked.
append_payload(result, data) ==
  LET whole == result.data \o data IN
  IF data = <<>> THEN result
  ELSE [result EXCEPT !.data = whole,
          !.valid = @ /\ (result.op = "text" => is_valid_utf_8(whole, ~result.fin))]

\* One turn of the loop after the first byte: length, mask and payload.
Fragment(parent, f) ==
  LET head == HeadOf(parent, f)
      accepted == /\ head.valid /\ f.masked
                  /\ head.op \in ControlOpcode => f.len = "7"
                  /\ f.len # "huge"
  IN  IF accepted THEN append_payload(head, f.data)
                  ELSE [head EXCEPT !.valid = FALSE]

is_injected(parent, f) == parent # NoFrame /\ f.op \in ControlOpcode

\* Fault: the injected frame is not registered with its parent.
Turn_forgets(parent, f) ==
  LET result == Fragment(parent, f) IN
  IF is_injected(parent, f) /\ f.op # "close"
  THEN [parent EXCEPT !.valid = result.valid]
  ELSE result

\* The end of the turn: an injected close replaces the message and is handled
\* at once; another injected control frame is kept with its message, which
\* shares its error.
Turn(parent, f) ==
  LET result == Fragment(parent, f) IN
  IF is_injected(parent, f) /\ f.op # "close"
  THEN [parent EXCEPT !.injected = Append(@, Msg(f.op, result.data)),
                      !.valid = result.valid]
  ELSE result

\* Where next_frame goes once the turn has given r.
AfterTurn(r) == IF r.fin \/ ~r.valid THEN "events" ELSE "fragment"

\* wait_for_input found something to read (the end of the stream too), and
\* execute_websocket calls next_frame.
wait_for_input ==
  /\ pc = "wait"
  /\ read < Len(sent) \/ gone
  /\ pc' = "fragment" /\ frame' = NoFrame
  /\ UNCHANGED <<status, read, overrun, clientVars, appVars>>

\* wait_for_input calls on_timer, from which the application may send.
on_timer ==
  /\ pc = "wait"
  /\ Len(Payloads(out, "text")[Len(out)]) < MaxTimer
  /\ out' = Append(out, Msg("text", <<"a">>))
  /\ UNCHANGED <<pc, status, readVars, clientVars, delivered, closed>>

next_fragment ==
  /\ pc = "fragment" /\ read < Len(sent)
  /\ LET r == Turn(frame, sent[read + 1]) IN
       /\ frame' = r
       /\ pc' = AfterTurn(r)
  /\ read' = read + 1
  /\ UNCHANGED <<status, overrun, clientVars, appVars>>

\* Fault: the end of the stream is taken for silence.
next_fragment_missing_waits ==
  /\ pc = "fragment" /\ read = Len(sent) /\ gone /\ ~cut
  /\ pc' = "wait"
  /\ UNCHANGED <<status, readVars, clientVars, appVars>>

\* The first byte of the next fragment does not come: the loop ends with what
\* it has, Void or the fragments so far, and no error.
next_fragment_missing ==
  /\ pc = "fragment" /\ read = Len(sent) /\ gone /\ ~cut
  /\ pc' = "events"
  /\ UNCHANGED <<status, readVars, clientVars, appVars>>

\* The client left inside a frame: whichever part is missing is an error.
next_fragment_incomplete ==
  /\ pc = "fragment" /\ read = Len(sent) /\ gone /\ cut
  /\ frame' = [NoFrame EXCEPT !.valid = FALSE]
  /\ pc' = "events"
  /\ UNCHANGED <<status, read, overrun, clientVars, appVars>>

\* read_stream raises (a timeout, a reset): the rescue clause reports an error
\* on the frame there is, and the retried body returns it.
next_frame_rescue ==
  /\ pc = "fragment" /\ read = Len(sent)
  /\ frame' = [frame EXCEPT !.valid = (frame = NoFrame)]
  /\ pc' = "events"
  /\ UNCHANGED <<status, read, overrun, clientVars, appVars>>

--------------------------------------------------------------------------------
(* A short read in next_bytes: it asks again for all the bytes instead of  *)
(* the missing ones.  When it gets more than were missing, its counter     *)
(* becomes negative and it reads on until the stream ends.                 *)

next_bytes_short(field) ==
  /\ pc = "fragment" /\ read < Len(sent)
  /\ LET f == sent[read + 1]
         head == HeadOf(frame, f)
     IN  /\ head.valid
         /\ head.op \in ControlOpcode => f.len = "7"
         /\ \/ field = "ext" /\ f.len # "7"
            \/ /\ field = "mask" /\ f.masked
               /\ f.data # <<>> \/ Len(sent) > read + 1
  /\ overrun' = field
  /\ pc' = "overrun"
  /\ UNCHANGED <<status, read, frame, clientVars, appVars>>

\* The stream has ended.  The field is right, but whatever follows it is lost,
\* so only a frame that needed nothing more is complete.
next_bytes_ends ==
  /\ pc = "overrun" /\ gone
  /\ LET f == sent[read + 1]
         r == IF overrun = "mask" /\ f.data = <<>> THEN Turn(frame, f)
              ELSE [NoFrame EXCEPT !.valid = FALSE]
     IN  /\ frame' = r
         /\ pc' = AfterTurn(r)
  /\ read' = Len(sent) /\ cut' = FALSE
  /\ UNCHANGED <<status, overrun, sent, gone, appVars>>

--------------------------------------------------------------------------------
(* execute_websocket: the events of the frame                              *)

\* on_event for each of the control frames: a ping is answered with its own
\* payload, a pong is ignored.
on_ping(controls) ==
  LET pings == Payloads(controls, "ping")[Len(controls)]
  IN  [i \in 1 .. Len(pings) |-> Msg("pong", pings[i])]

\* on_connection_close: a close frame, then on_close.
on_connection_close(before) ==
  /\ out' = out \o before \o <<Msg("close", <<>>)>>
  /\ closed' = closed + 1
  /\ pc' = "done"

\* Fault: the loop just exits.
process_invalid_exits ==
  /\ pc = "events"
  /\ frame = NoFrame \/ ~frame.valid
  /\ pc' = "done"
  /\ UNCHANGED <<status, readVars, clientVars, appVars>>

\* Void or not valid: the connection is closed as if the client had asked.
process_invalid ==
  /\ pc = "events"
  /\ frame = NoFrame \/ ~frame.valid
  /\ on_connection_close(<<>>)
  /\ UNCHANGED <<status, readVars, clientVars, delivered>>

process_close ==
  /\ pc = "events"
  /\ frame.valid /\ frame.op = "close"
  /\ on_connection_close(on_ping(frame.injected))
  /\ UNCHANGED <<status, readVars, clientVars, delivered>>

\* The injected control frames first, then the message or the control frame.
process_frame ==
  /\ pc = "events"
  /\ frame.valid /\ frame.op \in DataOpcode \cup {"ping", "pong"}
  /\ out' = out \o on_ping(Append(frame.injected, Msg(frame.op, frame.data)))
  /\ delivered' = IF frame.op \in DataOpcode
                  THEN Append(delivered, Msg(frame.op, frame.data))
                  ELSE delivered
  /\ pc' = "wait"
  /\ UNCHANGED <<status, readVars, clientVars, closed>>

Server ==
  \/ open_ws_handshake_http
  \/ open_ws_handshake_refused
  \/ open_ws_handshake_upgraded
  \/ wait_for_input
  \/ next_fragment
  \/ next_fragment_missing
  \/ next_fragment_incomplete
  \/ next_bytes_ends
  \/ process_invalid
  \/ process_close
  \/ process_frame

Environment ==
  \/ client_send
  \/ client_leaves
  \/ on_timer
  \/ next_frame_rescue
  \/ \E field \in {"ext", "mask"} : next_bytes_short(field)

Next == Server \/ Environment

Spec == Init /\ [][Next]_vars

\* The server's thread runs; clients and timers owe nothing.
FairSpec == Spec /\ WF_vars(Server)
--------------------------------------------------------------------------------
(* Properties                                                              *)

TypeOK ==
  /\ pc \in {"handshake", "http", "wait", "fragment", "overrun", "events", "done"}
  /\ status \in {"none", "101", "400"}
  /\ sent \in Seq(ClientFrame) /\ read \in 0 .. Len(sent)
  /\ gone \in BOOLEAN /\ cut \in BOOLEAN
  /\ \/ frame \in Frame
     \/ frame \in {NoFrame, [NoFrame EXCEPT !.valid = FALSE]}
  /\ overrun \in {"", "ext", "mask"}
  /\ out \in Seq(Message) /\ delivered \in Seq(Message)
  /\ closed \in 0 .. 1

\* The reference: the messages that the first n of a sequence of frames carry,
\* and the one that is still open.  Control frames between fragments do not
\* count.
NoMessage == Msg("none", <<>>)

Gather(acc, f) ==
  LET m == IF f.op = "cont" THEN [acc.open EXCEPT !.data = @ \o f.data]
                            ELSE Msg(f.op, f.data)
  IN  IF f.op \notin DataOpcode \cup {"cont"} THEN acc
      ELSE IF f.fin THEN [whole |-> Append(acc.whole, m), open |-> NoMessage]
      ELSE [acc EXCEPT !.open = m]

Messages(frames) ==
  LET after[n \in 0 .. Len(frames)] ==
        IF n = 0 THEN [whole |-> <<>>, open |-> NoMessage]
        ELSE Gather(after[n - 1], frames[n])
  IN  after

\* What on_text and on_binary received is what the client sent, in order, each
\* message once and whole, whatever control frames were injected between its
\* fragments.  Only the last may be a message cut short, and only when the
\* client left before its final fragment (the loop of next_frame ends without
\* an error when the first byte of a fragment does not come) or next_bytes ran
\* past that fragment.
MessagesInOrder ==
  LET Ref(n) == Messages(sent)[n]
      last == IF overrun = "" THEN {read} ELSE 0 .. read
  IN  \/ IsPrefix(delivered, Ref(read).whole)
      \/ /\ gone /\ ~cut
         /\ \E n \in last : delivered = Append(Ref(n).whole, Ref(n).open)

\* A text never reaches on_text with bytes that no UTF-8 text starts with,
\* wherever the fragments and reads split its characters.
TextNeverMalformed ==
  \A i \in 1 .. Len(delivered) :
    delivered[i].op = "text" => is_valid_utf_8(delivered[i].data, TRUE)

\* Between two frames every ping read so far, injected or not, was answered
\* once, in order and with its payload, unless next_bytes ran past it.
PingsAnswered ==
  pc = "wait" /\ overrun = ""
    => Payloads(out, "pong")[Len(out)] = Payloads(sent, "ping")[read]

\* However the connection ends (close, injected close, invalid frame, client
\* gone, exception), the client gets one close frame, the last thing sent, and
\* on_close is called once; neither happens before.
CloseHandshake ==
  /\ closed = IF pc = "done" THEN 1 ELSE 0
  /\ {i \in DOMAIN out : out[i].op = "close"} = IF pc = "done" THEN {Len(out)} ELSE {}

\* The assertion of execute_websocket before on_text: the text is valid UTF-8.
TextValid ==
  \A i \in 1 .. Len(delivered) :
    delivered[i].op = "text" => is_valid_utf_8(delivered[i].data, FALSE)

\* A connection whose client is gone ends: no wait, read or event loop keeps
\* its thread.
GoneThenDone == gone ~> pc = "done"

\* A message the client completes is delivered, or the connection is closed,
\* or next_bytes has run past its request and waits for the end of the stream.
MessageDelivered ==
  \A n \in 1 .. MaxFrames :
    (n <= Len(Messages(sent)[Len(sent)].whole))
      ~> (n <= Len(delivered) \/ pc = "done" \/ overrun # "")
================================================================================

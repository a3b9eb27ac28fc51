--------------------------- MODULE ConnectionProofs ---------------------------
(***************************************************************************)
(* Proofs about Connection and Response, for every keep-alive setting,     *)
(* every number of requests and connections, and whatever the application  *)
(* writes.                                                                 *)
(***************************************************************************)
EXTENDS Connection, SequenceTheorems, TLAPS

USE ConnectionAssumption

-----------------------------------------------------------------------------
(* What a response writes.                                                 *)

HeaderToken == ConnectionLine \cup {"line"}
Token == Status \cup HeaderToken \cup {"blank", "body", "trace"}

StreamType ==
  [supported : BOOLEAN, requested : BOOLEAN, is_1_0 : BOOLEAN,
   status : Status \cup {Unset}, header_committed : BOOLEAN, action : BOOLEAN]

ResponseType ==
  [status : Status \cup {Unset}, target : {"none", "delayed", "stream"}]

\* A status, a header and its one empty line, then content.
Ordered(w) == w \in Seq(Token) /\ WellFormed(w)

LEMMA OrderedFacts ==
  ASSUME NEW w, Ordered(w)
  PROVE  w \in Seq(Token) /\ w # <<>> /\ w[1] \in Status /\ Blank(w)
<1>1. PICK e \in 2 .. Len(w) : w[1] \in Status /\ w[e] = "blank"
  BY DEF Ordered, WellFormed
<1>2. w \in Seq(Token) /\ Len(w) \in Nat
  BY DEF Ordered
<1>3. e \in 1 .. Len(w) /\ w # <<>>
  BY <1>1, <1>2
<1> QED
  BY <1>1, <1>2, <1>3 DEF Blank

\* put_header_text adds or replaces Connection lines only.
LEMMA WithConnectionType ==
  ASSUME NEW s \in StreamType, NEW H, ConnectionLine \subseteq H,
         NEW text \in Seq(H)
  PROVE  with_connection(s, text) \in Seq(H)
<1>1. {"keep-alive", "close"} \subseteq H
  BY DEF ConnectionLine
<1>2. Append(text, "keep-alive") \in Seq(H) /\ Append(text, "close") \in Seq(H)
  BY <1>1
<1>3. ReplaceAt(text, first_connection(text), "close") \in Seq(H)
  <2> DEFINE i == first_connection(text)
  <2>1. text \in [1 .. Len(text) -> H] /\ Len(text) \in Nat
    BY LenProperties
  <2> HIDE DEF i
  <2>2. [text EXCEPT ![i] = "close"] \in [1 .. Len(text) -> H]
    BY <1>1, <2>1
  <2>3. [text EXCEPT ![i] = "close"] \in Seq(H)
    BY <2>1, <2>2, SeqDef
  <2> QED
    BY <2>3 DEF ReplaceAt, i
<1> QED
  BY <1>2, <1>3 DEF with_connection, StreamType

\* The status line, a header and the empty line that ends it.
LEMMA HeaderIsOrdered ==
  ASSUME NEW code \in Status, NEW text \in Seq(HeaderToken)
  PROVE  LET w == Append(Append(<<>>, code) \o text, "blank")
         IN  /\ Ordered(w)
             /\ Len(w) = Len(text) + 2
             /\ w[1] = code
             /\ \A i \in 1 .. Len(text) : w[i + 1] = text[i]
             /\ w[Len(text) + 2] = "blank"
<1> DEFINE c == Append(<<>>, code)
           d == c \o text
           w == Append(d, "blank")
<1>1. c \in Seq(Token) /\ Len(c) = 1 /\ c[1] = code
  BY DEF Token
<1>2. text \in Seq(Token)
  BY DEF Token
<1>3. d \in Seq(Token) /\ Len(d) = Len(text) + 1
  BY <1>1, <1>2, ConcatProperties
<1>4. d[1] = code /\ \A i \in 1 .. Len(text) : d[i + 1] = text[i]
  BY <1>1, <1>2, ConcatProperties
<1>5. /\ w \in Seq(Token) /\ Len(w) = Len(text) + 2
      /\ w[Len(text) + 2] = "blank"
      /\ \A i \in 1 .. Len(text) + 1 : w[i] = d[i]
  BY <1>3 DEF Token
<1>6. w[1] = code /\ \A i \in 1 .. Len(text) : w[i + 1] = text[i]
  BY <1>4, <1>5
<1>7. \A i \in 2 .. Len(w) - 1 : w[i] \in {"line"} \cup ConnectionLine
  <2> SUFFICES ASSUME NEW i \in 2 .. Len(w) - 1
               PROVE  w[i] \in {"line"} \cup ConnectionLine
    OBVIOUS
  <2>1. i - 1 \in 1 .. Len(text) /\ i = (i - 1) + 1
    BY <1>5
  <2>2. text[i - 1] \in HeaderToken
    BY <2>1
  <2> QED
    BY <1>6, <2>1, <2>2 DEF HeaderToken
<1>8. Len(w) \in 2 .. Len(w) /\ \A i \in Len(w) + 1 .. Len(w) : FALSE
  BY <1>5
<1>9. WellFormed(w)
  BY <1>5, <1>6, <1>7, <1>8 DEF WellFormed
<1>10. Ordered(w)
  BY <1>5, <1>9 DEF Ordered
<1> QED
  BY <1>5, <1>6, <1>10

\* Content behind a response that has its header.
LEMMA ContentIsOrdered ==
  ASSUME NEW w, Ordered(w), NEW token \in {"body", "trace"}
  PROVE  /\ Ordered(Append(w, token))
         /\ Append(w, token)[1] = w[1]
         /\ HeaderSeen(Append(w, token)) = HeaderSeen(w)
<1> DEFINE x == Append(w, token)
<1>1. w \in Seq(Token) /\ Len(w) \in Nat /\ Len(w) >= 1
  BY OrderedFacts
<1>2. /\ x \in Seq(Token) /\ Len(x) = Len(w) + 1 /\ x # <<>>
      /\ x[Len(w) + 1] = token
      /\ \A i \in 1 .. Len(w) : x[i] = w[i]
  BY <1>1 DEF Token
<1>3. PICK b \in 2 .. Len(w) :
        /\ w[1] \in Status /\ w[b] = "blank"
        /\ \A i \in 2 .. b - 1 : w[i] \in {"line"} \cup ConnectionLine
        /\ \A i \in b + 1 .. Len(w) : w[i] \in {"body", "trace"}
  BY DEF Ordered, WellFormed
<1>4. Ordered(x)
  <2>1. /\ x[1] \in Status /\ x[b] = "blank" /\ b \in 2 .. Len(x)
        /\ \A i \in 2 .. b - 1 : x[i] \in {"line"} \cup ConnectionLine
    BY <1>1, <1>2, <1>3
  <2>2. ASSUME NEW i \in b + 1 .. Len(x) PROVE x[i] \in {"body", "trace"}
    BY <1>1, <1>2, <1>3
  <2>3. WellFormed(x)
    BY <2>1, <2>2 DEF WellFormed
  <2> QED
    BY <1>2, <2>3 DEF Ordered
<1>5. HeaderSeen(x) = HeaderSeen(w)
  <2> DEFINE Before(s) == {j \in 1 .. Len(s) : \A k \in 1 .. j : s[k] # "blank"}
  <2>1. Before(x) = Before(w)
    <3>1. ASSUME NEW j \in Before(x) PROVE j \in Before(w)
      <4>1. j # Len(w) + 1
        BY <1>1, <1>2, <1>3
      <4> QED
        BY <1>1, <1>2, <4>1
    <3>2. ASSUME NEW j \in Before(w) PROVE j \in Before(x)
      BY <1>1, <1>2
    <3> QED
      BY <3>1, <3>2
  <2>2. \A j \in Before(w) : x[j] = w[j]
    BY <1>2
  <2> QED
    BY <2>1, <2>2 DEF HeaderSeen
<1> QED
  BY <1>1, <1>2, <1>4, <1>5

\* The lines a client reads of a header that holds no empty line.
LEMMA HeaderSeenOfHeader ==
  ASSUME NEW code \in Status, NEW text \in Seq(HeaderToken)
  PROVE  HeaderSeen(Append(Append(<<>>, code) \o text, "blank"))
           = {code} \cup ToSet(text)
<1> DEFINE w == Append(Append(<<>>, code) \o text, "blank")
<1>0. Len(text) \in Nat
  OBVIOUS
<1>1. /\ Len(w) = Len(text) + 2
      /\ w[1] = code
      /\ \A i \in 1 .. Len(text) : w[i + 1] = text[i]
      /\ w[Len(text) + 2] = "blank"
  BY <1>0, HeaderIsOrdered
<1> HIDE DEF w
<1>2. \A i \in 1 .. Len(text) + 1 : w[i] # "blank"
  <2> SUFFICES ASSUME NEW i \in 1 .. Len(text) + 1 PROVE w[i] # "blank"
    OBVIOUS
  <2>1. CASE i = 1
    BY <1>1, <2>1 DEF Status
  <2>2. CASE i # 1
    <3>1. i - 1 \in 1 .. Len(text) /\ i = (i - 1) + 1
      BY <1>0, <2>2
    <3>2. text[i - 1] \in HeaderToken
      BY <3>1
    <3> QED
      BY <1>1, <3>1, <3>2 DEF HeaderToken, ConnectionLine
  <2> QED
    BY <2>1, <2>2
<1>3. {j \in 1 .. Len(w) : \A k \in 1 .. j : w[k] # "blank"}
        = 1 .. Len(text) + 1
  <2>1. ASSUME NEW j \in 1 .. Len(w), \A k \in 1 .. j : w[k] # "blank"
        PROVE  j \in 1 .. Len(text) + 1
    <3>1. j # Len(text) + 2
      BY <1>1, <2>1, j \in 1 .. j
    <3> QED
      BY <1>0, <1>1, <3>1
  <2>2. ASSUME NEW j \in 1 .. Len(text) + 1
        PROVE  j \in 1 .. Len(w) /\ \A k \in 1 .. j : w[k] # "blank"
    BY <1>0, <1>1, <1>2
  <2> QED
    BY <2>1, <2>2
<1>4. HeaderSeen(w) = {w[i] : i \in 1 .. Len(text) + 1}
  BY <1>3 DEF HeaderSeen
<1>5. {w[i] : i \in 1 .. Len(text) + 1} = {code} \cup ToSet(text)
  <2>1. ASSUME NEW i \in 1 .. Len(text) + 1
        PROVE  w[i] \in {code} \cup ToSet(text)
    <3>1. CASE i = 1
      BY <1>1, <3>1
    <3>2. CASE i # 1
      <4>1. i - 1 \in 1 .. Len(text) /\ i = (i - 1) + 1
        BY <1>0, <3>2
      <4>2. w[i] = text[i - 1]
        BY <1>1, <4>1
      <4> QED
        BY <4>1, <4>2 DEF ToSet
    <3> QED
      BY <3>1, <3>2
  <2>2. code \in {w[i] : i \in 1 .. Len(text) + 1}
    BY <1>0, <1>1
  <2>3. ASSUME NEW i \in DOMAIN text
        PROVE  text[i] \in {w[j] : j \in 1 .. Len(text) + 1}
    <3>1. i \in 1 .. Len(text) /\ i + 1 \in 1 .. Len(text) + 1
      BY <1>0
    <3> QED
      BY <1>1, <3>1
  <2> QED
    BY <2>1, <2>2, <2>3 DEF ToSet
<1> QED
  BY <1>4, <1>5 DEF w

\* A header without a Connection line of the application: the line that
\* put_header_text adds tells the client whether the connection stays open.
LEMMA ConnectionLineTells ==
  ASSUME NEW s \in StreamType, NEW text \in Seq(HeaderToken),
         \A c \in ConnectionLine : c \notin ToSet(text)
  PROVE  LET seen == ToSet(with_connection(s, text)) IN
         (IF s.is_1_0 THEN "keep-alive" \in seen ELSE "close" \notin seen)
           <=> s.supported /\ s.requested
<1>1. ~found(text)
  BY DEF found, ToSet
<1>2. "keep-alive" \notin ToSet(text) /\ "close" \notin ToSet(text)
  BY DEF ConnectionLine
<1>3. /\ ToSet(Append(text, "keep-alive")) = ToSet(text) \cup {"keep-alive"}
      /\ ToSet(Append(text, "close")) = ToSet(text) \cup {"close"}
  <2>1. ASSUME NEW e
        PROVE  ToSet(Append(text, e)) = ToSet(text) \cup {e}
    <3>1. /\ DOMAIN text = 1 .. Len(text) /\ Len(text) \in Nat
          /\ DOMAIN Append(text, e) = 1 .. Len(text) + 1
          /\ Append(text, e)[Len(text) + 1] = e
          /\ \A i \in 1 .. Len(text) : Append(text, e)[i] = text[i]
      BY Append(text, e) \in Seq(HeaderToken \cup {e})
    <3> QED
      BY <3>1 DEF ToSet
  <2> QED
    BY <2>1
<1>4. with_connection(s, text) =
        IF s.supported
        THEN IF s.requested
             THEN IF s.is_1_0 THEN Append(text, "keep-alive") ELSE text
             ELSE IF ~s.is_1_0 THEN Append(text, "close") ELSE text
        ELSE IF ~s.is_1_0 \/ s.requested THEN Append(text, "close") ELSE text
  BY <1>1 DEF with_connection, StreamType
<1> QED
  BY <1>2, <1>3, <1>4 DEF StreamType

-----------------------------------------------------------------------------
(* What the operations of the response do.                                 *)

\* Two streams with the same settings.
SameSettings(s, t) ==
  /\ s.supported = t.supported
  /\ s.requested = t.requested
  /\ s.is_1_0 = t.is_1_0

\* The types of the response's variables.
ResponseTypes ==
  /\ stream \in StreamType
  /\ wsf \in ResponseType
  /\ head \in ResponseType
  /\ header \in Seq(HeaderToken)
  /\ output_ok \in BOOLEAN

\* Nothing is written before the header, and the header is written whole.
WireMatchesStream ==
  IF stream.header_committed
  THEN stream.status \in Status /\ Ordered(wire)
  ELSE stream.status = Unset /\ wire = <<>>

\* The step leaves a response whose header is sent: the one sent before, or
\* one with the status of `wsf' and the header of the application.
HeaderSent ==
  /\ stream' \in StreamType
  /\ stream'.header_committed
  /\ stream'.status \in Status
  /\ SameSettings(stream', stream)
  /\ Ordered(wire')
  /\ IF stream.header_committed
     THEN wire'[1] = wire[1] /\ HeaderSeen(wire') = HeaderSeen(wire)
     ELSE /\ wire'[1] = wsf.status
          /\ HeaderSeen(wire')
               = {wsf.status} \cup ToSet(with_connection(stream, header))
  /\ wsf' \in ResponseType /\ wsf'.status = wsf.status
  /\ wsf'.target \in {wsf.target, "stream"}
  /\ head' = head /\ header' = header
  /\ output_ok' \in BOOLEAN

LEMMA SettingsDecide ==
  ASSUME NEW s, NEW t, SameSettings(s, t), NEW text
  PROVE  with_connection(s, text) = with_connection(t, text)
BY DEF SameSettings, with_connection

\* The pair that process_header leaves, when the header was not sent before.
LEMMA HeaderProcessed ==
  ASSUME ResponseTypes, ~stream.header_committed, wire = <<>>
  PROVE  /\ process_header(Current) =
              [s |-> [stream EXCEPT !.action = FALSE, !.status = wsf.status,
                                    !.header_committed = TRUE],
               w |-> Append(Append(<<>>, wsf.status)
                              \o with_connection(stream, header), "blank")]
<1> DEFINE t == [stream EXCEPT !.action = FALSE]
           u == [t EXCEPT !.status = wsf.status]
<1>1. unhooked(Current) = [s |-> t, w |-> wire]
  BY DEF Current, unhooked
<1>2. set_status_line([s |-> t, w |-> wire], wsf.status)
        = [s |-> u, w |-> Append(wire, wsf.status)]
  BY DEF set_status_line
<1>3. put_header_text([s |-> u, w |-> Append(wire, wsf.status)], header)
        = [s |-> [u EXCEPT !.header_committed = TRUE],
           w |-> Append(Append(wire, wsf.status) \o with_connection(u, header),
                        "blank")]
  BY DEF put_header_text
<1>4. with_connection(u, header) = with_connection(stream, header)
  <2>1. SameSettings(u, stream)
    BY DEF SameSettings, ResponseTypes, StreamType
  <2> HIDE DEF u
  <2> QED
    BY <2>1, SettingsDecide
<1>5. [u EXCEPT !.header_committed = TRUE]
        = [stream EXCEPT !.action = FALSE, !.status = wsf.status,
                         !.header_committed = TRUE]
  BY DEF ResponseTypes, StreamType
<1>6. ~Current.s.header_committed
  BY DEF Current
<1> HIDE DEF t, u
<1> QED
  BY <1>1, <1>2, <1>3, <1>4, <1>5, <1>6 DEF process_header

\* The status and the header of the application reach the wire.
LEMMA HeaderReachesWire ==
  ASSUME ResponseTypes, wsf.status \in Status
  PROVE  LET w == Append(Append(<<>>, wsf.status)
                           \o with_connection(stream, header), "blank")
         IN  /\ Ordered(w)
             /\ w[1] = wsf.status
             /\ HeaderSeen(w)
                  = {wsf.status} \cup ToSet(with_connection(stream, header))
<1>1. with_connection(stream, header) \in Seq(HeaderToken)
  BY WithConnectionType DEF ResponseTypes, HeaderToken
<1> QED
  BY <1>1, HeaderIsOrdered, HeaderSeenOfHeader

\* What process_header leaves behind, in both of its cases.
LEMMA ReadyForContent ==
  ASSUME ResponseTypes, WireMatchesStream, wsf.status \in Status
  PROVE  LET r == process_header(Current) IN
         /\ r = [s |-> r.s, w |-> r.w]
         /\ r.s \in StreamType
         /\ r.s.header_committed
         /\ r.s.status \in Status
         /\ SameSettings(r.s, stream)
         /\ Ordered(r.w)
         /\ IF stream.header_committed THEN r.w = wire
            ELSE /\ r.w[1] = wsf.status
                 /\ HeaderSeen(r.w)
                      = {wsf.status} \cup ToSet(with_connection(stream, header))
<1>1. CASE stream.header_committed
  <2> DEFINE t == [stream EXCEPT !.action = FALSE]
  <2>1. process_header(Current) = [s |-> t, w |-> wire]
    BY <1>1 DEF process_header, Current, unhooked
  <2>2. /\ t \in StreamType /\ t.header_committed /\ t.status = stream.status
        /\ SameSettings(t, stream)
    BY <1>1 DEF ResponseTypes, StreamType, SameSettings
  <2> HIDE DEF t
  <2> QED
    BY <1>1, <2>1, <2>2 DEF WireMatchesStream
<1>2. CASE ~stream.header_committed
  <2> DEFINE t == [stream EXCEPT !.action = FALSE, !.status = wsf.status,
                                 !.header_committed = TRUE]
             w == Append(Append(<<>>, wsf.status)
                           \o with_connection(stream, header), "blank")
  <2>1. process_header(Current) = [s |-> t, w |-> w]
    BY <1>2, HeaderProcessed DEF WireMatchesStream
  <2>2. /\ t \in StreamType /\ t.header_committed /\ t.status = wsf.status
        /\ SameSettings(t, stream)
    BY DEF ResponseTypes, StreamType, SameSettings
  <2>3. /\ Ordered(w) /\ w[1] = wsf.status
        /\ HeaderSeen(w)
             = {wsf.status} \cup ToSet(with_connection(stream, header))
    BY HeaderReachesWire
  <2> HIDE DEF t, w
  <2> QED
    BY <1>2, <2>1, <2>2, <2>3
<1> QED
  BY <1>1, <1>2

\* put_string, put_file_content and flush send the header before they write,
\* whichever response the application holds.
LEMMA ContentSendsHeader ==
  ASSUME ResponseTypes, WireMatchesStream, wsf.status \in Status,
         res.target \in {"delayed", "stream"},
         res.target = "stream" => stream.header_committed,
         NEW token \in {"body", "none"}, gone \in BOOLEAN,
         content(token, gone)
  PROVE  HeaderSent
<1> DEFINE r == IF res.target = "delayed" THEN process_header(Current)
                ELSE Current
<1>1. /\ r = [s |-> r.s, w |-> r.w]
      /\ r.s \in StreamType
      /\ r.s.header_committed
      /\ r.s.status \in Status
      /\ SameSettings(r.s, stream)
      /\ Ordered(r.w)
      /\ IF stream.header_committed THEN r.w = wire
         ELSE /\ r.w[1] = wsf.status
              /\ HeaderSeen(r.w)
                   = {wsf.status} \cup ToSet(with_connection(stream, header))
  <2>1. CASE res.target = "delayed"
    BY <2>1, ReadyForContent
  <2>2. CASE res.target # "delayed"
    BY <2>2 DEF Current, ResponseTypes, WireMatchesStream, SameSettings
  <2> QED
    BY <2>1, <2>2
<1>2. /\ wsf' \in ResponseType /\ wsf'.status = wsf.status
      /\ wsf'.target \in {wsf.target, "stream"}
      /\ head' = head /\ header' = header
  BY DEF content, ResponseTypes, ResponseType
<1>3. /\ \/ token = "none" /\ stream' = r.s /\ wire' = r.w
         \/ token = "body" /\ stream' = r.s /\ wire' = Append(r.w, "body")
      /\ output_ok' \in BOOLEAN
  BY DEF content, Written, put, ResponseTypes
<1> HIDE DEF r
<1>4. Ordered(wire') /\ wire'[1] = r.w[1] /\ HeaderSeen(wire') = HeaderSeen(r.w)
  BY <1>1, <1>3, ContentIsOrdered
<1> QED
  BY <1>1, <1>2, <1>3, <1>4 DEF HeaderSent

\* The final push sends the header of a response without content.
LEMMA PushSendsHeader ==
  ASSUME ResponseTypes, WireMatchesStream, wsf.status \in Status,
         ~stream.header_committed => stream.action, gone \in BOOLEAN,
         push(gone)
  PROVE  HeaderSent
<1> DEFINE r == IF stream.action /\ ~stream.header_committed
                THEN process_header(Current) ELSE Current
<1>1. /\ r = [s |-> r.s, w |-> r.w]
      /\ r.s \in StreamType
      /\ r.s.header_committed
      /\ r.s.status \in Status
      /\ SameSettings(r.s, stream)
      /\ Ordered(r.w)
      /\ IF stream.header_committed THEN r.w = wire
         ELSE /\ r.w[1] = wsf.status
              /\ HeaderSeen(r.w)
                   = {wsf.status} \cup ToSet(with_connection(stream, header))
  <2>1. CASE stream.header_committed
    BY <2>1 DEF Current, ResponseTypes, WireMatchesStream, SameSettings
  <2>2. CASE ~stream.header_committed
    BY <2>2, ReadyForContent
  <2> QED
    BY <2>1, <2>2
<1>2. /\ wsf' \in ResponseType /\ wsf'.status = wsf.status
      /\ wsf'.target \in {wsf.target, "stream"}
      /\ head' = head /\ header' = header
  BY DEF push, ResponseTypes, ResponseType
<1>3. pushed(Current) = unhooked(r)
  BY DEF pushed, Current
<1> HIDE DEF r
<1>4. /\ stream' = [r.s EXCEPT !.action = FALSE] /\ wire' = r.w
      /\ output_ok' \in BOOLEAN
  <2>1. /\ pushed(Current).s = [r.s EXCEPT !.action = FALSE]
        /\ pushed(Current).w = r.w
    BY <1>3 DEF unhooked
  <2>2. stream' = pushed(Current).s /\ wire' = pushed(Current).w
    BY DEF push, Written
  <2>3. output_ok' \in BOOLEAN
    BY DEF push, Written, ResponseTypes
  <2> QED
    BY <2>1, <2>2, <2>3
<1>5. /\ stream' \in StreamType /\ stream'.header_committed
      /\ stream'.status \in Status /\ SameSettings(stream', stream)
  BY <1>1, <1>4 DEF StreamType, SameSettings
<1> QED
  BY <1>1, <1>2, <1>4, <1>5 DEF HeaderSent

\* Sequences of a known length, element by element.
LEMMA AppendAt ==
  ASSUME NEW S, NEW s \in Seq(S), NEW e \in S, NEW k \in Nat, Len(s) = k
  PROVE  /\ Append(s, e) \in Seq(S)
         /\ Len(Append(s, e)) = k + 1
         /\ \A i \in 1 .. k : Append(s, e)[i] = s[i]
         /\ Append(s, e)[k + 1] = e
<1>1. Append(s, e) \in Seq(S)
  BY AppendProperties
<1>2. Len(Append(s, e)) = k + 1
  BY AppendProperties
<1>3. \A i \in 1 .. k : Append(s, e)[i] = s[i]
  BY AppendProperties
<1>4. Append(s, e)[k + 1] = e
  BY AppendProperties
<1> QED
  BY <1>1, <1>2, <1>3, <1>4

RescueTokens == {"500", "line", "blank", "trace", "close", "keep-alive"}

LEMMA AppendIs ==
  ASSUME NEW s \in Seq(RescueTokens), NEW e \in RescueTokens,
         NEW u, u = Append(s, e)
  PROVE  /\ u \in Seq(RescueTokens) /\ Len(u) = Len(s) + 1
         /\ u[Len(s) + 1] = e
         /\ \A i \in 1 .. Len(s) : u[i] = s[i]
<1>1. u \in Seq(RescueTokens)
  BY AppendProperties
<1>2. Len(u) = Len(s) + 1
  BY AppendProperties
<1>3. u[Len(s) + 1] = e
  BY AppendProperties
<1>4. \A i \in 1 .. Len(s) : u[i] = s[i]
  BY AppendProperties
<1> QED
  BY <1>1, <1>2, <1>3, <1>4

LEMMA BehindOne ==
  ASSUME NEW e \in RescueTokens, NEW t \in Seq(RescueTokens),
         NEW g, g = Append(<<>>, e) \o t
  PROVE  /\ g \in Seq(RescueTokens) /\ Len(g) = Len(t) + 1
         /\ g[1] = e
         /\ \A i \in 1 .. Len(t) : g[i + 1] = t[i]
<1> DEFINE one == Append(<<>>, e)
<1>1. one \in Seq(RescueTokens) /\ Len(one) = 1 /\ one[1] = e
  BY AppendAt, EmptySeq
<1> HIDE DEF one
<1>2. g = one \o t
  BY DEF one
<1>3. g \in Seq(RescueTokens)
  BY <1>1, <1>2, ConcatProperties
<1>4. Len(g) = Len(t) + 1
  BY <1>1, <1>2, ConcatProperties
<1>5. g[1] = e
  BY <1>1, <1>2, ConcatProperties
<1>6. ASSUME NEW i \in 1 .. Len(t) PROVE g[i + 1] = t[i]
  <2>1. /\ i + 1 \in 1 .. Len(one) + Len(t) /\ ~(i + 1 <= Len(one))
        /\ (i + 1) - Len(one) = i
    BY <1>1
  <2>2. g[i + 1] = t[(i + 1) - Len(one)]
    BY <1>1, <1>2, <2>1, ConcatProperties
  <2> QED
    BY <2>1, <2>2
<1> QED
  BY <1>3, <1>4, <1>5, <1>6

\* The header text of the rescue and what put_header_text makes of it.
LEMMA RescueText ==
  /\ RescueHeaderText \in Seq(RescueTokens) /\ Len(RescueHeaderText) = 2
  /\ RescueHeaderText[1] = "line" /\ RescueHeaderText[2] = "blank"
<1>1. RescueHeaderText \in Seq(RescueTokens)
  BY DEF RescueHeaderText, RescueTokens
<1>2. Len(RescueHeaderText) = 2
  BY DEF RescueHeaderText
<1>3. RescueHeaderText[1] = "line" /\ RescueHeaderText[2] = "blank"
  BY DEF RescueHeaderText
<1> QED
  BY <1>1, <1>2, <1>3

LEMMA RescueWithLine ==
  ASSUME NEW c \in {"keep-alive", "close"}, NEW u,
         u = Append(RescueHeaderText, c)
  PROVE  /\ u \in Seq(RescueTokens) /\ Len(u) = 3
         /\ u[1] = "line" /\ u[2] = "blank" /\ u[3] = c
<1>0. c \in RescueTokens
  BY DEF RescueTokens
<1>1. u \in Seq(RescueTokens)
  BY <1>0, RescueText, AppendAt
<1>2. Len(u) = 3
  BY <1>0, RescueText, AppendAt
<1>3. u[1] = "line" /\ u[2] = "blank" /\ u[3] = c
  BY <1>0, RescueText, AppendAt
<1> QED
  BY <1>1, <1>2, <1>3

\* The three forms of what the rescue writes.
LEMMA RescueWireIs ==
  ASSUME NEW w \in Seq(RescueTokens), w[1] = "500", w[2] = "line", w[3] = "blank",
         \/ Len(w) = 5 /\ w[4] = "blank" /\ w[5] = "trace"
         \/ /\ Len(w) = 6 /\ w[4] \in {"keep-alive", "close"}
            /\ w[5] = "blank" /\ w[6] = "trace"
  PROVE  w \in RescueWire
<1>1. CASE Len(w) = 5 /\ w[4] = "blank" /\ w[5] = "trace"
  <2>1. w = <<"500", "line", "blank", "blank", "trace">>
    BY <1>1
  <2> QED
    BY <2>1, Zenon DEF RescueWire
<1>2. CASE Len(w) = 6 /\ w[4] = "close" /\ w[5] = "blank" /\ w[6] = "trace"
  <2>1. w = <<"500", "line", "blank", "close", "blank", "trace">>
    BY <1>2
  <2> QED
    BY <2>1, Zenon DEF RescueWire
<1>3. CASE Len(w) = 6 /\ w[4] = "keep-alive" /\ w[5] = "blank" /\ w[6] = "trace"
  <2>1. w = <<"500", "line", "blank", "keep-alive", "blank", "trace">>
    BY <1>3
  <2> QED
    BY <2>1, Zenon DEF RescueWire
<1> QED
  BY <1>1, <1>2, <1>3

LEMMA RescueForm ==
  ASSUME NEW t \in Seq(RescueTokens), t[1] = "line", t[2] = "blank",
         NEW g, g = Append(<<>>, "500") \o t,
         NEW h, h = Append(g, "blank"),
         NEW w, w = Append(h, "trace"),
         \/ Len(t) = 2
         \/ Len(t) = 3 /\ t[3] \in {"keep-alive", "close"}
  PROVE  w \in RescueWire
<1>1. t[1] = "line" /\ t[2] = "blank" /\ t \in Seq(RescueTokens)
  OBVIOUS
<1>2. "500" \in RescueTokens /\ "blank" \in RescueTokens /\ "trace" \in RescueTokens
  BY DEF RescueTokens
<1>3. CASE Len(t) = 2
  <2>1. /\ g \in Seq(RescueTokens) /\ Len(g) = 3
        /\ g[1] = "500" /\ g[2] = "line" /\ g[3] = "blank"
    <3>1. /\ g \in Seq(RescueTokens) /\ Len(g) = Len(t) + 1
          /\ g[1] = "500" /\ \A i \in 1 .. Len(t) : g[i + 1] = t[i]
      BY <1>1, <1>2, BehindOne
    <3>2. g[1 + 1] = t[1] /\ g[2 + 1] = t[2]
      BY <1>3, <3>1
    <3> QED
      BY <1>1, <1>3, <3>1, <3>2
  <2>2. /\ h \in Seq(RescueTokens) /\ Len(h) = 4
        /\ h[1] = "500" /\ h[2] = "line" /\ h[3] = "blank" /\ h[4] = "blank"
    <3>1. /\ h \in Seq(RescueTokens) /\ Len(h) = Len(g) + 1
          /\ h[Len(g) + 1] = "blank" /\ \A i \in 1 .. Len(g) : h[i] = g[i]
      BY <1>2, <2>1, AppendIs
    <3> QED
      BY <2>1, <3>1
  <2>3. /\ w \in Seq(RescueTokens) /\ Len(w) = 5
        /\ w[1] = "500" /\ w[2] = "line" /\ w[3] = "blank" /\ w[4] = "blank" /\ w[5] = "trace"
    <3>1. /\ w \in Seq(RescueTokens) /\ Len(w) = Len(h) + 1
          /\ w[Len(h) + 1] = "trace" /\ \A i \in 1 .. Len(h) : w[i] = h[i]
      BY <1>2, <2>2, AppendIs
    <3> QED
      BY <2>2, <3>1
  <2> QED
    BY <1>3, <2>3, RescueWireIs
<1>4. CASE Len(t) = 3 /\ t[3] \in {"keep-alive", "close"}
  <2>1. /\ g \in Seq(RescueTokens) /\ Len(g) = 4
        /\ g[1] = "500" /\ g[2] = "line" /\ g[3] = "blank" /\ g[4] = t[3]
    <3>1. /\ g \in Seq(RescueTokens) /\ Len(g) = Len(t) + 1
          /\ g[1] = "500" /\ \A i \in 1 .. Len(t) : g[i + 1] = t[i]
      BY <1>1, <1>2, BehindOne
    <3>2. g[1 + 1] = t[1] /\ g[2 + 1] = t[2] /\ g[3 + 1] = t[3]
      BY <1>4, <3>1
    <3> QED
      BY <1>1, <1>4, <3>1, <3>2
  <2>2. /\ h \in Seq(RescueTokens) /\ Len(h) = 5
        /\ h[1] = "500" /\ h[2] = "line" /\ h[3] = "blank" /\ h[4] = t[3] /\ h[5] = "blank"
    <3>1. /\ h \in Seq(RescueTokens) /\ Len(h) = Len(g) + 1
          /\ h[Len(g) + 1] = "blank" /\ \A i \in 1 .. Len(g) : h[i] = g[i]
      BY <1>2, <2>1, AppendIs
    <3> QED
      BY <2>1, <3>1
  <2>3. /\ w \in Seq(RescueTokens) /\ Len(w) = 6
        /\ w[1] = "500" /\ w[2] = "line" /\ w[3] = "blank" /\ w[4] = t[3] /\ w[5] = "blank" /\ w[6] = "trace"
    <3>1. /\ w \in Seq(RescueTokens) /\ Len(w) = Len(h) + 1
          /\ w[Len(h) + 1] = "trace" /\ \A i \in 1 .. Len(h) : w[i] = h[i]
      BY <1>2, <2>2, AppendIs
    <3> QED
      BY <2>2, <3>1
  <2> QED
    BY <1>4, <2>3, RescueWireIs
<1> QED
  BY <1>3, <1>4

LEMMA RescueHeaderIs ==
  ASSUME NEW s \in StreamType
  PROVE  Append(Append(Append(<<>>, "500") \o with_connection(s, RescueHeaderText),
                       "blank"), "trace") \in RescueWire
<1>1. ~found(RescueHeaderText)
  BY RescueText DEF found, ConnectionLine
<1>2. PICK t : /\ t = with_connection(s, RescueHeaderText)
               /\ t \in {RescueHeaderText, Append(RescueHeaderText, "keep-alive"),
                         Append(RescueHeaderText, "close")}
  BY <1>1, Zenon DEF with_connection
<1>3. /\ t \in Seq(RescueTokens) /\ t[1] = "line" /\ t[2] = "blank"
      /\ \/ Len(t) = 2
         \/ Len(t) = 3 /\ t[3] \in {"keep-alive", "close"}
  <2>1. CASE t = RescueHeaderText
    BY <2>1, RescueText
  <2>2. CASE t = Append(RescueHeaderText, "keep-alive")
    BY <2>2, RescueWithLine
  <2>3. CASE t = Append(RescueHeaderText, "close")
    BY <2>3, RescueWithLine
  <2> QED
    BY <1>2, <2>1, <2>2, <2>3
<1>4. PICK g : g = Append(<<>>, "500") \o t
  OBVIOUS
<1>5. PICK h : h = Append(g, "blank")
  OBVIOUS
<1>6. PICK w : w = Append(h, "trace")
  OBVIOUS
<1>7. w \in RescueWire
  <2>1. CASE Len(t) = 2
    BY <1>3, <1>4, <1>5, <1>6, <2>1, RescueForm
  <2>2. CASE Len(t) = 3 /\ t[3] \in {"keep-alive", "close"}
    BY <1>3, <1>4, <1>5, <1>6, <2>2, RescueForm
  <2> QED
    BY <1>3, <2>1, <2>2
<1> QED
  BY <1>2, <1>4, <1>5, <1>6, <1>7

\* The rescue answers once: with its own status and header when nothing was
\* sent, behind what was sent otherwise.
LEMMA RescueSendsHeader ==
  ASSUME ResponseTypes, WireMatchesStream, gone \in BOOLEAN,
         rescue_execute(gone)
  PROVE  /\ stream' \in StreamType
         /\ stream'.header_committed
         /\ stream'.status \in Status
         /\ SameSettings(stream', stream)
         /\ Ordered(wire') \/ wire' \in RescueWire
         /\ UNCHANGED <<wsf, head, header>>
         /\ output_ok' \in BOOLEAN
<1> DEFINE set == IF stream.status = Unset THEN set_status_line(Current, "500")
                  ELSE Current
           headed == IF set.s.header_committed THEN set
                     ELSE put_header_text(set, RescueHeaderText)
<1>1. /\ stream' = pushed(put(headed, "trace")).s
      /\ wire' = pushed(put(headed, "trace")).w
  BY DEF rescue_execute, Written
<1>2. output_ok' \in BOOLEAN /\ UNCHANGED <<wsf, head, header>>
  BY DEF rescue_execute, Written, ResponseTypes
<1>3. /\ headed.s \in StreamType
      /\ headed.s.header_committed
      /\ headed.s.status \in Status
      /\ SameSettings(headed.s, stream)
      /\ Ordered(Append(headed.w, "trace")) \/ Append(headed.w, "trace") \in RescueWire
  <2>1. CASE stream.header_committed
    <3>1. headed = Current
      BY <2>1 DEF WireMatchesStream, Status, Unset, Current
    <3>2. Ordered(Append(wire, "trace"))
      BY <2>1, ContentIsOrdered DEF WireMatchesStream
    <3> HIDE DEF headed
    <3> QED
      BY <2>1, <3>1, <3>2
      DEF Current, ResponseTypes, WireMatchesStream, SameSettings
  <2>2. CASE ~stream.header_committed
    <3> DEFINE t == [stream EXCEPT !.status = "500"]
               w == Append(Append(<<>>, "500")
                             \o with_connection(t, RescueHeaderText), "blank")
    <3>1. set = [s |-> t, w |-> Append(<<>>, "500")]
      BY <2>2 DEF WireMatchesStream, set_status_line, Current
    <3>2. t \in StreamType /\ SameSettings(t, stream) /\ ~t.header_committed
           /\ t.status = "500"
      BY <2>2 DEF ResponseTypes, StreamType, SameSettings, Status
    <3>3. headed = [s |-> [t EXCEPT !.header_committed = TRUE], w |-> w]
      <4> HIDE DEF t, set
      <4> QED
        BY <3>1, <3>2 DEF put_header_text
    <3>5. Append(w, "trace") \in RescueWire
      BY <3>2, RescueHeaderIs
    <3>6. LET u == [t EXCEPT !.header_committed = TRUE] IN
          /\ u \in StreamType /\ u.header_committed /\ u.status \in Status
          /\ SameSettings(u, stream)
      <4> HIDE DEF t
      <4> QED
        BY <3>2 DEF StreamType, SameSettings, Status
    <3> HIDE DEF headed, w, t
    <3> QED
      BY <3>3, <3>5, <3>6
  <2> QED
    BY <2>1, <2>2
<1> HIDE DEF headed
<1>4. /\ pushed(put(headed, "trace")).s = [headed.s EXCEPT !.action = FALSE]
      /\ pushed(put(headed, "trace")).w = Append(headed.w, "trace")
  BY <1>3 DEF pushed, put, unhooked
<1>5. /\ stream' = [headed.s EXCEPT !.action = FALSE]
      /\ wire' = Append(headed.w, "trace")
  BY <1>1, <1>4
<1>6. Ordered(wire') \/ wire' \in RescueWire
  BY <1>3, <1>5
<1>7. /\ stream' \in StreamType
      /\ stream'.header_committed
      /\ stream'.status \in Status
      /\ SameSettings(stream', stream)
  BY <1>3, <1>5 DEF StreamType, SameSettings
<1> QED
  BY <1>2, <1>6, <1>7

-----------------------------------------------------------------------------
(* The loop of `execute'.                                                  *)

Serving == {"process", "app", "push", "clean", "rescue"}

\* The request that is served is the one in the handler's attributes.
RequestKnown ==
  /\ socket = "open"
  /\ remote_info
  /\ version = sent.version
  /\ sent.version \in Version
  /\ is_persistent_connection_requested
       = wants_persistent(sent.version = "1.0", sent.connection)

LoopTypes ==
  /\ pc \in Position
  /\ max_keep_alive_requests \in KeepAliveSettings
  /\ n \in Nat
  /\ has_error \in BOOLEAN
  /\ remote_info \in BOOLEAN
  /\ gone \in BOOLEAN
  /\ is_next_persistent_connection_supported \in BOOLEAN
  /\ is_persistent_connection_requested \in BOOLEAN
  /\ socket \in {"void", "open", "closed"}
  /\ version \in Version \cup {"void"}
  /\ request_header_map \in ClientConnection

\* Between requests nothing of the last one is left; while a request is served
\* no error is pending; the limit was counted when the request began.
LoopInv ==
  /\ pc \in {"idle", "request"} => version = "void" /\ request_header_map = "none"
  /\ pc = "request" =>
       /\ socket = "open" /\ ~has_error /\ remote_info
       /\ n > 0 => is_persistent_connection_supported
                   /\ is_next_persistent_connection_supported
  /\ pc \in Serving => RequestKnown /\ ~has_error
  /\ pc \in {"rescued", "exit"} /\ ~has_error => RequestKnown
  /\ is_next_persistent_connection_supported /\ max_keep_alive_requests >= 0
       /\ n > 0 => n < max_keep_alive_requests
  /\ RequestLimit

Loop == LoopTypes /\ LoopInv

LEMMA LoopInit == Init => Loop
<1> SUFFICES ASSUME Init PROVE Loop
  OBVIOUS
<1>1. LoopTypes
  BY DEF Init, LoopTypes, Position, ClientConnection
<1>2. RequestLimit
  <2>1. max_keep_alive_requests \in Int /\ n = 0
    BY DEF Init
  <2> QED
    BY <2>1 DEF RequestLimit
<1>3. LoopInv
  BY <1>2 DEF Init, LoopInv, Serving
<1> QED
  BY <1>1, <1>3 DEF Loop

\* The head of an iteration keeps the number of requests within the limit.
LEMMA BeginRequestKeepsLimit ==
  ASSUME Loop, pc = "request", begin_request,
         max_keep_alive_requests' = max_keep_alive_requests
  PROVE  /\ n' \in Nat
         /\ is_next_persistent_connection_supported' \in BOOLEAN
         /\ is_next_persistent_connection_supported'
              /\ max_keep_alive_requests' >= 0 /\ n' > 0
              => n' < max_keep_alive_requests'
         /\ RequestLimit'
<1>1. max_keep_alive_requests \in Int /\ n \in Nat
  BY DEF Loop, LoopTypes
<1>2. n > 0 => is_next_persistent_connection_supported
  BY DEF Loop, LoopInv
<1>3. is_next_persistent_connection_supported /\ max_keep_alive_requests >= 0
        /\ n > 0 => n < max_keep_alive_requests
  BY DEF Loop, LoopInv
<1>4. is_next_persistent_connection_supported' \in BOOLEAN
  BY DEF Loop, LoopTypes, begin_request
<1>5. n' = n + 1
  BY DEF begin_request
<1>6. is_next_persistent_connection_supported' =>
        ~(max_keep_alive_requests >= 0 /\ n + 1 >= max_keep_alive_requests)
  BY DEF begin_request
<1>7. RequestLimit'
  BY <1>1, <1>2, <1>3, <1>5 DEF RequestLimit
<1> QED
  BY <1>1, <1>4, <1>5, <1>6, <1>7

\* The steps inside process_request that only move the handler along.
InsideRequest ==
  \/ create_exec
  \/ \E what \in {"none", "res"}, b \in BOOLEAN : create_raises(what, b)
  \/ Application
  \/ app_return \/ raise \/ res_push \/ exec_clean

LEMMA InsideRequestLoop ==
  ASSUME InsideRequest
  PROVE  /\ UNCHANGED <<n, flagVars, requestVars, linkVars>>
         /\ \/ pc \in Serving /\ pc' \in Serving
            \/ pc \in {"clean", "rescued"} /\ pc' = "exit"
<1>1. CASE create_exec
  BY <1>1 DEF create_exec, Serving
<1>2. CASE \E what \in {"none", "res"}, b \in BOOLEAN : create_raises(what, b)
  BY <1>2 DEF create_raises, Serving
<1>3. CASE Application
  BY <1>3 DEF Application, app_head, app_set_status_code, app_put_header,
              app_write, unchangedByApp, Serving
<1>4. CASE app_return \/ raise \/ res_push \/ exec_clean
  BY <1>4 DEF app_return, raise, res_push, exec_clean, unchangedByApp, Serving
<1> QED
  BY <1>1, <1>2, <1>3, <1>4 DEF InsideRequest

LEMMA LoopStep == Loop /\ output_ok \in BOOLEAN /\ [Next]_vars => Loop'
<1> SUFFICES ASSUME Loop, output_ok \in BOOLEAN, [Next]_vars PROVE Loop'
  OBVIOUS
<1> USE DEF flagVars, requestVars, linkVars
<1>1. CASE UNCHANGED vars
  BY <1>1 DEF vars, Loop, LoopTypes, LoopInv, RequestKnown, RequestLimit,
              is_persistent_connection_supported
<1>2. CASE safe_execute
  <2>1. LoopTypes'
    BY <1>2 DEF safe_execute, Loop, LoopTypes, Position
  <2>2. RequestLimit'
    <3>1. max_keep_alive_requests' \in Int /\ n' = 0
      BY <1>2 DEF safe_execute, Loop, LoopTypes
    <3> QED
      BY <3>1 DEF RequestLimit
  <2> QED
    BY <1>2, <2>1, <2>2 DEF safe_execute, Loop, LoopInv, Serving
<1>3. CASE client_leaves
  <2>1. LoopTypes'
    BY <1>3 DEF client_leaves, Loop, LoopTypes
  <2>2. LoopInv'
    BY <1>3 DEF client_leaves, Loop, LoopInv, RequestKnown, RequestLimit,
                is_persistent_connection_supported
  <2> QED
    BY <2>1, <2>2 DEF Loop
<1>4. ASSUME NEW v \in Version, NEW c \in ClientConnection,
             request_received(v, c)
      PROVE  Loop'
  <2>1. /\ pc = "request" /\ begin_request /\ pc' = "process"
        /\ UNCHANGED <<has_error, linkVars>>
    BY <1>4 DEF request_received
  <2>2. /\ sent' = [version |-> v, connection |-> c]
        /\ version' = v
        /\ request_header_map' = c
        /\ is_persistent_connection_requested' = wants_persistent(v = "1.0", c)
    BY <1>4, <2>1 DEF request_received, Loop, LoopInv
  <2>3. is_persistent_connection_requested' \in BOOLEAN
    BY <2>2 DEF wants_persistent
  <2>4. LoopTypes'
    BY <2>1, <2>2, <2>3, BeginRequestKeepsLimit DEF Loop, LoopTypes, Position
  <2>5. sent'.version = v /\ sent'.connection = c
    BY <2>2
  <2>6. RequestKnown' /\ ~has_error'
    BY <2>1, <2>2, <2>5 DEF RequestKnown, Loop, LoopInv
  <2> QED
    BY <2>1, <2>4, <2>6, BeginRequestKeepsLimit DEF Loop, LoopInv, Serving
<1>5. ASSUME NEW line \in Version \cup {"void"}, NEW b \in BOOLEAN,
             request_failed(line, b)
      PROVE  Loop'
  <2>1. /\ pc = "request" /\ begin_request /\ pc' = "exit" /\ has_error'
        /\ max_keep_alive_requests' = max_keep_alive_requests
    BY <1>5 DEF request_failed
  <2>2. LoopTypes'
    BY <1>5, <2>1, BeginRequestKeepsLimit
    DEF request_failed, Loop, LoopTypes, Position
  <2> QED
    BY <2>1, <2>2, BeginRequestKeepsLimit DEF Loop, LoopInv, Serving
<1>6. CASE InsideRequest
  <2>1. /\ UNCHANGED <<n, flagVars, requestVars, linkVars>>
        /\ \/ pc \in Serving /\ pc' \in Serving
           \/ pc \in {"clean", "rescued"} /\ pc' = "exit"
    BY <1>6, InsideRequestLoop
  <2>2. RequestKnown => RequestKnown'
    BY <2>1 DEF RequestKnown
  <2>3. LoopTypes'
    BY <2>1 DEF Loop, LoopTypes, Position, Serving
  <2>4. LoopInv'
    BY <2>1, <2>2 DEF Loop, LoopInv, Serving, RequestLimit
  <2> QED
    BY <2>3, <2>4 DEF Loop
<1>7. CASE rescue_retry
  <2>1. /\ UNCHANGED <<n, is_next_persistent_connection_supported,
                       is_persistent_connection_requested, requestVars, linkVars>>
        /\ pc = "rescue" /\ pc' \in {"rescued", "exit"}
        /\ has_error' = (has_error \/ ~output_ok)
    BY <1>7 DEF rescue_retry
  <2>2. RequestKnown => RequestKnown'
    BY <2>1 DEF RequestKnown
  <2>3. LoopTypes'
    BY <2>1 DEF Loop, LoopTypes, Position
  <2>4. LoopInv'
    BY <2>1, <2>2 DEF Loop, LoopInv, Serving, RequestLimit
  <2> QED
    BY <2>3, <2>4 DEF Loop
<1>8. CASE raise_again
  <2>1. /\ UNCHANGED <<n, is_next_persistent_connection_supported,
                       is_persistent_connection_requested, requestVars, linkVars>>
        /\ pc' = "release"
        /\ has_error' = (has_error \/ ~output_ok)
    BY <1>8 DEF raise_again
  <2>2. LoopTypes'
    BY <2>1 DEF Loop, LoopTypes, Position
  <2> QED
    BY <2>1, <2>2 DEF Loop, LoopInv, Serving, RequestLimit
<1>9. CASE end_request
  <2>1. /\ pc = "exit"
        /\ remote_info' = (~l_exit /\ remote_info)
        /\ version' = "void" /\ request_header_map' = "none"
        /\ is_persistent_connection_requested' = FALSE
        /\ socket' = IF l_exit /\ has_error THEN "closed" ELSE socket
        /\ pc' = IF l_exit THEN "release" ELSE "request"
        /\ UNCHANGED <<n, is_next_persistent_connection_supported, has_error,
                       max_keep_alive_requests, gone>>
    BY <1>9 DEF end_request, reset_request
  <2>2. LoopTypes'
    BY <2>1 DEF Loop, LoopTypes, Position, ClientConnection
  <2>3. CASE l_exit
    BY <2>1, <2>2, <2>3 DEF Loop, LoopInv, Serving, RequestLimit
  <2>4. CASE ~l_exit
    <3>1. /\ is_persistent_connection_supported
          /\ is_next_persistent_connection_supported
          /\ ~has_error
      BY <2>4 DEF l_exit
    <3>2. RequestKnown
      BY <2>1, <3>1 DEF Loop, LoopInv
    <3>3. LoopInv!2'
      BY <2>1, <2>4, <3>1, <3>2
      DEF RequestKnown, is_persistent_connection_supported
    <3> QED
      BY <2>1, <2>2, <2>4, <3>3 DEF Loop, LoopInv, Serving, RequestLimit
  <2> QED
    BY <2>3, <2>4
<1>10. CASE release
  <2>1. LoopTypes'
    BY <1>10
    DEF release, reset_request, Loop, LoopTypes, Position, ClientConnection
  <2> QED
    BY <1>10, <2>1
    DEF release, reset_request, Loop, LoopInv, Serving, RequestLimit
<1> QED
  BY <1>1, <1>2, <1>3, <1>4, <1>5, <1>6, <1>7, <1>8, <1>9, <1>10
  DEF Next, Handler, InsideRequest

-----------------------------------------------------------------------------
(* The response of the request that is served.                             *)

\* The responses the execution was made with write on the stream directly only
\* once the header is sent, and the stream was told what the loop will decide.
MadeByExec ==
  /\ wsf.status \in Status
  /\ wsf.target \in {"delayed", "stream"}
  /\ wsf.target = "stream" => stream.header_committed
  /\ head # NoHead => /\ head.status \in Status
                      /\ head.target \in {"delayed", "stream"}
                      /\ head.target = "stream" => stream.header_committed
  /\ stream.supported = (is_persistent_connection_supported
                           /\ is_next_persistent_connection_supported)
  /\ stream.requested = is_persistent_connection_requested
  /\ stream.is_1_0 = is_http_version_1_0

\* Without an exception, what was sent is what the application asked for, and
\* the Connection line that was added tells what the stream knows.
Faithful ==
  /\ head = NoHead =>
       IF stream.header_committed THEN wire[1] = status_asked
       ELSE wsf.status = status_asked
  /\ stream.header_committed
       /\ (\A c \in ConnectionLine : c \notin ToSet(header)) =>
       ((IF stream.is_1_0 THEN "keep-alive" \in HeaderSeen(wire)
         ELSE "close" \notin HeaderSeen(wire))
          <=> stream.supported /\ stream.requested)

\* What is on the wire, and what is there when the rescue sent its own header.
RescueSent ==
  /\ stream.header_committed /\ stream.status \in Status
  /\ wire \in RescueWire
WireOk == WireMatchesStream \/ (retried /\ RescueSent)

\* Where the handler is, and what of the response exists there.
ResponsePhase ==
  /\ pc \in {"idle", "request", "process", "release", "rescue"} => ~retried
  /\ pc \in {"idle", "request", "process", "release"} => created = "none"
  /\ pc \in {"app", "push", "clean"} => created = "exec" /\ ~retried
  /\ pc \in {"app", "push"} /\ ~stream.header_committed => stream.action
  /\ pc = "clean" => stream.header_committed
  /\ pc \in {"rescued", "exit"} /\ ~has_error /\ created # "none"
       => stream.header_committed

Responses ==
  /\ ResponseTypes
  /\ created \in {"none", "res", "exec"} /\ retried \in BOOLEAN
  /\ WireOk
  /\ ResponsePhase
  /\ created = "exec" => MadeByExec
  /\ created = "exec" /\ ~retried => Faithful

LEMMA NoStreamType ==
  /\ NoStream \in StreamType
  /\ NoStream.status = Unset /\ ~NoStream.header_committed
  /\ NoHead \in ResponseType /\ NoHead.status = Unset
BY DEF NoStream, StreamType, NoHead, ResponseType, Unset

\* The variables of a response that does not exist.
LEMMA Dropped ==
  ASSUME locals_dropped
  PROVE  /\ ResponseTypes' /\ WireMatchesStream'
         /\ created' = "none" /\ retried' = FALSE
<1>1. header' \in Seq(HeaderToken)
  BY EmptySeq DEF locals_dropped
<1>2. ResponseTypes'
  BY <1>1, NoStreamType DEF locals_dropped, ResponseTypes
<1>3. WireMatchesStream'
  BY NoStreamType DEF locals_dropped, WireMatchesStream
<1> QED
  BY <1>2, <1>3 DEF locals_dropped

LEMMA ResponsesInit == Init => Responses
<1> SUFFICES ASSUME Init PROVE Responses
  OBVIOUS
<1>1. header \in Seq(HeaderToken)
  BY EmptySeq DEF Init, ResponseInit
<1>2. ResponseTypes
  BY <1>1, NoStreamType DEF Init, ResponseInit, ResponseTypes
<1>3. WireMatchesStream
  BY NoStreamType DEF Init, ResponseInit, WireMatchesStream
<1> QED
  BY <1>2, <1>3 DEF Init, Responses, WireOk, ResponsePhase

\* The settings given to a new stream.
LEMMA NewStreamKnows ==
  ASSUME LoopTypes, NEW b \in BOOLEAN
  PROVE  LET s == [NewStream EXCEPT !.action = b] IN
         /\ s \in StreamType
         /\ s.supported = (is_persistent_connection_supported
                             /\ is_next_persistent_connection_supported)
         /\ s.requested = is_persistent_connection_requested
         /\ s.is_1_0 = is_http_version_1_0
         /\ s.status = Unset /\ ~s.header_committed /\ s.action = b
<1> DEFINE p == is_persistent_connection_supported
                  /\ is_next_persistent_connection_supported
           q == is_persistent_connection_requested
           z == is_http_version_1_0
<1>1. p \in BOOLEAN /\ q \in BOOLEAN /\ z \in BOOLEAN
  BY DEF LoopTypes, is_persistent_connection_supported, is_http_version_1_0
<1>2. NewStream = stream_make(p, q, z)
  BY DEF NewStream
<1> HIDE DEF p, q, z
<1>3. LET t == stream_make(p, q, z) IN
      /\ t \in StreamType /\ t.supported = p /\ t.requested = q
      /\ t.is_1_0 = z /\ t.status = Unset /\ ~t.header_committed
  BY <1>1, NoStreamType DEF stream_make, StreamType
<1> DEFINE t == stream_make(p, q, z)
           s == [t EXCEPT !.action = b]
<1> HIDE DEF t
<1>4. /\ s \in StreamType /\ s.supported = p /\ s.requested = q
      /\ s.is_1_0 = z /\ s.status = Unset /\ ~s.header_committed
      /\ s.action = b
  BY <1>3 DEF StreamType, t
<1> HIDE DEF s
<1>5. s = [NewStream EXCEPT !.action = b]
  BY <1>2 DEF s, t
<1> QED
  BY <1>4, <1>5 DEF p, q, z

\* A step that sends the header keeps the answer faithful.
LEMMA HeaderSentKeeps ==
  ASSUME Loop, Responses, created = "exec", ~retried, HeaderSent,
         UNCHANGED <<n, flagVars, requestVars, linkVars, created, retried,
                     status_asked>>
  PROVE  /\ ResponseTypes' /\ WireMatchesStream' /\ MadeByExec' /\ Faithful'
         /\ stream'.header_committed
<1> USE DEF flagVars, requestVars, linkVars
<1>1. ResponseTypes'
  BY DEF HeaderSent, Responses, ResponseTypes
<1>2. WireMatchesStream'
  BY DEF HeaderSent, WireMatchesStream
<1>3. MadeByExec'
  BY DEF HeaderSent, Responses, MadeByExec, SameSettings,
         is_persistent_connection_supported, is_http_version_1_0
<1>4. head' = NoHead => wire'[1] = status_asked'
  BY DEF HeaderSent, Responses, Faithful
<1>5. ASSUME \A c \in ConnectionLine : c \notin ToSet(header')
      PROVE  (IF stream'.is_1_0 THEN "keep-alive" \in HeaderSeen(wire')
              ELSE "close" \notin HeaderSeen(wire'))
               <=> stream'.supported /\ stream'.requested
  <2>1. header' = header /\ SameSettings(stream', stream)
    BY DEF HeaderSent
  <2>2. CASE stream.header_committed
    BY <1>5, <2>1, <2>2 DEF HeaderSent, Responses, Faithful, SameSettings
  <2>3. CASE ~stream.header_committed
    <3>1. HeaderSeen(wire')
            = {wsf.status} \cup ToSet(with_connection(stream, header))
      BY <2>3 DEF HeaderSent
    <3>2. wsf.status \notin {"keep-alive", "close"}
      BY DEF Responses, MadeByExec, Status
    <3>3. (IF stream.is_1_0
           THEN "keep-alive" \in ToSet(with_connection(stream, header))
           ELSE "close" \notin ToSet(with_connection(stream, header)))
            <=> stream.supported /\ stream.requested
      BY <1>5, <2>1, ConnectionLineTells DEF Responses, ResponseTypes
    <3> QED
      BY <2>1, <3>1, <3>2, <3>3 DEF SameSettings
  <2> QED
    BY <2>2, <2>3
<1>6. Faithful'
  BY <1>4, <1>5 DEF HeaderSent, Faithful
<1> QED
  BY <1>1, <1>2, <1>3, <1>6 DEF HeaderSent

\* The response after a step that leaves it, and what the loop told it, alone.
LEMMA ResponseUntouched ==
  ASSUME Responses,
         UNCHANGED <<responseVars, created, retried, status_asked,
                     max_keep_alive_requests, version,
                     is_next_persistent_connection_supported,
                     is_persistent_connection_requested>>
  PROVE  /\ ResponseTypes' /\ WireOk'
         /\ created' \in {"none", "res", "exec"} /\ retried' \in BOOLEAN
         /\ created' = "exec" => MadeByExec'
         /\ created' = "exec" /\ ~retried' => Faithful'
<1> USE DEF responseVars
<1>1. ResponseTypes' /\ WireOk'
  BY DEF Responses, ResponseTypes, WireOk, WireMatchesStream, RescueSent
<1>2. MadeByExec => MadeByExec'
  BY DEF MadeByExec, is_persistent_connection_supported, is_http_version_1_0
<1>3. Faithful => Faithful'
  BY DEF Faithful
<1> QED
  BY <1>1, <1>2, <1>3 DEF Responses

\* The operations of the application.
LEMMA ApplicationStep ==
  ASSUME Loop, Responses, Application PROVE Responses'
<1>0. /\ pc = "app" /\ pc' = "app" /\ created = "exec" /\ ~retried
      /\ created' = "exec" /\ ~retried'
  BY DEF Application, app_head, app_set_status_code, app_put_header,
         app_write, unchangedByApp, Responses, ResponsePhase
<1>1. UNCHANGED <<n, flagVars, requestVars, linkVars, created, retried>>
  BY DEF Application, app_head, app_set_status_code, app_put_header,
         app_write, unchangedByApp
<1>2. /\ ResponseTypes /\ WireMatchesStream /\ MadeByExec /\ Faithful
      /\ ~stream.header_committed => stream.action
      /\ gone \in BOOLEAN
  BY <1>0 DEF Responses, WireOk, ResponsePhase, Loop, LoopTypes
<1>3. ASSUME ResponseTypes', WireMatchesStream', MadeByExec', Faithful',
             ~stream'.header_committed => stream'.action
      PROVE  Responses'
  BY <1>0, <1>1, <1>3 DEF Responses, WireOk, ResponsePhase
<1> USE DEF flagVars, requestVars, linkVars
<1>4. CASE app_head
  <2>1. /\ head' = [status |-> "200", target |-> wsf.target]
        /\ UNCHANGED <<stream, wsf, header, wire, output_ok>>
    BY <1>4 DEF app_head, make_from_response
  <2>2. /\ head' \in ResponseType /\ head'.status = "200"
        /\ head'.target = wsf.target /\ head' # NoHead
    BY <1>2, <2>1 DEF MadeByExec, ResponseType, Status, NoHead, Unset
  <2>3. ResponseTypes' /\ WireMatchesStream'
    BY <1>2, <2>1, <2>2 DEF ResponseTypes, WireMatchesStream
  <2>4. MadeByExec'
    BY <1>1, <1>2, <2>1, <2>2 DEF MadeByExec, Status, is_http_version_1_0,
       is_persistent_connection_supported
  <2>5. Faithful'
    BY <1>2, <2>1, <2>2 DEF Faithful
  <2> QED
    BY <1>2, <1>3, <2>1, <2>3, <2>4, <2>5
<1>5. ASSUME NEW code \in Status, app_set_status_code(code) PROVE Responses'
  <2>1. /\ ~stream.header_committed /\ status_asked' = code
        /\ UNCHANGED <<stream, header, wire, output_ok>>
    BY <1>5 DEF app_set_status_code, set_status_code
  <2>2. CASE head = NoHead
    <3>1. wsf' = [wsf EXCEPT !.status = code] /\ head' = head
      BY <1>5, <2>2 DEF app_set_status_code, set_status_code
    <3>2. wsf' \in ResponseType /\ wsf'.status = code /\ wsf'.target = wsf.target
      BY <1>2, <3>1 DEF ResponseTypes, ResponseType
    <3>3. ResponseTypes' /\ WireMatchesStream'
      BY <1>2, <2>1, <3>1, <3>2 DEF ResponseTypes, WireMatchesStream
    <3>4. MadeByExec'
      BY <1>1, <1>2, <2>1, <2>2, <3>1, <3>2
      DEF MadeByExec, is_http_version_1_0, is_persistent_connection_supported
    <3>5. Faithful'
      BY <1>2, <2>1, <3>2 DEF Faithful
    <3> QED
      BY <1>2, <1>3, <2>1, <3>3, <3>4, <3>5
  <2>3. CASE head # NoHead
    <3>1. head' = [head EXCEPT !.status = code] /\ wsf' = wsf
      BY <1>5, <2>3 DEF app_set_status_code, set_status_code
    <3>2. /\ head' \in ResponseType /\ head'.status = code
          /\ head'.target = head.target
      BY <1>2, <3>1 DEF ResponseTypes, ResponseType
    <3>3. head' # NoHead
      BY <3>2 DEF NoHead, Status, Unset
    <3>4. ResponseTypes' /\ WireMatchesStream'
      BY <1>2, <2>1, <3>1, <3>2 DEF ResponseTypes, WireMatchesStream
    <3>5. MadeByExec'
      BY <1>1, <1>2, <2>1, <2>3, <3>1, <3>2
      DEF MadeByExec, is_http_version_1_0, is_persistent_connection_supported
    <3>6. Faithful'
      BY <1>2, <2>1, <3>3 DEF Faithful
    <3> QED
      BY <1>2, <1>3, <2>1, <3>4, <3>5, <3>6
  <2> QED
    BY <2>2, <2>3
<1>6. ASSUME NEW text \in AppHeaders, app_put_header(text) PROVE Responses'
  <2>1. /\ header' = IF stream.header_committed THEN header ELSE text
        /\ UNCHANGED <<stream, wsf, head, wire, output_ok, status_asked>>
    BY <1>6 DEF app_put_header, put_header
  <2>2. text \in Seq(HeaderToken)
    <3>1. \/ text = <<"line">>
          \/ \E c \in HeaderToken : text = <<"line", c>> \/ text = <<c>>
      BY DEF HeaderText, HeaderToken, ConnectionLine
    <3>2. "line" \in HeaderToken
      BY DEF HeaderToken
    <3>3. \A c \in HeaderToken : <<"line", c>> \in Seq(HeaderToken)
                                  /\ <<c>> \in Seq(HeaderToken)
      BY <3>2
    <3> QED
      BY <3>1, <3>2, <3>3
  <2>3. ResponseTypes' /\ WireMatchesStream'
    BY <1>2, <2>1, <2>2 DEF ResponseTypes, WireMatchesStream
  <2>4. MadeByExec'
    BY <1>1, <1>2, <2>1 DEF MadeByExec, is_http_version_1_0,
       is_persistent_connection_supported
  <2>5. Faithful'
    BY <1>2, <2>1 DEF Faithful
  <2> QED
    BY <1>2, <1>3, <2>1, <2>3, <2>4, <2>5
<1>7. CASE app_write
  <2>1. status_asked' = status_asked
    BY <1>7 DEF app_write
  <2>2. /\ wsf.status \in Status
        /\ res.target \in {"delayed", "stream"}
        /\ res.target = "stream" => stream.header_committed
    BY <1>2 DEF MadeByExec, res
  <2>3. CASE UNCHANGED responseVars
    BY <1>0, <1>1, <1>2, <1>3, <2>1, <2>3, ResponseUntouched DEF responseVars, WireOk
  <2>4. ASSUME NEW token \in {"body", "none"}, content(token, gone)
        PROVE  Responses'
    BY <1>0, <1>1, <1>2, <1>3, <2>1, <2>2, <2>4, ContentSendsHeader,
       HeaderSentKeeps
  <2> QED
    BY <1>7, <2>3, <2>4 DEF app_write, put_string, put_file_content, flush
<1> QED
  BY <1>4, <1>5, <1>6, <1>7 DEF Application

LEMMA ResponsesStep == Loop /\ Responses /\ [Next]_vars => Responses'
<1> SUFFICES ASSUME Loop, Responses, [Next]_vars PROVE Responses'
  OBVIOUS
<1> USE DEF flagVars, requestVars, linkVars, executionVars
<1>1. CASE UNCHANGED vars
  BY <1>1, ResponseUntouched
  DEF vars, responseVars, Responses, ResponsePhase
<1>2. CASE safe_execute
  <2>1. created = "none" /\ UNCHANGED <<responseVars, executionVars>>
    BY <1>2 DEF safe_execute, Responses, ResponsePhase
  <2>2. ResponseTypes' /\ WireOk'
    BY <2>1
     DEF responseVars, Responses, ResponseTypes, WireOk, WireMatchesStream, RescueSent
  <2> QED
    BY <1>2, <2>1, <2>2 DEF safe_execute, Responses, ResponsePhase
<1>3. CASE client_leaves
  BY <1>3, ResponseUntouched
  DEF client_leaves, responseVars, Responses, ResponsePhase
<1>4. ASSUME \/ \E v \in Version, c \in ClientConnection : request_received(v, c)
             \/ \E line \in Version \cup {"void"}, b \in BOOLEAN :
                  request_failed(line, b)
      PROVE  Responses'
  <2>1. /\ pc = "request" /\ pc' \in {"process", "exit"}
        /\ UNCHANGED <<responseVars, executionVars>>
    BY <1>4 DEF request_received, request_failed
  <2>2. created = "none"
    BY <2>1 DEF Responses, ResponsePhase
  <2>3. ResponseTypes' /\ WireOk'
    BY <2>1
     DEF responseVars, Responses, ResponseTypes, WireOk, WireMatchesStream, RescueSent
  <2> QED
    BY <2>1, <2>2, <2>3 DEF Responses, ResponsePhase
<1>5. CASE create_exec
  <2> DEFINE s == [NewStream EXCEPT !.action = TRUE]
  <2>1. /\ stream' = s /\ head' = NoHead /\ header' = <<>> /\ wire' = <<>>
        /\ wsf' = [status |-> "200", target |-> "delayed"]
        /\ output_ok' = TRUE /\ created' = "exec" /\ retried' = FALSE
        /\ status_asked' = "200" /\ pc' = "app"
        /\ UNCHANGED <<n, flagVars, requestVars, linkVars>>
    BY <1>5 DEF create_exec, make_from_wgi
  <2>2. /\ s \in StreamType
        /\ s.supported = (is_persistent_connection_supported
                            /\ is_next_persistent_connection_supported)
        /\ s.requested = is_persistent_connection_requested
        /\ s.is_1_0 = is_http_version_1_0
        /\ s.status = Unset /\ ~s.header_committed /\ s.action
    BY NewStreamKnows DEF Loop
  <2> HIDE DEF s
  <2>3. /\ wsf' \in ResponseType /\ wsf'.status = "200"
        /\ wsf'.target = "delayed"
    BY <2>1 DEF ResponseType, Status
  <2>4. header' \in Seq(HeaderToken)
    BY <2>1, EmptySeq
  <2>5. ResponseTypes' /\ WireMatchesStream'
    BY <2>1, <2>2, <2>3, <2>4, NoStreamType
    DEF ResponseTypes, WireMatchesStream
  <2>6. MadeByExec'
    BY <2>1, <2>2, <2>3 DEF MadeByExec, Status, is_http_version_1_0,
       is_persistent_connection_supported
  <2>7. Faithful'
    BY <2>1, <2>2, <2>3 DEF Faithful
  <2> QED
    BY <2>1, <2>2, <2>5, <2>6, <2>7 DEF Responses, WireOk, ResponsePhase
<1>6. ASSUME NEW what \in {"none", "res"}, NEW b \in BOOLEAN,
             create_raises(what, b)
      PROVE  Responses'
  <2> DEFINE s == [NewStream EXCEPT !.action = b]
  <2>1. /\ stream' = IF what = "none" THEN NoStream ELSE s
        /\ wsf' = IF b THEN [status |-> "200", target |-> "delayed"]
                  ELSE NoHead
        /\ head' = NoHead /\ header' = <<>> /\ wire' = <<>>
        /\ output_ok' = TRUE /\ created' = what /\ retried' = FALSE
        /\ pc' = "rescue"
    BY <1>6 DEF create_raises
  <2>2. s \in StreamType /\ s.status = Unset /\ ~s.header_committed
    BY NewStreamKnows DEF Loop
  <2> HIDE DEF s
  <2>3. wsf' \in ResponseType
    BY <2>1, NoStreamType DEF ResponseType, Status
  <2>4. header' \in Seq(HeaderToken)
    BY <2>1, EmptySeq
  <2>5. /\ stream' \in StreamType /\ stream'.status = Unset
        /\ ~stream'.header_committed
    BY <2>1, <2>2, NoStreamType
  <2>6. ResponseTypes' /\ WireMatchesStream'
    BY <2>1, <2>3, <2>4, <2>5, NoStreamType
    DEF ResponseTypes, WireMatchesStream
  <2> QED
    BY <2>1, <2>6 DEF Responses, WireOk, ResponsePhase
<1>7. CASE Application
  BY <1>7, ApplicationStep
<1>8. CASE app_return \/ raise \/ exec_clean
  BY <1>8, ResponseUntouched
  DEF app_return, raise, exec_clean, unchangedByApp, responseVars, Responses,
      ResponsePhase
<1>9. CASE res_push
  <2>1. /\ pc = "push" /\ push(gone) /\ pc' = "clean"
        /\ UNCHANGED <<n, flagVars, requestVars, linkVars, created, retried,
                       status_asked>>
    BY <1>9 DEF res_push, unchangedByApp
  <2>2. created = "exec" /\ ~retried
    BY <2>1 DEF Responses, ResponsePhase
  <2>3. HeaderSent
    BY <2>1, <2>2, PushSendsHeader
    DEF Responses, WireOk, ResponsePhase, MadeByExec, Loop, LoopTypes
  <2> QED
    BY <2>1, <2>2, <2>3, HeaderSentKeeps DEF Responses, WireOk, ResponsePhase
<1>10. CASE rescue_retry
  <2>1. /\ pc' \in {"rescued", "exit"} /\ retried' = TRUE
        /\ UNCHANGED <<max_keep_alive_requests, version, created, status_asked,
                       is_next_persistent_connection_supported,
                       is_persistent_connection_requested>>
    BY <1>10 DEF rescue_retry
  <2>2. CASE has_error' \/ created = "none"
    <3>1. UNCHANGED responseVars /\ WireMatchesStream
      BY <1>10, <2>2 DEF rescue_retry, Responses, WireOk, ResponsePhase
    <3>2. ResponseTypes' /\ WireOk'
      BY <2>1, <3>1
     DEF responseVars, Responses, ResponseTypes, WireOk, WireMatchesStream, RescueSent
    <3>3. MadeByExec => MadeByExec'
      BY <2>1, <3>1 DEF responseVars, MadeByExec,
         is_persistent_connection_supported, is_http_version_1_0
    <3> QED
      BY <2>1, <2>2, <3>2, <3>3 DEF Responses, ResponsePhase
  <2>3. CASE ~(has_error' \/ created = "none")
    <3>1. rescue_execute(gone)
      BY <1>10, <2>3 DEF rescue_retry
    <3>2. /\ stream' \in StreamType
          /\ stream'.header_committed
          /\ stream'.status \in Status
          /\ SameSettings(stream', stream)
          /\ Ordered(wire') \/ wire' \in RescueWire
          /\ UNCHANGED <<wsf, head, header>>
          /\ output_ok' \in BOOLEAN
      <4>1. WireMatchesStream
        BY <1>10 DEF rescue_retry, Responses, WireOk, ResponsePhase
      <4> QED
        BY <3>1, <4>1, RescueSendsHeader DEF Responses, Loop, LoopTypes
    <3>3. ResponseTypes' /\ WireOk'
      BY <2>1, <3>2
      DEF Responses, ResponseTypes, WireOk, WireMatchesStream, RescueSent
    <3>4. MadeByExec => MadeByExec'
      BY <2>1, <3>2 DEF MadeByExec, SameSettings,
         is_persistent_connection_supported, is_http_version_1_0
    <3> QED
      BY <2>1, <3>2, <3>3, <3>4 DEF Responses, ResponsePhase
  <2> QED
    BY <2>2, <2>3
<1>11. CASE raise_again
  BY <1>11, Dropped DEF raise_again, Responses, WireOk, ResponsePhase
<1>12. CASE end_request
  BY <1>12, Dropped DEF end_request, Responses, WireOk, ResponsePhase
<1>13. CASE release
  <2>1. /\ created = "none" /\ ~retried /\ pc' = "idle"
        /\ UNCHANGED <<responseVars, executionVars>>
    BY <1>13 DEF release, Responses, ResponsePhase
  <2>2. ResponseTypes' /\ WireOk'
    BY <2>1
     DEF responseVars, Responses, ResponseTypes, WireOk, WireMatchesStream, RescueSent
  <2> QED
    BY <2>1, <2>2 DEF Responses, ResponsePhase
<1> QED
  BY <1>1, <1>2, <1>3, <1>4, <1>5, <1>6, <1>7, <1>8, <1>9, <1>10, <1>11,
     <1>12, <1>13
  DEF Next, Handler

-----------------------------------------------------------------------------
(* The theorems.                                                           *)

LEMMA Invariance == Spec => [](Loop /\ Responses)
<1>1. Init => Loop /\ Responses
  BY LoopInit, ResponsesInit
<1>2. Loop /\ Responses /\ [Next]_vars => (Loop /\ Responses)'
  <2>1. Responses => output_ok \in BOOLEAN
    BY DEF Responses, ResponseTypes
  <2> QED
    BY <2>1, LoopStep, ResponsesStep
<1> QED
  BY <1>1, <1>2, PTL DEF Spec

\* The handler, its connection and the response keep their types, whatever
\* the client sends and the application writes.
THEOREM TypeCorrect == Spec => []TypeOK
<1>1. Loop /\ Responses => TypeOK
  <2> SUFFICES ASSUME Loop, Responses PROVE TypeOK
    OBVIOUS
  <2>1. wire \in Seq(Token)
    <3>0. {"500", "line", "blank", "close", "keep-alive", "trace"} \subseteq Token
      BY DEF Token, HeaderToken, ConnectionLine, Status
    <3>1. \A w \in RescueWire : w \in Seq(Token)
      <4>1. <<"500", "line", "blank", "blank", "trace">> \in Seq(Token)
        BY <3>0
      <4>2. <<"500", "line", "blank", "close", "blank", "trace">> \in Seq(Token)
        BY <3>0
      <4>3. <<"500", "line", "blank", "keep-alive", "blank", "trace">> \in Seq(Token)
        BY <3>0
      <4> QED
        BY <4>1, <4>2, <4>3, Zenon DEF RescueWire
    <3> QED
      BY <3>1, EmptySeq DEF Responses, WireOk, WireMatchesStream, RescueSent, Ordered
  <2>2. Token = Status \cup ConnectionLine \cup {"line", "blank", "body", "trace"}
    BY DEF Token, HeaderToken
  <2> QED
    BY <2>1, <2>2 DEF TypeOK, Loop, LoopTypes, Responses, ResponseTypes
<1> QED
  BY <1>1, Invariance, PTL

\* Every iteration of the loop of `execute' meets the precondition of
\* execute_request, whatever happened to the requests before it.
THEOREM RequestsMeetContract == Spec => []ExecuteRequestContract
<1>1. Loop => ExecuteRequestContract
  BY DEF Loop, LoopInv, ExecuteRequestContract
<1> QED
  BY <1>1, Invariance, PTL

\* max_keep_alive_requests is respected, for every value of it.
THEOREM RequestsWithinLimit == Spec => []RequestLimit
<1>1. Loop => RequestLimit
  BY DEF Loop, LoopInv
<1> QED
  BY <1>1, Invariance, PTL

\* is_persistent_connection_requested is computed from the request being
\* served: reset_request leaves nothing of an earlier one, on any path out of
\* process_request.
THEOREM PersistenceDecidedByRequest == Spec => []DecidedByThisRequest
<1>1. Loop => DecidedByThisRequest
  BY DEF Loop, LoopInv, DecidedByThisRequest, RequestKnown, Serving
<1> QED
  BY <1>1, Invariance, PTL

\* The Connection line that put_header_text adds, computed before the request
\* is executed, says what the loop of `execute' does after it.
THEOREM ClientAndServerAgree == Spec => []KeepAliveAgreement
<1>1. Loop /\ Responses => KeepAliveAgreement
  <2> SUFFICES ASSUME Loop, Responses, pc = "exit", ~has_error, ~retried,
                      created = "exec",
                      \A c \in ConnectionLine : c \notin ToSet(header)
               PROVE  ClientKeeps <=> ~l_exit
    BY DEF KeepAliveAgreement
  <2>1. RequestKnown
    BY DEF Loop, LoopInv
  <2>2. stream.header_committed /\ MadeByExec /\ Faithful
    BY DEF Responses, ResponsePhase
  <2>3. stream.is_1_0 <=> sent.version = "1.0"
    BY <2>1, <2>2
    DEF RequestKnown, MadeByExec, is_http_version_1_0, Version
  <2>4. ClientKeeps <=> stream.supported /\ stream.requested
    BY <2>2, <2>3 DEF ClientKeeps, Faithful
  <2>5. l_exit <=> ~(stream.supported /\ stream.requested)
    BY <2>1, <2>2 DEF l_exit, MadeByExec, RequestKnown
  <2> QED
    BY <2>4, <2>5
<1> QED
  BY <1>1, Invariance, PTL

\* A response is one status, one header that ends with its only empty line, and
\* then content, however the layers of the response and the rescue clause
\* interleave; only a rescue that sends its own header writes otherwise, and
\* then exactly what RescueWire lists.
THEOREM ResponsesAreOrdered == Spec => []ResponseOrder
<1>1. Responses => ResponseOrder
  BY DEF Responses, WireOk, WireMatchesStream, RescueSent, Ordered, ResponseOrder
<1> QED
  BY <1>1, Invariance, PTL

\* A connection is reused only after the request before was answered.
THEOREM ReuseAfterAnswer == Spec => []AnsweredBeforeReuse
<1>1. \A w \in RescueWire : Blank(w)
  BY DEF RescueWire, Blank
<1>2. Responses => AnsweredBeforeReuse
  BY <1>1, OrderedFacts
  DEF Responses, ResponsePhase, WireOk, WireMatchesStream, RescueSent, AnsweredBeforeReuse
<1> QED
  BY <1>2, Invariance, PTL

\* The delayed header carries the last status the application set.
THEOREM AskedStatusIsSent == Spec => []StatusSent
<1>1. Responses => StatusSent
  BY DEF Responses, WireOk, WireMatchesStream, Faithful, Undisturbed, StatusSent
<1> QED
  BY <1>1, Invariance, PTL
=============================================================================

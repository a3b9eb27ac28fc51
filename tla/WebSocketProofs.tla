---------------------------- MODULE WebSocketProofs ----------------------------
(***************************************************************************)
(* Proofs about WebSocket, for every set of frames the client may send and *)
(* every number of them.                                                   *)
(*                                                                         *)
(* What Payloads and Messages compute for every sequence of frames is      *)
(* proved by induction, which is stated over sets of natural numbers: the  *)
(* induction rules of the library have an operator as parameter, and no    *)
(* prover at hand instantiates it.                                         *)
(***************************************************************************)
EXTENDS WebSocket, SequenceTheorems, WellFoundedInduction, TLAPS

LEMMA NatMin ==
  ASSUME NEW T, T \subseteq Nat, T # {}
  PROVE  \E x \in T : \A y \in T : ~(y < x)
<1>1. \E x \in T : \A y \in T : ~(<<y, x>> \in OpToRel(<, Nat))
  BY NatLessThanWellFounded, WFMin
<1> QED
  BY <1>1 DEF OpToRel

LEMMA SetInduction ==
  ASSUME NEW S, 0 \in S, \A n \in Nat : n \in S => n + 1 \in S
  PROVE  Nat \subseteq S
<1> DEFINE T == Nat \ S
<1>1. SUFFICES ASSUME T # {} PROVE FALSE
  OBVIOUS
<1>2. PICK x \in T : \A y \in T : ~(y < x)
  BY <1>1, NatMin
<1>3. x # 0 /\ x - 1 \in Nat
  BY <1>2
<1>4. x - 1 \in S
  BY <1>2, <1>3
<1> QED
  BY <1>2, <1>3, <1>4

--------------------------------------------------------------------------------
(* Payloads                                                                *)

Gain(p, f, o) == IF f.op = o THEN Append(p, f.data) ELSE p

IsPayloads(g, s, o, m) ==
  g = [n \in 0 .. m |-> IF n = 0 THEN <<>> ELSE Gain(g[n - 1], s[n], o)]

\* The recursive function exists.
LEMMA PayloadsExists ==
  ASSUME NEW s, NEW o
  PROVE  \A m \in Nat : \E g : IsPayloads(g, s, o, m)
<1> DEFINE S == {m \in Nat : \E g : IsPayloads(g, s, o, m)}
<1>1. 0 \in S
  <2>1. IsPayloads([n \in 0 .. 0 |-> <<>>], s, o, 0)
    BY DEF IsPayloads
  <2> QED
    BY <2>1
<1>2. ASSUME NEW m \in Nat, m \in S PROVE m + 1 \in S
  <2>1. PICK g : IsPayloads(g, s, o, m)
    BY <1>2
  <2> DEFINE h == [n \in 0 .. m + 1 |->
                     IF n = m + 1 THEN Gain(g[m], s[m + 1], o) ELSE g[n]]
  <2>2. ASSUME NEW n \in 0 .. m + 1
        PROVE  h[n] = IF n = 0 THEN <<>> ELSE Gain(h[n - 1], s[n], o)
    <3>1. n \in 0 .. m => g[n] = IF n = 0 THEN <<>> ELSE Gain(g[n - 1], s[n], o)
      BY <2>1 DEF IsPayloads
    <3>2. CASE n = m + 1
      BY <3>2
    <3>3. CASE n # m + 1
      BY <3>1, <3>3
    <3> QED
      BY <3>2, <3>3
  <2>3. h = [n \in 0 .. m + 1 |-> h[n]]
    OBVIOUS
  <2>4. IsPayloads(h, s, o, m + 1)
    <3> HIDE DEF h
    <3> QED
      BY <2>2, <2>3 DEF IsPayloads
  <2> QED
    BY <2>4
<1>3. Nat \subseteq S
  <2> HIDE DEF S
  <2> QED
    BY <1>1, <1>2, SetInduction
<1> QED
  BY <1>3

LEMMA PayloadsFacts ==
  ASSUME NEW s, Len(s) \in Nat, NEW o
  PROVE  /\ Payloads(s, o)[0] = <<>>
         /\ \A n \in 1 .. Len(s) :
              Payloads(s, o)[n] = Gain(Payloads(s, o)[n - 1], s[n], o)
<1>1. \E g : IsPayloads(g, s, o, Len(s))
  BY PayloadsExists
<1> DEFINE u == CHOOSE g : g = [n \in 0 .. Len(s) |->
                  IF n = 0 THEN <<>>
                  ELSE IF s[n].op = o THEN Append(g[n - 1], s[n].data)
                  ELSE g[n - 1]]
<1>2. IsPayloads(u, s, o, Len(s))
  BY <1>1 DEF IsPayloads, Gain
<1>3. Payloads(s, o) = u
  BY DEF Payloads
<1> HIDE DEF u
<1>4. ASSUME NEW n \in 0 .. Len(s)
      PROVE  u[n] = IF n = 0 THEN <<>> ELSE Gain(u[n - 1], s[n], o)
  BY <1>2 DEF IsPayloads
<1> QED
  BY <1>3, <1>4

LEMMA PayloadsType ==
  ASSUME NEW s, Len(s) \in Nat, NEW o,
         \A k \in 1 .. Len(s) : s[k].data \in Seq(Byte)
  PROVE  \A n \in 0 .. Len(s) : Payloads(s, o)[n] \in Seq(Seq(Byte))
<1> DEFINE P == Payloads(s, o)
<1> DEFINE S == {n \in Nat : n <= Len(s) => P[n] \in Seq(Seq(Byte))}
<1> HIDE DEF P
<1>1. 0 \in S
  <2>1. P[0] = <<>>
    BY PayloadsFacts DEF P
  <2>2. <<>> \in Seq(Seq(Byte))
    BY EmptySeq
  <2> QED
    BY <2>1, <2>2
<1>2. ASSUME NEW n \in Nat, n \in S PROVE n + 1 \in S
  <2>1. SUFFICES ASSUME n + 1 <= Len(s) PROVE P[n + 1] \in Seq(Seq(Byte))
    OBVIOUS
  <2>2. P[n] \in Seq(Seq(Byte)) /\ n + 1 \in 1 .. Len(s) /\ (n + 1) - 1 = n
    BY <1>2, <2>1
  <2>3. P[n + 1] = Gain(P[n], s[n + 1], o)
    BY <2>2, PayloadsFacts DEF P
  <2>4. s[n + 1].data \in Seq(Byte)
    BY <2>2
  <2> QED
    BY <2>2, <2>3, <2>4 DEF Gain
<1>3. Nat \subseteq S
  <2> HIDE DEF S
  <2> QED
    BY <1>1, <1>2, SetInduction
<1> QED
  BY <1>3 DEF P

\* Payloads looks at the first frames only.
LEMMA PayloadsPrefix ==
  ASSUME NEW s, NEW t, Len(s) \in Nat, Len(t) \in Nat, NEW o, NEW m \in Nat,
         m <= Len(s), m <= Len(t), \A k \in 1 .. m : s[k] = t[k]
  PROVE  Payloads(s, o)[m] = Payloads(t, o)[m]
<1> DEFINE P == Payloads(s, o)
           Q == Payloads(t, o)
           S == {n \in Nat : n <= m => P[n] = Q[n]}
<1> HIDE DEF P, Q
<1>1. 0 \in S
  BY PayloadsFacts DEF P, Q
<1>2. ASSUME NEW n \in Nat, n \in S PROVE n + 1 \in S
  <2>1. SUFFICES ASSUME n + 1 <= m PROVE P[n + 1] = Q[n + 1]
    OBVIOUS
  <2>2. /\ P[n] = Q[n] /\ s[n + 1] = t[n + 1] /\ (n + 1) - 1 = n
        /\ n + 1 \in 1 .. Len(s) /\ n + 1 \in 1 .. Len(t)
    BY <1>2, <2>1
  <2>3. P[n + 1] = Gain(P[n], s[n + 1], o) /\ Q[n + 1] = Gain(Q[n], t[n + 1], o)
    BY <2>2, PayloadsFacts DEF P, Q
  <2> QED
    BY <2>2, <2>3
<1>3. Nat \subseteq S
  <2> HIDE DEF S
  <2> QED
    BY <1>1, <1>2, SetInduction
<1>4. m \in S
  BY <1>3
<1> QED
  BY <1>4 DEF P, Q

LEMMA PayloadsAppend ==
  ASSUME NEW X, NEW s \in Seq(X), NEW e, NEW o
  PROVE  Payloads(Append(s, e), o)[Len(Append(s, e))]
           = Gain(Payloads(s, o)[Len(s)], e, o)
<1> DEFINE t == Append(s, e)
<1>1. /\ Len(t) = Len(s) + 1 /\ Len(s) \in Nat /\ t[Len(s) + 1] = e
      /\ \A k \in 1 .. Len(s) : s[k] = t[k]
  OBVIOUS
<1> HIDE DEF t
<1>2. Payloads(s, o)[Len(s)] = Payloads(t, o)[Len(s)]
  BY <1>1, PayloadsPrefix
<1>3. Payloads(t, o)[Len(s) + 1] = Gain(Payloads(t, o)[(Len(s) + 1) - 1], t[Len(s) + 1], o)
  BY <1>1, PayloadsFacts
<1>4. (Len(s) + 1) - 1 = Len(s)
  BY <1>1
<1> QED
  BY <1>1, <1>2, <1>3, <1>4 DEF t

Pongs(a) == [i \in 1 .. Len(a) |-> Msg("pong", a[i])]

LEMMA PongsType ==
  ASSUME NEW a \in Seq(Seq(Byte))
  PROVE  /\ Pongs(a) \in Seq(Message)
         /\ Len(Pongs(a)) = Len(a)
         /\ \A i \in 1 .. Len(a) : Pongs(a)[i] = Msg("pong", a[i])
BY DEF Pongs, Msg, Message, Opcode, ControlOpcode

LEMMA ConcatAppend ==
  \A p, q \in Seq(Seq(Byte)), e \in Seq(Byte) : Append(p \o q, e) = p \o Append(q, e)
<1> DEFINE X == Seq(Byte)
<1> HIDE DEF X
<1>1. \A p, q \in Seq(X), e \in X : Append(p \o q, e) = p \o Append(q, e)
  OBVIOUS
<1> QED
  BY <1>1 DEF X

\* Answers put after what was sent are what is found there.
LEMMA PayloadsPongs ==
  ASSUME NEW s \in Seq(Message), NEW a \in Seq(Seq(Byte))
  PROVE  Payloads(s \o Pongs(a), "pong")[Len(s \o Pongs(a))]
           = Payloads(s, "pong")[Len(s)] \o a
<1> DEFINE b == Pongs(a)
           t == s \o b
<1>1. /\ b \in Seq(Message) /\ Len(b) = Len(a)
      /\ \A i \in 1 .. Len(a) : b[i] = Msg("pong", a[i])
  BY PongsType
<1> HIDE DEF b
<1>2. /\ Len(t) = Len(s) + Len(b)
      /\ \A k \in 1 .. Len(s) + Len(b) :
           t[k] = IF k <= Len(s) THEN s[k] ELSE b[k - Len(s)]
  BY <1>1, ConcatProperties
<1>3. Len(s) \in Nat /\ Len(a) \in Nat
  OBVIOUS
<1> HIDE DEF t
<1>4. Len(t) \in Nat /\ Len(s) <= Len(t) /\ \A k \in 1 .. Len(s) : s[k] = t[k]
  BY <1>1, <1>2, <1>3
<1>5. ASSUME NEW i \in 1 .. Len(a) PROVE t[Len(s) + i] = Msg("pong", a[i])
  <2>1. /\ Len(s) + i \in 1 .. Len(s) + Len(b) /\ ~(Len(s) + i <= Len(s))
        /\ (Len(s) + i) - Len(s) = i
    BY <1>1, <1>3
  <2> QED
    BY <1>1, <1>2, <2>1
<1>6. Payloads(s, "pong")[Len(s)] \in Seq(Seq(Byte))
  <2>1. ASSUME NEW k \in 1 .. Len(s) PROVE s[k].data \in Seq(Byte)
    <3>1. s[k] \in Message
      BY ElementOfSeq
    <3> QED
      BY <3>1 DEF Message
  <2> QED
    BY <1>3, <2>1, PayloadsType
<1>7. Payloads(s, "pong")[Len(s)] = Payloads(t, "pong")[Len(s)]
  BY <1>3, <1>4, PayloadsPrefix
<1> DEFINE l == Len(s)
           P == Payloads(t, "pong")
<1>10. PICK p : p = Payloads(s, "pong")[l] /\ p \in Seq(Seq(Byte)) /\ p = P[l]
  BY <1>6, <1>7
<1> DEFINE Found(n) == P[l + n] = p \o SubSeq(a, 1, n)
           S == {n \in Nat : n <= Len(a) => Found(n)}
<1>9. l \in Nat /\ Len(a) \in Nat /\ Len(t) \in Nat /\ Len(t) = l + Len(a)
  BY <1>1, <1>2, <1>3, <1>4
<1>8. \A i \in 1 .. Len(a) : t[l + i] = Msg("pong", a[i])
  BY <1>5
<1> HIDE DEF l
<1>11. \A n \in 1 .. Len(t) : P[n] = Gain(P[n - 1], t[n], "pong")
  BY <1>9, PayloadsFacts
<1>12. Found(0)
  <2>1. SubSeq(a, 1, 0) = <<>>
    BY SubSeqEmpty
  <2>2. p \o <<>> = p
    BY <1>10, ConcatEmptySeq
  <2>3. l + 0 = l
    BY <1>9
  <2> QED
    BY <1>10, <2>1, <2>2, <2>3
<1>13. ASSUME NEW n \in Nat, n + 1 <= Len(a), Found(n) PROVE Found(n + 1)
  <2>1. /\ l + (n + 1) \in 1 .. Len(t) /\ (l + (n + 1)) - 1 = l + n
        /\ n + 1 \in 1 .. Len(a)
    BY <1>9, <1>13
  <2>2. P[l + (n + 1)] = Gain(P[l + n], t[l + (n + 1)], "pong")
    BY <1>11, <2>1
  <2>3. t[l + (n + 1)] = Msg("pong", a[n + 1])
    BY <1>8, <2>1
  <2>4. P[l + (n + 1)] = Append(P[l + n], a[n + 1])
    BY <2>2, <2>3 DEF Gain, Msg
  <2>5. SubSeq(a, 1, n) \in Seq(Seq(Byte)) /\ a[n + 1] \in Seq(Byte)
    BY <1>9, <2>1
  <2>6. SubSeq(a, 1, n + 1) = Append(SubSeq(a, 1, n), a[n + 1])
    BY <1>9, <2>1
  <2>7. Append(p \o SubSeq(a, 1, n), a[n + 1]) = p \o Append(SubSeq(a, 1, n), a[n + 1])
    BY <1>10, <2>5, ConcatAppend
  <2>8. Append(P[l + n], a[n + 1]) = Append(p \o SubSeq(a, 1, n), a[n + 1])
    BY <1>13
  <2> QED
    BY <2>4, <2>6, <2>7, <2>8
<1>14. 0 \in S /\ \A n \in Nat : n \in S => n + 1 \in S
  <2> HIDE DEF Found
  <2> QED
    BY <1>9, <1>12, <1>13
<1>15. Nat \subseteq S
  <2> HIDE DEF S
  <2> QED
    BY <1>14, SetInduction
<1>16. Found(Len(a))
  <2> HIDE DEF Found
  <2> QED
    BY <1>9, <1>15
<1>17. SubSeq(a, 1, Len(a)) = a
  BY SubSeqFull
<1> QED
  BY <1>9, <1>10, <1>16, <1>17 DEF l, t, b

--------------------------------------------------------------------------------
(* Messages                                                                *)

AnyMessage == [op: Opcode \cup {"none"}, data: Seq(Byte)]
Gathered == [whole: Seq(AnyMessage), open: AnyMessage]
Nothing == [whole |-> <<>>, open |-> NoMessage]

IsMessages(g, s, m) ==
  g = [n \in 0 .. m |-> IF n = 0 THEN Nothing ELSE Gather(g[n - 1], s[n])]

LEMMA MessagesExists ==
  ASSUME NEW s
  PROVE  \A m \in Nat : \E g : IsMessages(g, s, m)
<1> DEFINE S == {m \in Nat : \E g : IsMessages(g, s, m)}
<1>1. 0 \in S
  <2>1. IsMessages([n \in 0 .. 0 |-> Nothing], s, 0)
    BY DEF IsMessages
  <2> QED
    BY <2>1
<1>2. ASSUME NEW m \in Nat, m \in S PROVE m + 1 \in S
  <2>1. PICK g : IsMessages(g, s, m)
    BY <1>2
  <2> DEFINE h == [n \in 0 .. m + 1 |->
                     IF n = m + 1 THEN Gather(g[m], s[m + 1]) ELSE g[n]]
  <2>2. ASSUME NEW n \in 0 .. m + 1
        PROVE  h[n] = IF n = 0 THEN Nothing ELSE Gather(h[n - 1], s[n])
    <3>1. n \in 0 .. m => g[n] = IF n = 0 THEN Nothing ELSE Gather(g[n - 1], s[n])
      BY <2>1 DEF IsMessages
    <3>2. CASE n = m + 1
      BY <3>2
    <3>3. CASE n # m + 1
      BY <3>1, <3>3
    <3> QED
      BY <3>2, <3>3
  <2>3. h = [n \in 0 .. m + 1 |-> h[n]]
    OBVIOUS
  <2>4. IsMessages(h, s, m + 1)
    <3> HIDE DEF h
    <3> QED
      BY <2>2, <2>3 DEF IsMessages
  <2> QED
    BY <2>4
<1>3. Nat \subseteq S
  <2> HIDE DEF S
  <2> QED
    BY <1>1, <1>2, SetInduction
<1> QED
  BY <1>3

LEMMA MessagesFacts ==
  ASSUME NEW s, Len(s) \in Nat
  PROVE  /\ Messages(s)[0] = Nothing
         /\ \A n \in 1 .. Len(s) : Messages(s)[n] = Gather(Messages(s)[n - 1], s[n])
<1>1. \E g : IsMessages(g, s, Len(s))
  BY MessagesExists
<1> DEFINE u == CHOOSE g : g = [n \in 0 .. Len(s) |->
                  IF n = 0 THEN [whole |-> <<>>, open |-> NoMessage]
                  ELSE Gather(g[n - 1], s[n])]
<1>2. IsMessages(u, s, Len(s))
  BY <1>1 DEF IsMessages, Nothing
<1>3. Messages(s) = u
  BY DEF Messages
<1> HIDE DEF u
<1>4. ASSUME NEW n \in 0 .. Len(s)
      PROVE  u[n] = IF n = 0 THEN Nothing ELSE Gather(u[n - 1], s[n])
  BY <1>2 DEF IsMessages
<1> QED
  BY <1>3, <1>4

LEMMA MessagesPrefix ==
  ASSUME NEW s, NEW t, Len(s) \in Nat, Len(t) \in Nat, NEW m \in Nat,
         m <= Len(s), m <= Len(t), \A k \in 1 .. m : s[k] = t[k]
  PROVE  Messages(s)[m] = Messages(t)[m]
<1> DEFINE P == Messages(s)
           Q == Messages(t)
           S == {n \in Nat : n <= m => P[n] = Q[n]}
<1> HIDE DEF P, Q
<1>1. 0 \in S
  BY MessagesFacts DEF P, Q
<1>2. ASSUME NEW n \in Nat, n \in S PROVE n + 1 \in S
  <2>1. SUFFICES ASSUME n + 1 <= m PROVE P[n + 1] = Q[n + 1]
    OBVIOUS
  <2>2. /\ P[n] = Q[n] /\ s[n + 1] = t[n + 1] /\ (n + 1) - 1 = n
        /\ n + 1 \in 1 .. Len(s) /\ n + 1 \in 1 .. Len(t)
    BY <1>2, <2>1
  <2>3. P[n + 1] = Gather(P[n], s[n + 1]) /\ Q[n + 1] = Gather(Q[n], t[n + 1])
    BY <2>2, MessagesFacts DEF P, Q
  <2> QED
    BY <2>2, <2>3
<1>3. Nat \subseteq S
  <2> HIDE DEF S
  <2> QED
    BY <1>1, <1>2, SetInduction
<1>4. m \in S
  BY <1>3
<1> QED
  BY <1>4 DEF P, Q

LEMMA GatherFacts ==
  ASSUME NEW acc \in Gathered, NEW f \in FrameType
  PROVE  /\ Gather(acc, f) \in Gathered
         /\ \/ Gather(acc, f).whole = acc.whole
            \/ \E m \in AnyMessage : Gather(acc, f).whole = Append(acc.whole, m)
<1> DEFINE m == IF f.op = "cont" THEN [acc.open EXCEPT !.data = @ \o f.data]
                                ELSE Msg(f.op, f.data)
<1>1. m \in AnyMessage
  <2>1. acc.open \in AnyMessage /\ f.op \in Opcode /\ f.data \in Seq(Byte)
    BY DEF Gathered, FrameType
  <2>2. acc.open.data \o f.data \in Seq(Byte)
    BY <2>1, ConcatProperties DEF AnyMessage
  <2> QED
    BY <2>1, <2>2 DEF AnyMessage, Msg
<1>2. NoMessage \in AnyMessage
  BY EmptySeq DEF NoMessage, Msg, AnyMessage
<1>3. acc.whole \in Seq(AnyMessage) /\ acc.open \in AnyMessage
  BY DEF Gathered
<1>4. Append(acc.whole, m) \in Seq(AnyMessage)
  <2> HIDE DEF m
  <2> QED
    BY <1>1, <1>3, AppendProperties
<1>5. Gather(acc, f) = IF f.op \notin DataOpcode \cup {"cont"} THEN acc
                       ELSE IF f.fin THEN [whole |-> Append(acc.whole, m), open |-> NoMessage]
                       ELSE [acc EXCEPT !.open = m]
  BY DEF Gather
<1> HIDE DEF m
<1> QED
  BY <1>1, <1>2, <1>3, <1>4, <1>5 DEF Gathered

LEMMA MessagesType ==
  ASSUME NEW s \in Seq(FrameType)
  PROVE  \A n \in 0 .. Len(s) : Messages(s)[n] \in Gathered
<1> DEFINE P == Messages(s)
           S == {n \in Nat : n <= Len(s) => P[n] \in Gathered}
<1>0. Len(s) \in Nat
  OBVIOUS
<1> HIDE DEF P
<1>1. 0 \in S
  <2>1. P[0] = Nothing
    BY <1>0, MessagesFacts DEF P
  <2>2. Nothing \in Gathered
    BY EmptySeq DEF Nothing, NoMessage, Msg, AnyMessage, Gathered
  <2> QED
    BY <2>1, <2>2
<1>2. ASSUME NEW n \in Nat, n \in S PROVE n + 1 \in S
  <2>1. SUFFICES ASSUME n + 1 <= Len(s) PROVE P[n + 1] \in Gathered
    OBVIOUS
  <2>2. P[n] \in Gathered /\ n + 1 \in 1 .. Len(s) /\ (n + 1) - 1 = n
    BY <1>0, <1>2, <2>1
  <2>3. P[n + 1] = Gather(P[n], s[n + 1])
    BY <1>0, <2>2, MessagesFacts DEF P
  <2>4. s[n + 1] \in FrameType
    BY <2>2, ElementOfSeq
  <2> QED
    BY <2>2, <2>3, <2>4, GatherFacts
<1>3. Nat \subseteq S
  <2> HIDE DEF S
  <2> QED
    BY <1>1, <1>2, SetInduction
<1> QED
  BY <1>3 DEF P

LEMMA PrefixFacts ==
  /\ \A a \in Seq(AnyMessage) : IsPrefix(a, a)
  /\ \A a \in Seq(AnyMessage), e \in AnyMessage : IsPrefix(a, Append(a, e))
  /\ \A a, b, c \in Seq(AnyMessage) : IsPrefix(a, b) /\ IsPrefix(b, c) => IsPrefix(a, c)
<1> DEFINE X == AnyMessage
<1> HIDE DEF X
<1>1. \A a \in Seq(X) : IsPrefix(a, a)
  BY DEF IsPrefix
<1>2. \A a \in Seq(X), e \in X : IsPrefix(a, Append(a, e))
  BY DEF IsPrefix
<1>3. ASSUME NEW a \in Seq(X), NEW b \in Seq(X)
      PROVE  IsPrefix(a, b) <=> Len(a) <= Len(b) /\ \A k \in 1 .. Len(a) : a[k] = b[k]
  BY DEF IsPrefix
<1>4. ASSUME NEW a \in Seq(X), NEW b \in Seq(X), NEW c \in Seq(X),
             IsPrefix(a, b), IsPrefix(b, c)
      PROVE  IsPrefix(a, c)
  <2>1. /\ Len(a) <= Len(b) /\ \A k \in 1 .. Len(a) : a[k] = b[k]
        /\ Len(b) <= Len(c) /\ \A k \in 1 .. Len(b) : b[k] = c[k]
    BY <1>3, <1>4
  <2>2. Len(a) <= Len(c) /\ \A k \in 1 .. Len(a) : a[k] = c[k]
    BY <2>1
  <2> QED
    BY <1>3, <2>2
<1> QED
  BY <1>1, <1>2, <1>4 DEF X

\* Messages that were completed stay.
LEMMA MessagesGrow ==
  ASSUME NEW s \in Seq(FrameType), NEW n \in 0 .. Len(s)
  PROVE  \A m \in n .. Len(s) : IsPrefix(Messages(s)[n].whole, Messages(s)[m].whole)
<1> DEFINE P == Messages(s)
           Kept(m) == IsPrefix(P[n].whole, P[m].whole)
           S == {k \in Nat : n + k <= Len(s) => Kept(n + k)}
<1>0. Len(s) \in Nat /\ n \in Nat
  OBVIOUS
<1>1. \A k \in 0 .. Len(s) : P[k] \in Gathered
  BY MessagesType
<1>2. \A k \in 1 .. Len(s) : P[k] = Gather(P[k - 1], s[k])
  BY <1>0, MessagesFacts
<1> HIDE DEF P
<1>3. Kept(n)
  <2>1. P[n].whole \in Seq(AnyMessage)
    BY <1>1 DEF Gathered
  <2> QED
    BY <2>1, PrefixFacts
<1>4. ASSUME NEW m \in n .. Len(s), m + 1 <= Len(s), Kept(m) PROVE Kept(m + 1)
  <2>1. /\ m \in 0 .. Len(s) /\ m + 1 \in 0 .. Len(s) /\ m + 1 \in 1 .. Len(s)
        /\ (m + 1) - 1 = m
    BY <1>0, <1>4
  <2>2. P[m + 1] = Gather(P[m], s[m + 1]) /\ s[m + 1] \in FrameType
    BY <1>2, <2>1, ElementOfSeq
  <2>3. P[n] \in Gathered /\ P[m] \in Gathered /\ P[m + 1] \in Gathered
    BY <1>1, <2>1
  <2>4. /\ P[n].whole \in Seq(AnyMessage) /\ P[m].whole \in Seq(AnyMessage)
        /\ P[m + 1].whole \in Seq(AnyMessage)
    BY <2>3 DEF Gathered
  <2>5. \/ P[m + 1].whole = P[m].whole
        \/ \E e \in AnyMessage : P[m + 1].whole = Append(P[m].whole, e)
    BY <2>2, <2>3, GatherFacts
  <2>6. IsPrefix(P[m].whole, P[m + 1].whole)
    BY <2>4, <2>5, PrefixFacts
  <2> QED
    BY <1>4, <2>4, <2>6, PrefixFacts
<1>5. 0 \in S /\ \A k \in Nat : k \in S => k + 1 \in S
  <2> HIDE DEF Kept
  <2>1. 0 \in S
    BY <1>0, <1>3
  <2>2. ASSUME NEW k \in Nat, k \in S PROVE k + 1 \in S
    <3> SUFFICES ASSUME n + (k + 1) <= Len(s) PROVE Kept(n + (k + 1))
      OBVIOUS
    <3>1. Kept(n + k) /\ n + k \in n .. Len(s) /\ (n + k) + 1 <= Len(s)
      BY <1>0, <2>2
    <3>2. (n + k) + 1 = n + (k + 1)
      BY <1>0
    <3> QED
      BY <1>4, <3>1, <3>2
  <2> QED
    BY <2>1, <2>2
<1>6. Nat \subseteq S
  <2> HIDE DEF S
  <2> QED
    BY <1>5, SetInduction
<1>7. ASSUME NEW m \in n .. Len(s) PROVE Kept(m)
  <2> HIDE DEF Kept
  <2>1. m - n \in S /\ n + (m - n) = m
    BY <1>0, <1>6
  <2> QED
    BY <2>1
<1> QED
  BY <1>7 DEF P

--------------------------------------------------------------------------------
(* One turn of next_frame                                                  *)

\* A message that misses its final fragment.
Partial(p) == p \in Frame /\ p.op \in DataOpcode /\ ~p.fin /\ p.valid

ReadsText(p) == p.op = "text" /\ p.valid => is_valid_utf_8(p.data, TRUE)

LEMMA Utf8Facts ==
  /\ is_valid_utf_8(<<>>, TRUE)
  /\ \A d : is_valid_utf_8(d, FALSE) => is_valid_utf_8(d, TRUE)
<1>1. is_valid_utf_8(<<>>, TRUE)
  BY DEF is_valid_utf_8
<1>2. ASSUME NEW d, is_valid_utf_8(d, FALSE) PROVE is_valid_utf_8(d, TRUE)
  BY <1>2 DEF is_valid_utf_8
<1> QED
  BY <1>1, <1>2

LEMMA NoFrameFacts ==
  /\ NoFrame.op = "none" /\ NoFrame.data = <<>> /\ NoFrame.injected = <<>>
  /\ NoFrame.valid = TRUE
  /\ [NoFrame EXCEPT !.valid = FALSE].op = "none"
  /\ [NoFrame EXCEPT !.valid = FALSE].valid = FALSE
  /\ [NoFrame EXCEPT !.valid = FALSE] # NoFrame
  /\ \A p \in Frame : p.op # "none" /\ p # NoFrame /\ p # [NoFrame EXCEPT !.valid = FALSE]
BY DEF NoFrame, Frame, Opcode, DataOpcode, ControlOpcode

LEMMA MakeFacts ==
  ASSUME NEW o \in Opcode, NEW fin \in BOOLEAN
  PROVE  /\ make(o, fin) \in Frame
         /\ make(o, fin).op = o /\ make(o, fin).fin = fin
         /\ make(o, fin).data = <<>> /\ make(o, fin).injected = <<>>
         /\ make(o, fin).valid <=> o # "reserved" /\ (o \in ControlOpcode => fin)
<1>1. <<>> \in Seq(Byte) /\ <<>> \in Seq(Message)
  BY EmptySeq
<1> QED
  BY <1>1 DEF make, NoFrame, Frame

LEMMA HeadFacts ==
  ASSUME NEW p, p = NoFrame \/ Partial(p), NEW f \in FrameType
  PROVE  LET h == HeadOf(p, f) IN
         /\ h \in Frame
         /\ p = NoFrame =>
              /\ h.op = f.op /\ h.fin = f.fin /\ h.data = <<>> /\ h.injected = <<>>
              /\ h.valid => /\ f.op \notin {"cont", "reserved"}
                            /\ f.op \in ControlOpcode => f.fin
         /\ p # NoFrame /\ f.op = "cont" =>
              h.op = p.op /\ h.fin = f.fin /\ h.data = p.data /\ h.injected = p.injected
         /\ p # NoFrame /\ f.op \in ControlOpcode =>
              h.op = f.op /\ h.fin /\ h.data = <<>> /\ h.injected = <<>>
         /\ p # NoFrame /\ f.op \notin ControlOpcode \cup {"cont"} => ~h.valid
<1>0. f.op \in Opcode /\ f.fin \in BOOLEAN /\ f.rsv \in BOOLEAN
  BY DEF FrameType
<1> DEFINE h == HeadOf(p, f)
<1>1. CASE p = NoFrame
  <2>1. PICK k : k = make(f.op, f.fin)
    OBVIOUS
  <2>2. PICK l : l = [k EXCEPT !.valid = k.valid /\ f.op # "cont"]
    OBVIOUS
  <2>4. h = [l EXCEPT !.valid = l.valid /\ ~f.rsv]
    BY <1>1, <2>1, <2>2 DEF HeadOf
  <2>3. /\ k \in Frame /\ k.op = f.op /\ k.fin = f.fin /\ k.data = <<>>
        /\ k.injected = <<>>
        /\ k.valid <=> f.op # "reserved" /\ (f.op \in ControlOpcode => f.fin)
    BY <1>0, <2>1, MakeFacts
  <2> QED
    BY <1>0, <1>1, <2>2, <2>3, <2>4 DEF Frame
<1>2. CASE p # NoFrame /\ f.op = "cont"
  <2>1. Partial(p)
    BY <1>2
  <2>2. h = [[p EXCEPT !.fin = f.fin] EXCEPT !.valid = p.valid /\ ~f.rsv]
    BY <1>2, <2>1 DEF HeadOf, Partial, Frame
  <2> QED
    BY <1>0, <1>2, <2>1, <2>2 DEF Partial, Frame, ControlOpcode
<1>3. CASE p # NoFrame /\ f.op \in ControlOpcode
  <2>1. f.op # "cont"
    BY <1>3 DEF ControlOpcode
  <2>2. PICK k : k = make(f.op, TRUE)
    OBVIOUS
  <2>3. /\ k \in Frame /\ k.op = f.op /\ k.fin /\ k.data = <<>> /\ k.injected = <<>>
    BY <1>0, <2>2, MakeFacts
  <2>4. h = [k EXCEPT !.valid = k.valid /\ ~f.rsv]
    BY <1>3, <2>1, <2>2 DEF HeadOf
  <2> QED
    BY <1>0, <1>3, <2>1, <2>3, <2>4 DEF Frame
<1>4. CASE p # NoFrame /\ f.op \notin ControlOpcode \cup {"cont"}
  <2>1. PICK k : k = make(f.op, f.fin)
    OBVIOUS
  <2>2. k \in Frame
    BY <1>0, <2>1, MakeFacts
  <2>3. h = [[k EXCEPT !.valid = FALSE] EXCEPT !.valid = FALSE /\ ~f.rsv]
    BY <1>4, <2>1, <2>2 DEF HeadOf, Frame
  <2> QED
    BY <1>4, <2>2, <2>3 DEF Frame
<1> QED
  BY <1>1, <1>2, <1>3, <1>4

LEMMA FragmentFacts ==
  ASSUME NEW p, p = NoFrame \/ Partial(p), NEW f \in FrameType, ReadsText(p)
  PROVE  LET h == HeadOf(p, f)
             r == Fragment(p, f)
         IN  /\ r \in Frame
             /\ r.op = h.op /\ r.fin = h.fin /\ r.injected = h.injected
             /\ r.valid => h.valid /\ r.data = h.data \o f.data
             /\ ReadsText(r)
<1>0. f.data \in Seq(Byte)
  BY DEF FrameType
<1>1. PICK h : h = HeadOf(p, f)
  OBVIOUS
<1>2. h \in Frame /\ (h.valid => h.data \in {<<>>, p.data})
      /\ (h.valid /\ h.data # <<>> => p # NoFrame /\ h.op = p.op /\ h.data = p.data)
  BY <1>1, HeadFacts, NoFrameFacts
<1>3. h.data \in Seq(Byte) /\ h.data \o f.data \in Seq(Byte)
  BY <1>0, <1>2, ConcatProperties DEF Frame
<1>4. h.valid => ReadsText(h)
  <2>1. CASE h.data = <<>>
    BY <2>1, Utf8Facts DEF ReadsText
  <2>2. CASE h.data # <<>>
    BY <1>2, <2>2 DEF ReadsText, Partial
  <2> QED
    BY <2>1, <2>2
<1>5. \/ Fragment(p, f) = [h EXCEPT !.valid = FALSE]
      \/ h.valid /\ Fragment(p, f) = append_payload(h, f.data)
  BY <1>1 DEF Fragment
<1>6. CASE Fragment(p, f) = [h EXCEPT !.valid = FALSE]
  BY <1>1, <1>2, <1>6 DEF Frame, ReadsText
<1>7. CASE h.valid /\ Fragment(p, f) = append_payload(h, f.data)
  <2>1. CASE f.data = <<>>
    <3>1. append_payload(h, f.data) = h
      BY <2>1 DEF append_payload
    <3>2. h.data \o f.data = h.data
      BY <1>3, <2>1, ConcatEmptySeq
    <3> QED
      BY <1>1, <1>2, <1>4, <1>7, <3>1, <3>2
  <2>2. CASE f.data # <<>>
    <3>1. PICK whole : whole = h.data \o f.data
      OBVIOUS
    <3>2. PICK b \in BOOLEAN :
            b = (h.valid /\ (h.op = "text" => is_valid_utf_8(whole, ~h.fin)))
      OBVIOUS
    <3>3. append_payload(h, f.data) = [h EXCEPT !.data = whole, !.valid = b]
      BY <2>2, <3>1, <3>2 DEF append_payload
    <3>4. h.op = "text" /\ b => is_valid_utf_8(whole, TRUE)
      BY <1>2, <3>2, Utf8Facts DEF Frame
    <3>5. PICK q : q = Fragment(p, f) /\ q = [h EXCEPT !.data = whole, !.valid = b]
      BY <1>7, <3>3
    <3>6. /\ q \in Frame /\ q.op = h.op /\ q.fin = h.fin /\ q.injected = h.injected
          /\ q.data = whole /\ q.valid = b
      BY <1>2, <1>3, <3>1, <3>5 DEF Frame
    <3>7. ReadsText(q)
      BY <3>4, <3>6 DEF ReadsText
    <3> QED
      BY <1>1, <1>7, <3>1, <3>5, <3>6, <3>7
  <2> QED
    BY <2>1, <2>2
<1> QED
  BY <1>5, <1>6, <1>7

\* What a turn makes of a frame, or of a message and its next fragment.
LEMMA TurnFacts ==
  ASSUME NEW p, p = NoFrame \/ Partial(p), NEW f \in FrameType, ReadsText(p)
  PROVE  LET r == Turn(p, f) IN
         /\ r \in Frame /\ ReadsText(r)
         /\ r.valid /\ p = NoFrame =>
              /\ r.op = f.op /\ r.fin = f.fin /\ r.data = f.data /\ r.injected = <<>>
              /\ f.op \notin {"cont", "reserved"} /\ (f.op \in ControlOpcode => f.fin)
         /\ r.valid /\ p # NoFrame =>
              \/ /\ f.op = "cont" /\ r.op = p.op /\ r.fin = f.fin
                 /\ r.data = p.data \o f.data /\ r.injected = p.injected
              \/ /\ f.op \in {"ping", "pong"} /\ r.op = p.op /\ r.fin = FALSE
                 /\ r.data = p.data /\ r.injected = Append(p.injected, Msg(f.op, f.data))
              \/ f.op = "close" /\ r.op = "close" /\ r.fin
<1>0. f.data \in Seq(Byte) /\ f.op \in Opcode /\ <<>> \o f.data = f.data
  BY ConcatEmptySeq DEF FrameType
<1>1. PICK h, q : h = HeadOf(p, f) /\ q = Fragment(p, f)
  OBVIOUS
<1>2. /\ q \in Frame /\ q.op = h.op /\ q.fin = h.fin /\ q.injected = h.injected
      /\ q.valid => h.valid /\ q.data = h.data \o f.data
      /\ ReadsText(q)
  BY <1>1, FragmentFacts
<1>3. CASE p = NoFrame
  <2>1. Turn(p, f) = q
    BY <1>1, <1>3 DEF Turn, is_injected
  <2>2. /\ h.op = f.op /\ h.fin = f.fin /\ h.data = <<>> /\ h.injected = <<>>
        /\ h.valid => /\ f.op \notin {"cont", "reserved"}
                      /\ f.op \in ControlOpcode => f.fin
    BY <1>1, <1>3, HeadFacts
  <2> QED
    BY <1>0, <1>2, <1>3, <2>1, <2>2
<1>4. CASE p # NoFrame /\ f.op \in {"ping", "pong"}
  <2>1. Partial(p)
    BY <1>4
  <2>2. PICK i : i = Append(p.injected, Msg(f.op, q.data))
    OBVIOUS
  <2>3. Turn(p, f) = [p EXCEPT !.injected = i, !.valid = q.valid]
    BY <1>1, <1>4, <2>2 DEF Turn, is_injected, ControlOpcode
  <2>4. q.data \in Seq(Byte) /\ p.injected \in Seq(Message)
    BY <1>2, <2>1 DEF Partial, Frame
  <2>5. Msg(f.op, q.data) \in Message
    BY <1>0, <2>4 DEF Msg, Message
  <2>6. i \in Seq(Message)
    BY <2>2, <2>4, <2>5, AppendProperties
  <2>7. h.data = <<>>
    BY <1>1, <1>4, HeadFacts DEF ControlOpcode
  <2>8. q.valid => q.data = f.data
    BY <1>0, <1>2, <2>7
  <2>9. /\ Turn(p, f) \in Frame /\ Turn(p, f).op = p.op /\ Turn(p, f).fin = FALSE
        /\ Turn(p, f).data = p.data /\ Turn(p, f).injected = i
        /\ Turn(p, f).valid = q.valid
    BY <1>2, <2>1, <2>3, <2>6 DEF Partial, Frame
  <2>10. ReadsText(Turn(p, f))
    BY <2>1, <2>9 DEF ReadsText, Partial
  <2>11. q.valid => i = Append(p.injected, Msg(f.op, f.data))
    BY <2>2, <2>8
  <2> QED
    BY <1>4, <2>9, <2>10, <2>11
<1>5. CASE p # NoFrame /\ f.op \notin {"ping", "pong"}
  <2>1. Turn(p, f) = q
    BY <1>1, <1>5 DEF Turn, is_injected, ControlOpcode
  <2>2. CASE f.op = "cont"
    <3>1. h.op = p.op /\ h.fin = f.fin /\ h.data = p.data /\ h.injected = p.injected
      BY <1>1, <1>5, <2>2, HeadFacts
    <3> QED
      BY <1>2, <1>5, <2>1, <2>2, <3>1
  <2>3. CASE f.op = "close"
    <3>1. h.op = "close" /\ h.fin
      BY <1>1, <1>5, <2>3, HeadFacts DEF ControlOpcode
    <3> QED
      BY <1>2, <1>5, <2>1, <2>3, <3>1
  <2>4. CASE f.op \notin {"cont", "close"}
    <3>1. ~h.valid
      BY <1>1, <1>5, <2>4, HeadFacts DEF ControlOpcode
    <3> QED
      BY <1>2, <1>5, <2>1, <3>1
  <2> QED
    BY <2>2, <2>3, <2>4
<1> QED
  BY <1>3, <1>4, <1>5

LEMMA OnPingFacts ==
  ASSUME NEW c \in Seq(Message)
  PROVE  /\ Payloads(c, "ping")[Len(c)] \in Seq(Seq(Byte))
         /\ on_ping(c) = Pongs(Payloads(c, "ping")[Len(c)])
         /\ on_ping(c) \in Seq(Message)
         /\ \A i \in 1 .. Len(on_ping(c)) : on_ping(c)[i].op = "pong"
<1>1. ASSUME NEW k \in 1 .. Len(c) PROVE c[k].data \in Seq(Byte)
  <2>1. c[k] \in Message
    BY ElementOfSeq
  <2> QED
    BY <2>1 DEF Message
<1>2. PICK a : a = Payloads(c, "ping")[Len(c)]
  OBVIOUS
<1>3. a \in Seq(Seq(Byte))
  BY <1>1, <1>2, PayloadsType
<1>4. on_ping(c) = Pongs(a)
  BY <1>2 DEF on_ping, Pongs
<1>5. /\ Pongs(a) \in Seq(Message) /\ Len(Pongs(a)) = Len(a)
      /\ \A i \in 1 .. Len(a) : Pongs(a)[i] = Msg("pong", a[i])
  BY <1>3, PongsType
<1>6. \A i \in 1 .. Len(on_ping(c)) : on_ping(c)[i].op = "pong"
  <2>1. ASSUME NEW i \in 1 .. Len(a) PROVE Pongs(a)[i].op = "pong"
    <3>1. Pongs(a)[i] = Msg("pong", a[i])
      BY <1>3, PongsType
    <3> QED
      BY <3>1 DEF Msg
  <2> QED
    BY <1>4, <1>5, <2>1
<1> QED
  BY <1>2, <1>3, <1>4, <1>5, <1>6

--------------------------------------------------------------------------------
(* The invariant                                                           *)

Reading ==
  /\ pc \in {"handshake", "http"} =>
       sent = <<>> /\ read = 0 /\ out = <<>> /\ delivered = <<>> /\ overrun = ""
  /\ pc \in {"fragment", "overrun"} => frame = NoFrame \/ Partial(frame)
  /\ pc = "overrun" => read < Len(sent) /\ overrun # ""
  /\ pc # "overrun" /\ overrun # "" => gone /\ ~cut /\ read = Len(sent)
  /\ pc = "events" /\ Partial(frame) => gone /\ ~cut /\ read = Len(sent)
  /\ ReadsText(frame)

Inv == TypeOK /\ Reading /\ CloseHandshake /\ TextNeverMalformed

LEMMA NextCases ==
  ASSUME [Next]_vars
  PROVE  \/ UNCHANGED vars
         \/ client_send \/ client_leaves
         \/ open_ws_handshake_http \/ open_ws_handshake_refused
         \/ open_ws_handshake_upgraded
         \/ wait_for_input \/ on_timer \/ next_fragment
         \/ next_fragment_missing \/ next_fragment_incomplete \/ next_frame_rescue
         \/ (\E field \in {"ext", "mask"} : next_bytes_short(field))
         \/ next_bytes_ends
         \/ process_invalid \/ process_close \/ process_frame
BY DEF Next, Server, Environment

\* The frame that next_fragment or next_bytes_ends reads.
LEMMA TurnRead ==
  ASSUME Inv, read < Len(sent), pc \in {"fragment", "overrun"}
  PROVE  /\ read + 1 \in 1 .. Len(sent) /\ sent[read + 1] \in FrameType
         /\ Turn(frame, sent[read + 1]) \in Frame
         /\ ReadsText(Turn(frame, sent[read + 1]))
<1>0. sent \in Seq(ClientFrame) /\ read \in 0 .. Len(sent)
  BY DEF Inv, TypeOK
<1>1. Len(sent) \in Nat /\ read \in Nat
  BY <1>0, LenProperties
<1>2. read + 1 \in 1 .. Len(sent)
  BY <1>1
<1>3. sent[read + 1] \in FrameType
  <2>1. sent[read + 1] \in ClientFrame
    BY <1>0, <1>2, ElementOfSeq
  <2> QED
    BY <2>1, WebSocketAssumption
<1> QED
  BY <1>2, <1>3, TurnFacts DEF Inv, Reading

\* An action that only touches what the application sees.
LEMMA TypeFrame ==
  ASSUME TypeOK, pc' \in {"wait", "done"},
         UNCHANGED <<status, readVars, clientVars>>,
         out' \in Seq(Message), delivered' \in Seq(Message), closed' \in 0 .. 1
  PROVE  TypeOK'
<1>1. /\ status' = status /\ sent' = sent /\ read' = read /\ gone' = gone
      /\ cut' = cut /\ frame' = frame /\ overrun' = overrun
  BY DEF readVars, clientVars
<1>2. (frame \in Frame \/ frame \in {NoFrame, [NoFrame EXCEPT !.valid = FALSE]})'
  BY <1>1 DEF TypeOK
<1>3. sent' \in Seq(ClientFrame) /\ read' \in 0 .. Len(sent')
  BY <1>1 DEF TypeOK
<1>4. /\ status' \in {"none", "101", "400"} /\ gone' \in BOOLEAN /\ cut' \in BOOLEAN
      /\ overrun' \in {"", "ext", "mask"}
  BY <1>1 DEF TypeOK
<1> QED
  BY <1>2, <1>3, <1>4 DEF TypeOK

LEMMA TypeStep == ASSUME Inv, [Next]_vars PROVE TypeOK'
<1> USE DEF readVars, clientVars, appVars
<1>0. /\ TypeOK /\ Reading
      /\ sent \in Seq(ClientFrame) /\ Len(sent) \in Nat /\ read \in 0 .. Len(sent)
      /\ out \in Seq(Message) /\ delivered \in Seq(Message)
  BY LenProperties DEF Inv, TypeOK
<1>1. CASE UNCHANGED vars
  BY <1>0, <1>1 DEF vars, TypeOK
<1>2. CASE client_send
  <2>1. PICK f \in ClientFrame : sent' = Append(sent, f)
    BY <1>2 DEF client_send
  <2>2. sent' \in Seq(ClientFrame) /\ Len(sent') = Len(sent) + 1
    BY <1>0, <2>1, AppendProperties
  <2>3. read' \in 0 .. Len(sent')
    BY <1>0, <1>2, <2>2 DEF client_send
  <2> QED
    BY <1>0, <1>2, <2>2, <2>3 DEF client_send, TypeOK
<1>3. CASE client_leaves
  BY <1>0, <1>3 DEF client_leaves, TypeOK
<1>4. CASE \/ open_ws_handshake_http \/ open_ws_handshake_refused
           \/ open_ws_handshake_upgraded \/ wait_for_input
  BY <1>0, <1>4
  DEF open_ws_handshake_http, open_ws_handshake_refused,
      open_ws_handshake_upgraded, wait_for_input, TypeOK
<1>5. CASE on_timer
  <2>1. Msg("text", <<"a">>) \in Message
    BY DEF Msg, Message, Opcode, DataOpcode, Byte
  <2>2. out' \in Seq(Message)
    BY <1>0, <1>5, <2>1, AppendProperties DEF on_timer
  <2> QED
    BY <1>0, <1>5, <2>2 DEF on_timer, TypeOK
<1>6. CASE next_fragment
  <2>1. Turn(frame, sent[read + 1]) \in Frame /\ read + 1 \in 0 .. Len(sent)
    BY <1>0, <1>6, TurnRead DEF next_fragment
  <2>2. frame' \in Frame /\ pc' \in {"events", "fragment"} /\ read' = read + 1
    BY <1>6, <2>1 DEF next_fragment, AfterTurn
  <2> QED
    BY <1>0, <1>6, <2>1, <2>2 DEF next_fragment, TypeOK
<1>7. CASE next_fragment_missing \/ next_fragment_incomplete
  BY <1>0, <1>7 DEF next_fragment_missing, next_fragment_incomplete, TypeOK
<1>8. CASE next_frame_rescue
  <2>1. frame' = NoFrame \/ frame' \in Frame
    <3>1. CASE frame = NoFrame
      BY <1>8, <3>1 DEF next_frame_rescue, NoFrame
    <3>2. CASE frame # NoFrame
      <4>1. frame \in Frame /\ frame' = [frame EXCEPT !.valid = FALSE]
        BY <1>0, <1>8, <3>2 DEF next_frame_rescue, Reading, Partial
      <4> QED
        BY <4>1 DEF Frame
    <3> QED
      BY <3>1, <3>2
  <2> QED
    BY <1>0, <1>8, <2>1 DEF next_frame_rescue, TypeOK
<1>9. CASE \E field \in {"ext", "mask"} : next_bytes_short(field)
  BY <1>0, <1>9 DEF next_bytes_short, TypeOK
<1>10. CASE next_bytes_ends
  <2>1. Turn(frame, sent[read + 1]) \in Frame
    BY <1>0, <1>10, TurnRead DEF next_bytes_ends, Reading
  <2>2. \/ frame' \in Frame
        \/ frame' = [NoFrame EXCEPT !.valid = FALSE]
    BY <1>10, <2>1 DEF next_bytes_ends
  <2>3. pc' \in {"events", "fragment"} /\ read' = Len(sent)
    BY <1>10 DEF next_bytes_ends, AfterTurn
  <2>4. UNCHANGED <<status, overrun, sent, gone, appVars>> /\ cut' = FALSE
    BY <1>10 DEF next_bytes_ends
  <2>5. read' \in 0 .. Len(sent')
    <3>1. sent' = sent
      BY <2>4
    <3>2. Len(sent) \in 0 .. Len(sent)
      BY <1>0
    <3> QED
      BY <2>3, <3>1, <3>2
  <2> QED
    BY <1>0, <2>2, <2>3, <2>4, <2>5 DEF TypeOK
<1>11. CASE process_invalid \/ process_close
  <2>1. PICK b \in Seq(Message) : out' = (out \o b) \o <<Msg("close", <<>>)>>
    <3>1. CASE process_invalid
      BY <3>1, EmptySeq DEF process_invalid, on_connection_close
    <3>2. CASE process_close
      <4>1. frame \in Frame
        BY <1>0, <3>2, NoFrameFacts DEF process_close, TypeOK
      <4>2. frame.injected \in Seq(Message)
        BY <4>1 DEF Frame
      <4> QED
        BY <3>2, <4>2, OnPingFacts DEF process_close, on_connection_close
    <3> QED
      BY <1>11, <3>1, <3>2
  <2>2. Msg("close", <<>>) \in Message
    BY EmptySeq DEF Msg, Message, Opcode, ControlOpcode
  <2>3. out \o b \in Seq(Message) /\ <<Msg("close", <<>>)>> \in Seq(Message)
    BY <1>0, <2>2, ConcatProperties
  <2>4. out' \in Seq(Message)
    BY <2>1, <2>3, ConcatProperties
  <2>5. closed' = 1
    BY <1>11
    DEF process_invalid, process_close, on_connection_close, Inv, CloseHandshake
  <2>6. /\ pc' = "done" /\ UNCHANGED <<status, readVars, clientVars, delivered>>
    BY <1>11 DEF process_invalid, process_close, on_connection_close
  <2>7. closed' \in 0 .. 1
    BY <2>5
  <2>8. delivered' \in Seq(Message)
    BY <1>0, <2>6
  <2>9. UNCHANGED <<status, readVars, clientVars>> /\ pc' = "done"
    BY <2>6
  <2> QED
    BY <1>0, <2>4, <2>7, <2>8, <2>9, TypeFrame
<1>12. CASE process_frame
  <2>1. frame \in Frame
    BY <1>0, <1>12, NoFrameFacts DEF process_frame, TypeOK, DataOpcode
  <2>2. Msg(frame.op, frame.data) \in Message /\ frame.injected \in Seq(Message)
    BY <2>1 DEF Frame, Msg, Message
  <2>3. Append(frame.injected, Msg(frame.op, frame.data)) \in Seq(Message)
    BY <2>2, AppendProperties
  <2>4. out' \in Seq(Message)
    BY <1>0, <1>12, <2>3, OnPingFacts, ConcatProperties DEF process_frame
  <2>5. delivered' \in Seq(Message)
    BY <1>0, <1>12, <2>2, AppendProperties DEF process_frame
  <2>6. /\ pc' = "wait" /\ UNCHANGED <<status, readVars, clientVars, closed>>
    BY <1>12 DEF process_frame
  <2>7. closed' \in 0 .. 1
    BY <1>0, <2>6 DEF TypeOK
  <2> QED
    BY <1>0, <2>4, <2>5, <2>6, <2>7, TypeFrame
<1> QED
  BY <1>1, <1>2, <1>3, <1>4, <1>5, <1>6, <1>7, <1>8, <1>9, <1>10, <1>11, <1>12,
     NextCases

\* After a turn that does not end the loop the frame is part of a message.
LEMMA TurnPartial ==
  ASSUME NEW p, p = NoFrame \/ Partial(p), NEW f \in FrameType, ReadsText(p),
         AfterTurn(Turn(p, f)) = "fragment"
  PROVE  Partial(Turn(p, f))
<1>1. PICK r : r = Turn(p, f)
  OBVIOUS
<1>2. r \in Frame /\ r.valid /\ ~r.fin
  <2>1. r \in Frame
    BY <1>1, TurnFacts
  <2> QED
    BY <1>1, <2>1 DEF AfterTurn, Frame
<1>3. CASE p = NoFrame
  <2>1. /\ r.op = f.op /\ r.fin = f.fin /\ f.op \notin {"cont", "reserved"}
        /\ f.op \in ControlOpcode => f.fin
    BY <1>1, <1>2, <1>3, TurnFacts
  <2>2. f.op \in Opcode
    BY DEF FrameType
  <2>3. f.op \in DataOpcode
    BY <1>2, <2>1, <2>2 DEF Opcode
  <2> QED
    BY <1>1, <1>2, <2>1, <2>3 DEF Partial
<1>4. CASE p # NoFrame
  <2>1. r.op = p.op \/ r.fin
    BY <1>1, <1>2, <1>4, TurnFacts
  <2>2. r.op = p.op
    BY <1>2, <2>1
  <2>3. p.op \in DataOpcode
    BY <1>4 DEF Partial
  <2> QED
    BY <1>1, <1>2, <2>2, <2>3 DEF Partial
<1> QED
  BY <1>3, <1>4

LEMMA ReadingStep == ASSUME Inv, [Next]_vars PROVE Reading'
<1> USE DEF readVars, clientVars, appVars
<1>0. /\ TypeOK /\ Reading
      /\ sent \in Seq(ClientFrame) /\ Len(sent) \in Nat /\ read \in 0 .. Len(sent)
  BY LenProperties DEF Inv, TypeOK
<1>1. CASE UNCHANGED vars
  BY <1>0, <1>1 DEF vars, Reading, Partial, ReadsText
<1>2. CASE client_send
  <2>1. Len(sent') = Len(sent) + 1
    BY <1>0, <1>2, AppendProperties DEF client_send
  <2> QED
    <3>1. /\ pc \notin {"handshake", "http"} /\ ~gone
          /\ UNCHANGED <<pc, status, readVars, appVars, gone, cut>>
      BY <1>2 DEF client_send
    <3>2. Partial(frame)' = Partial(frame) /\ ReadsText(frame)' = ReadsText(frame)
      BY <3>1 DEF Partial, ReadsText
    <3>3. pc = "overrun" => read < Len(sent')
      <4>1. pc = "overrun" => read < Len(sent)
        BY <1>0 DEF Reading
      <4>2. read \in Nat
        BY <1>0
      <4> QED
        BY <1>0, <2>1, <4>1, <4>2
    <3> QED
      BY <1>0, <3>1, <3>2, <3>3 DEF Reading
<1>3. CASE client_leaves
  BY <1>0, <1>3 DEF client_leaves, Reading, Partial, ReadsText
<1>4. CASE \/ open_ws_handshake_http \/ open_ws_handshake_refused
           \/ open_ws_handshake_upgraded
  BY <1>0, <1>4
  DEF open_ws_handshake_http, open_ws_handshake_refused,
      open_ws_handshake_upgraded, Reading, Partial, ReadsText
<1>5. CASE wait_for_input
  BY <1>0, <1>5, NoFrameFacts DEF wait_for_input, Reading, ReadsText
<1>6. CASE on_timer
  BY <1>0, <1>6 DEF on_timer, Reading, Partial, ReadsText
<1>7. CASE next_fragment
  <2>1. /\ frame' \in Frame /\ ReadsText(frame)' /\ read < Len(sent)
        /\ pc' = AfterTurn(frame)' /\ sent' = sent /\ overrun' = overrun
        /\ pc = "fragment"
    BY <1>0, <1>7, TurnRead DEF next_fragment, ReadsText, AfterTurn
  <2>2. pc' = "events" => ~Partial(frame)'
    BY <2>1 DEF AfterTurn, Partial
  <2>3. pc' = "fragment" => Partial(frame)'
    <3>1. PICK f : f = sent[read + 1] /\ f \in FrameType
      BY <2>1, TurnRead
    <3>2. /\ frame' = Turn(frame, f) /\ ReadsText(frame)
          /\ frame = NoFrame \/ Partial(frame)
      BY <1>0, <1>7, <3>1 DEF next_fragment, Reading
    <3>3. pc' = AfterTurn(Turn(frame, f))
      BY <2>1, <3>2
    <3>4. pc' = "fragment" => Partial(Turn(frame, f))
      BY <3>1, <3>2, <3>3, TurnPartial
    <3> QED
      BY <3>2, <3>4 DEF Partial
  <2>4. overrun = ""
    <3>1. read # Len(sent) /\ pc # "overrun"
      BY <1>0, <2>1
    <3> QED
      BY <1>0, <3>1 DEF Reading
  <2>5. pc' \in {"events", "fragment"}
    BY <2>1 DEF AfterTurn
  <2> QED
    BY <2>1, <2>2, <2>3, <2>4, <2>5 DEF Reading
<1>8. CASE next_fragment_missing
  BY <1>0, <1>8 DEF next_fragment_missing, Reading, Partial, ReadsText
<1>9. CASE next_fragment_incomplete
  BY <1>0, <1>9, NoFrameFacts DEF next_fragment_incomplete, Reading, Partial, ReadsText
<1>10. CASE next_frame_rescue
  <2>1. frame' = NoFrame \/ (frame'.valid = FALSE)
    <3>1. CASE frame = NoFrame
      BY <1>10, <3>1 DEF next_frame_rescue, NoFrame
    <3>2. CASE frame # NoFrame
      BY <1>0, <1>10, <3>2 DEF next_frame_rescue, Reading, Partial, Frame
    <3> QED
      BY <3>1, <3>2
  <2>2. ~Partial(frame)' /\ ReadsText(frame)'
    BY <2>1, NoFrameFacts DEF Partial, ReadsText
  <2> QED
    BY <1>0, <1>10, <2>2 DEF next_frame_rescue, Reading
<1>11. CASE \E field \in {"ext", "mask"} : next_bytes_short(field)
  BY <1>0, <1>11 DEF next_bytes_short, Reading, Partial, ReadsText
<1>12. CASE next_bytes_ends
  <2>1. /\ read < Len(sent) /\ gone' /\ ~cut' /\ read' = Len(sent') /\ pc = "overrun"
        /\ pc' \in {"events", "fragment"} /\ pc' = AfterTurn(frame)'
    BY <1>0, <1>12 DEF next_bytes_ends, Reading, AfterTurn
  <2>2. CASE frame' = [NoFrame EXCEPT !.valid = FALSE]
    <3>1. pc' = "events" /\ ReadsText(frame)'
      BY <2>1, <2>2, NoFrameFacts DEF AfterTurn, ReadsText
    <3> QED
      BY <2>1, <3>1 DEF Reading
  <2>3. CASE frame' = Turn(frame, sent[read + 1])
    <3>1. PICK f : f = sent[read + 1] /\ f \in FrameType
      BY <2>1, TurnRead
    <3>2. (frame = NoFrame \/ Partial(frame)) /\ ReadsText(frame)
      BY <1>0, <2>1 DEF Reading
    <3>3. frame' \in Frame /\ ReadsText(frame)'
      BY <2>3, <3>1, <3>2, TurnFacts DEF ReadsText
    <3>4. pc' = AfterTurn(Turn(frame, f))
      BY <2>1, <2>3, <3>1
    <3>5. pc' = "fragment" => Partial(Turn(frame, f))
      BY <3>1, <3>2, <3>4, TurnPartial
    <3>6. pc' = "fragment" => Partial(frame)'
      BY <2>3, <3>1, <3>5 DEF Partial
    <3> QED
      BY <2>1, <3>3, <3>6 DEF Reading
  <2> QED
    BY <1>12, <2>2, <2>3 DEF next_bytes_ends
<1>13. CASE process_invalid \/ process_close \/ process_frame
  <2>1. /\ pc' \in {"wait", "done"} /\ pc = "events"
        /\ UNCHANGED <<readVars, clientVars>>
    BY <1>13 DEF process_invalid, process_close, process_frame, on_connection_close
  <2>2. ReadsText(frame)' = ReadsText(frame)
    BY <2>1 DEF ReadsText
  <2> QED
    BY <1>0, <2>1, <2>2 DEF Reading
<1> QED
  BY <1>1, <1>2, <1>3, <1>4, <1>5, <1>6, <1>7, <1>8, <1>9, <1>10, <1>11, <1>12,
     <1>13, NextCases

LEMMA NoneAdded ==
  ASSUME NEW a \in Seq(Message), NEW b \in Seq(Message),
         \A i \in DOMAIN a : a[i].op # "close",
         \A i \in 1 .. Len(b) : b[i].op = "pong"
  PROVE  \A i \in DOMAIN (a \o b) : (a \o b)[i].op # "close"
<1>1. /\ a \o b \in Seq(Message) /\ Len(a \o b) = Len(a) + Len(b)
      /\ Len(a) \in Nat /\ Len(b) \in Nat
  BY ConcatProperties, LenProperties
<1>2. DOMAIN (a \o b) = 1 .. Len(a) + Len(b) /\ DOMAIN a = 1 .. Len(a)
  BY <1>1, LenProperties
<1>3. ASSUME NEW i \in 1 .. Len(a) + Len(b) PROVE (a \o b)[i].op # "close"
  <2>1. CASE i <= Len(a)
    BY <1>1, <1>2, <2>1, ConcatProperties
  <2>2. CASE i > Len(a)
    <3>1. i - Len(a) \in 1 .. Len(b) /\ (a \o b)[i] = b[i - Len(a)]
      BY <1>1, <2>2, ConcatProperties
    <3> QED
      BY <3>1
  <2> QED
    BY <1>1, <2>1, <2>2
<1> QED
  BY <1>2, <1>3

\* Until the connection ends nothing that is sent is a close frame.
LEMMA CloseStep == ASSUME Inv, [Next]_vars PROVE CloseHandshake'
<1> USE DEF readVars, clientVars, appVars
<1>0. TypeOK /\ CloseHandshake /\ out \in Seq(Message) /\ Len(out) \in Nat
  BY LenProperties DEF Inv, TypeOK
<1>1. CASE UNCHANGED <<pc, appVars>>
  BY <1>0, <1>1 DEF CloseHandshake
<1>2. CASE /\ UNCHANGED appVars
           /\ pc # "done" /\ pc' # "done"
  BY <1>0, <1>2 DEF CloseHandshake
<1>3. CASE on_timer
  <2>1. Msg("text", <<"a">>) \in Message /\ Msg("text", <<"a">>).op = "text"
    BY DEF Msg, Message, Opcode, DataOpcode, Byte
  <2>2. PICK m \in Message : m.op = "text" /\ out' = Append(out, m)
    BY <1>3, <2>1 DEF on_timer
  <2>3. \A i \in DOMAIN out : out[i].op # "close"
    BY <1>0, <1>3 DEF on_timer, CloseHandshake
  <2>4. \A i \in DOMAIN out' : out'[i].op # "close"
    BY <1>0, <2>2, <2>3, AppendProperties, LenProperties
  <2> QED
    BY <1>0, <1>3, <2>4 DEF on_timer, CloseHandshake
<1>4. CASE process_frame
  <2>1. frame \in Frame
    BY <1>0, <1>4, NoFrameFacts DEF process_frame, TypeOK, DataOpcode
  <2>2. Msg(frame.op, frame.data) \in Message /\ frame.injected \in Seq(Message)
    BY <2>1 DEF Frame, Msg, Message
  <2>3. PICK c \in Seq(Message) : c = Append(frame.injected, Msg(frame.op, frame.data))
    BY <2>2, AppendProperties
  <2>4. PICK b \in Seq(Message) :
          out' = out \o b /\ \A i \in 1 .. Len(b) : b[i].op = "pong"
    BY <1>4, <2>3, OnPingFacts DEF process_frame
  <2>5. \A i \in DOMAIN out : out[i].op # "close"
    BY <1>0, <1>4 DEF process_frame, CloseHandshake
  <2>6. \A i \in DOMAIN out' : out'[i].op # "close"
    BY <1>0, <2>4, <2>5, NoneAdded
  <2> QED
    BY <1>0, <1>4, <2>6 DEF process_frame, CloseHandshake
<1>5. CASE process_invalid \/ process_close
  <2>1. PICK b \in Seq(Message) :
          /\ out' = (out \o b) \o <<Msg("close", <<>>)>>
          /\ \A i \in 1 .. Len(b) : b[i].op = "pong"
    <3>1. CASE process_invalid
      <4>1. PICK e \in Seq(Message) : e = <<>> /\ Len(e) = 0
        BY EmptySeq
      <4>2. out' = (out \o e) \o <<Msg("close", <<>>)>>
        BY <3>1, <4>1 DEF process_invalid, on_connection_close
      <4>3. \A i \in 1 .. Len(e) : e[i].op = "pong"
        BY <4>1
      <4> QED
        BY <4>2, <4>3
    <3>2. CASE process_close
      <4>1. frame \in Frame
        BY <1>0, <3>2, NoFrameFacts DEF process_close, TypeOK
      <4>2. frame.injected \in Seq(Message)
        BY <4>1 DEF Frame
      <4> QED
        BY <3>2, <4>2, OnPingFacts DEF process_close, on_connection_close
    <3> QED
      BY <1>5, <3>1, <3>2
  <2>2. pc = "events" /\ pc' = "done" /\ closed' = closed + 1
    BY <1>5 DEF process_invalid, process_close, on_connection_close
  <2>3. closed' = 1
    BY <1>0, <2>2 DEF CloseHandshake
  <2>4. \A i \in DOMAIN out : out[i].op # "close"
    BY <1>0, <2>2 DEF CloseHandshake
  <2>5. PICK o \in Seq(Message) : o = out \o b
    BY <1>0, <2>1, ConcatProperties
  <2>6. \A i \in DOMAIN o : o[i].op # "close"
    BY <1>0, <2>1, <2>4, <2>5, NoneAdded
  <2>7. PICK m \in Message : m = Msg("close", <<>>) /\ m.op = "close"
    <3>1. Msg("close", <<>>) \in Message
      BY EmptySeq DEF Msg, Message, Opcode, ControlOpcode
    <3>2. Msg("close", <<>>).op = "close"
      BY DEF Msg
    <3> QED
      BY <3>1, <3>2
  <2>8. out' = o \o <<m>>
    BY <2>1, <2>5, <2>7
  <2>9. {i \in DOMAIN out' : out'[i].op = "close"} = {Len(out')}
    BY <2>6, <2>7, <2>8, LenProperties
  <2> QED
    BY <2>2, <2>3, <2>9 DEF CloseHandshake
<1> QED
  BY <1>1, <1>2, <1>3, <1>4, <1>5, NextCases
  DEF vars, client_send, client_leaves, open_ws_handshake_http,
      open_ws_handshake_refused, open_ws_handshake_upgraded, wait_for_input,
      next_fragment, next_fragment_missing, next_fragment_incomplete,
      next_frame_rescue, next_bytes_short, next_bytes_ends, AfterTurn

\* Every text that is delivered was checked when its last bytes came.
LEMMA TextStep == ASSUME Inv, [Next]_vars PROVE TextNeverMalformed'
<1> USE DEF readVars, clientVars, appVars
<1>0. TypeOK /\ Reading /\ TextNeverMalformed /\ delivered \in Seq(Message)
  BY DEF Inv, TypeOK
<1>1. CASE delivered' = delivered
  BY <1>0, <1>1 DEF TextNeverMalformed
<1>2. CASE delivered' # delivered
  <2>1. process_frame
    BY <1>2, NextCases
    DEF vars, client_send, client_leaves, open_ws_handshake_http,
        open_ws_handshake_refused, open_ws_handshake_upgraded, wait_for_input,
        on_timer, next_fragment, next_fragment_missing, next_fragment_incomplete,
        next_frame_rescue, next_bytes_short, next_bytes_ends,
        process_invalid, process_close, on_connection_close
  <2>2. frame \in Frame
    BY <1>0, <2>1, NoFrameFacts DEF process_frame, TypeOK, DataOpcode
  <2>3. PICK m \in Message : m = Msg(frame.op, frame.data)
    BY <2>2 DEF Frame, Msg, Message
  <2>4. m.op = "text" => is_valid_utf_8(m.data, TRUE)
    BY <1>0, <2>1, <2>3 DEF Reading, ReadsText, Msg, process_frame
  <2>5. delivered' = Append(delivered, m)
    BY <1>2, <2>1, <2>3 DEF process_frame
  <2>6. ASSUME NEW i \in 1 .. Len(delivered'), delivered'[i].op = "text"
        PROVE  is_valid_utf_8(delivered'[i].data, TRUE)
    <3>1. CASE i = Len(delivered) + 1
      <4>1. delivered'[i] = m
        BY <1>0, <2>5, <3>1, AppendProperties
      <4> QED
        BY <2>4, <2>6, <4>1
    <3>2. CASE i # Len(delivered) + 1
      <4>1. i \in 1 .. Len(delivered) /\ delivered'[i] = delivered[i]
        BY <1>0, <2>5, <3>2, AppendProperties, LenProperties
      <4> QED
        BY <1>0, <2>6, <4>1 DEF TextNeverMalformed
    <3> QED
      BY <3>1, <3>2
  <2> QED
    BY <2>6 DEF TextNeverMalformed
<1> QED
  BY <1>1, <1>2

LEMMA Initially == Init => Inv
<1> SUFFICES ASSUME Init PROVE Inv
  OBVIOUS
<1>0. /\ sent \in Seq(ClientFrame) /\ Len(sent) = 0
      /\ out \in Seq(Message) /\ Len(out) = 0
      /\ delivered \in Seq(Message) /\ Len(delivered) = 0
  BY EmptySeq DEF Init
<1>1. TypeOK
  <2>1. /\ pc = "handshake" /\ status = "none" /\ read = 0 /\ gone = FALSE
        /\ cut = FALSE /\ frame = NoFrame /\ overrun = "" /\ closed = 0
    BY DEF Init
  <2>2. read \in 0 .. Len(sent)
    <3>1. read = 0 /\ Len(sent) = 0
      BY <1>0, <2>1
    <3> QED
      BY <3>1
  <2>3. closed \in 0 .. 1
    <3>1. closed = 0
      BY <2>1
    <3> QED
      BY <3>1
  <2> QED
    BY <1>0, <2>1, <2>2, <2>3 DEF TypeOK
<1>2. Reading
  BY NoFrameFacts DEF Init, Reading, ReadsText
<1>3. CloseHandshake
  <2>1. DOMAIN out = {}
    BY <1>0, LenProperties
  <2>2. pc = "handshake" /\ closed = 0
    BY DEF Init
  <2> QED
    BY <2>1, <2>2 DEF CloseHandshake
<1>4. TextNeverMalformed
  BY <1>0 DEF TextNeverMalformed
<1> QED
  BY <1>1, <1>2, <1>3, <1>4 DEF Inv

LEMMA Invariant == Spec => []Inv
<1>1. Inv /\ [Next]_vars => Inv'
  BY TypeStep, ReadingStep, CloseStep, TextStep DEF Inv
<1> QED
  BY <1>1, Initially, PTL DEF Spec

\* Type correctness of the connection: frame is Void, an error, or a frame of
\* the protocol, and no more is read than was sent.
THEOREM TypeCorrect == Spec => []TypeOK
<1>1. Inv => TypeOK
  BY DEF Inv
<1> QED
  BY <1>1, Invariant, PTL

\* However the connection ends, on_connection_close runs once: one close frame,
\* the last thing sent, and one call of on_close.
THEOREM ClosesOnce == Spec => []CloseHandshake
<1>1. Inv => CloseHandshake
  BY DEF Inv
<1> QED
  BY <1>1, Invariant, PTL

\* The checks of append_payload_data_chop are enough: no text reaches on_text
\* with bytes that start no UTF-8 text, however it was split.
THEOREM TextIsUtf8 == Spec => []TextNeverMalformed
<1>1. Inv => TextNeverMalformed
  BY DEF Inv
<1> QED
  BY <1>1, Invariant, PTL

--------------------------------------------------------------------------------
(* Pings and their answers                                                 *)

Pings(controls) == Payloads(controls, "ping")[Len(controls)]
Pinged == Payloads(sent, "ping")[read]
Ponged == Payloads(out, "pong")[Len(out)]

\* The pings read so far are the ones answered, then the ones that the frame at
\* hand still holds.
Answering ==
  overrun = "" =>
    /\ pc = "wait" => Ponged = Pinged
    /\ pc = "fragment" => Ponged \o Pings(frame.injected) = Pinged
    /\ pc = "events" /\ frame \in Frame /\ frame.valid /\ frame.op # "close" =>
         Ponged \o Pings(Append(frame.injected, Msg(frame.op, frame.data))) = Pinged

LEMMA GainConcat ==
  ASSUME NEW a \in Seq(Seq(Byte)), NEW b \in Seq(Seq(Byte)),
         NEW e, e.data \in Seq(Byte), NEW o
  PROVE  a \o Gain(b, e, o) = Gain(a \o b, e, o)
BY ConcatAppend DEF Gain

LEMMA PingsAppend ==
  ASSUME NEW c \in Seq(Message), NEW o, NEW d
  PROVE  Pings(Append(c, Msg(o, d))) = Gain(Pings(c), Msg(o, d), "ping")
BY PayloadsAppend DEF Pings

LEMMA PingsNone == Pings(<<>>) = <<>>
<1>1. Len(<<>>) = 0
  BY EmptySeq
<1>2. Payloads(<<>>, "ping")[0] = <<>>
  BY <1>1, PayloadsFacts
<1> QED
  BY <1>1, <1>2 DEF Pings

LEMMA GainMsg ==
  ASSUME NEW a, NEW f
  PROVE  /\ Gain(a, Msg(f.op, f.data), "ping") = Gain(a, f, "ping")
         /\ f.op # "ping" => Gain(a, f, "ping") = a
BY DEF Gain, Msg

\* A turn keeps the account of the pings, wherever the ping was.
LEMMA PingsTurn ==
  ASSUME NEW p, p = NoFrame \/ Partial(p), NEW f \in FrameType, ReadsText(p),
         NEW a \in Seq(Seq(Byte)), NEW r, r = Turn(p, f), r.valid, r.op # "close"
  PROVE  /\ AfterTurn(r) = "fragment" =>
              a \o Pings(r.injected) = Gain(a \o Pings(p.injected), f, "ping")
         /\ AfterTurn(r) = "events" =>
              a \o Pings(Append(r.injected, Msg(r.op, r.data)))
                = Gain(a \o Pings(p.injected), f, "ping")
<1>0. f.data \in Seq(Byte) /\ f.op \in Opcode /\ f.fin \in BOOLEAN
  BY DEF FrameType
<1>1. p.injected \in Seq(Message)
  BY NoFrameFacts, EmptySeq DEF Partial, Frame
<1>2. PICK b \in Seq(Seq(Byte)) : b = Pings(p.injected)
  BY <1>1, OnPingFacts DEF Pings
<1>3. a \o Gain(b, f, "ping") = Gain(a \o b, f, "ping")
  BY <1>0, GainConcat
<1>4. CASE p = NoFrame
  <2>1. /\ r.op = f.op /\ r.fin = f.fin /\ r.data = f.data /\ r.injected = <<>>
        /\ f.op \in ControlOpcode => f.fin
    BY <1>4, TurnFacts
  <2>2. p.injected = <<>>
    BY <1>4, NoFrameFacts
  <2>3. AfterTurn(r) = "fragment" => f.op # "ping"
    BY <2>1 DEF AfterTurn, ControlOpcode
  <2>4. f.op # "ping" => Gain(b, f, "ping") = b
    BY GainMsg
  <2>5. AfterTurn(r) = "fragment" => a \o Pings(r.injected) = Gain(a \o b, f, "ping")
    BY <1>2, <1>3, <2>1, <2>2, <2>3, <2>4
  <2>6. Pings(Append(p.injected, Msg(f.op, f.data))) = Gain(b, Msg(f.op, f.data), "ping")
    BY <1>1, <1>2, PingsAppend
  <2>7. Pings(Append(r.injected, Msg(r.op, r.data))) = Gain(b, f, "ping")
    BY <2>1, <2>2, <2>6, GainMsg
  <2> QED
    BY <1>2, <1>3, <2>5, <2>7
<1>5. CASE p # NoFrame /\ f.op = "cont"
  <2>1. r.op = p.op /\ r.injected = p.injected
    BY <1>5, TurnFacts
  <2>2. r.op # "ping"
    BY <1>5, <2>1 DEF Partial, DataOpcode
  <2>3. Gain(a \o b, f, "ping") = a \o b
    BY <1>5, GainMsg
  <2>4. Pings(Append(p.injected, Msg(r.op, r.data))) = Gain(b, Msg(r.op, r.data), "ping")
    BY <1>1, <1>2, PingsAppend
  <2>5. Gain(b, Msg(r.op, r.data), "ping") = b
    BY <2>2, GainMsg
  <2> QED
    BY <1>2, <2>1, <2>3, <2>4, <2>5
<1>6. CASE p # NoFrame /\ f.op # "cont"
  <2>1. r.fin = FALSE /\ r.injected = Append(p.injected, Msg(f.op, f.data))
    BY <1>6, TurnFacts
  <2>2. AfterTurn(r) = "fragment"
    BY <2>1 DEF AfterTurn
  <2>3. Pings(Append(p.injected, Msg(f.op, f.data))) = Gain(b, Msg(f.op, f.data), "ping")
    BY <1>1, <1>2, PingsAppend
  <2>4. Pings(r.injected) = Gain(b, f, "ping")
    BY <2>1, <2>3, GainMsg
  <2> QED
    BY <1>2, <1>3, <2>2, <2>4
<1> QED
  BY <1>4, <1>5, <1>6

LEMMA PingsStep == ASSUME Inv, Inv', Answering, [Next]_vars PROVE Answering'
<1> USE DEF readVars, clientVars, appVars
<1>0. /\ TypeOK /\ Reading
      /\ sent \in Seq(ClientFrame) /\ Len(sent) \in Nat /\ read \in 0 .. Len(sent)
      /\ out \in Seq(Message)
  BY LenProperties DEF Inv, TypeOK
<1>1. Ponged \in Seq(Seq(Byte))
  <2>1. ASSUME NEW k \in 1 .. Len(out) PROVE out[k].data \in Seq(Byte)
    <3>1. out[k] \in Message
      BY <1>0, ElementOfSeq
    <3> QED
      BY <3>1 DEF Message
  <2>2. Len(out) \in Nat /\ Len(out) \in 0 .. Len(out)
    BY <1>0, LenProperties
  <2> QED
    BY <2>1, <2>2, PayloadsType DEF Ponged
<1>2. CASE UNCHANGED vars
  BY <1>2 DEF vars, Answering, Pinged, Ponged
<1>3. CASE client_send
  <2>1. PICK f \in ClientFrame : sent' = Append(sent, f)
    BY <1>3 DEF client_send
  <2>2. UNCHANGED <<pc, status, readVars, appVars>>
    BY <1>3 DEF client_send
  <2>3. Len(sent') = Len(sent) + 1 /\ \A k \in 1 .. Len(sent) : sent'[k] = sent[k]
    BY <1>0, <2>1, AppendProperties
  <2>4. Payloads(sent', "ping")[read] = Payloads(sent, "ping")[read]
    <3>1. read \in Nat /\ read <= Len(sent) /\ read <= Len(sent') /\ Len(sent') \in Nat
      BY <1>0, <2>3
    <3>2. \A k \in 1 .. read : sent'[k] = sent[k]
      BY <1>0, <2>3, <3>1
    <3> QED
      BY <1>0, <3>1, <3>2, PayloadsPrefix
  <2>5. Pinged' = Pinged /\ Ponged' = Ponged
    BY <2>2, <2>4 DEF Pinged, Ponged
  <2> QED
    BY <2>2, <2>5 DEF Answering
<1>4. CASE \/ client_leaves \/ open_ws_handshake_http \/ open_ws_handshake_refused
           \/ next_fragment_incomplete \/ next_frame_rescue
           \/ process_invalid \/ process_close \/ next_bytes_ends
           \/ \E field \in {"ext", "mask"} : next_bytes_short(field)
  <2>1. CASE client_leaves
    BY <2>1 DEF client_leaves, Answering, Pinged, Ponged
  <2>2. CASE \/ open_ws_handshake_http \/ open_ws_handshake_refused
             \/ process_invalid \/ process_close
    <3>1. pc' \in {"http", "done"}
      BY <2>2 DEF open_ws_handshake_http, open_ws_handshake_refused,
                  process_invalid, process_close, on_connection_close
    <3> QED
      BY <3>1 DEF Answering
  <2>3. CASE next_fragment_incomplete \/ next_frame_rescue
    <3>1. pc' = "events" /\ ~(frame' \in Frame /\ frame'.valid)
      <4>1. CASE next_fragment_incomplete
        BY <4>1, NoFrameFacts DEF next_fragment_incomplete
      <4>2. CASE next_frame_rescue /\ frame = NoFrame
        BY <4>2, NoFrameFacts DEF next_frame_rescue, NoFrame
      <4>3. CASE next_frame_rescue /\ frame # NoFrame
        BY <1>0, <4>3 DEF next_frame_rescue, Reading, Partial, Frame
      <4> QED
        BY <2>3, <4>1, <4>2, <4>3
    <3> QED
      BY <3>1 DEF Answering
  <2>4. CASE next_bytes_ends \/ \E field \in {"ext", "mask"} : next_bytes_short(field)
    <3>1. overrun' # ""
      BY <1>0, <2>4 DEF next_bytes_ends, next_bytes_short, Reading
    <3> QED
      BY <3>1 DEF Answering
  <2> QED
    BY <1>4, <2>1, <2>2, <2>3, <2>4
<1>5. CASE open_ws_handshake_upgraded
  <2>1. pc' = "wait" /\ out' = <<>> /\ sent' = <<>> /\ read' = 0
    BY <1>0, <1>5 DEF open_ws_handshake_upgraded, Reading
  <2>2. Len(<<>>) = 0
    BY EmptySeq
  <2>3. Payloads(<<>>, "ping")[0] = <<>> /\ Payloads(<<>>, "pong")[0] = <<>>
    BY <2>2, PayloadsFacts
  <2>4. Ponged' = Pinged'
    BY <2>1, <2>2, <2>3 DEF Pinged, Ponged
  <2> QED
    BY <2>1, <2>4 DEF Answering
<1>6. CASE wait_for_input
  <2>1. /\ pc = "wait" /\ pc' = "fragment" /\ frame' = NoFrame /\ overrun' = overrun
        /\ Pinged' = Pinged /\ Ponged' = Ponged
    BY <1>6 DEF wait_for_input, Pinged, Ponged
  <2>2. Pings(frame'.injected) = <<>>
    BY <2>1, NoFrameFacts, PingsNone
  <2>3. Ponged \o <<>> = Ponged
    BY <1>1, ConcatEmptySeq
  <2> QED
    BY <2>1, <2>2, <2>3 DEF Answering
<1>7. CASE on_timer
  <2>1. /\ pc = "wait" /\ pc' = "wait" /\ overrun' = overrun /\ Pinged' = Pinged
        /\ out' = Append(out, Msg("text", <<"a">>))
    BY <1>7 DEF on_timer, Pinged
  <2>2. Ponged' = Gain(Ponged, Msg("text", <<"a">>), "pong")
    BY <1>0, <2>1, PayloadsAppend DEF Ponged
  <2>3. Ponged' = Ponged
    BY <2>2 DEF Gain, Msg
  <2> QED
    BY <2>1, <2>3 DEF Answering
<1>8. CASE next_fragment
  <2>1. PICK f : f = sent[read + 1] /\ f \in FrameType
    BY <1>0, <1>8, TurnRead DEF next_fragment
  <2>2. /\ pc = "fragment" /\ (frame = NoFrame \/ Partial(frame)) /\ ReadsText(frame)
        /\ overrun' = overrun /\ Ponged' = Ponged
        /\ frame' = Turn(frame, f) /\ pc' = AfterTurn(frame')
        /\ sent' = sent /\ read' = read + 1 /\ read < Len(sent)
    BY <1>0, <1>8, <2>1 DEF next_fragment, Reading, Ponged
  <2>3. Pinged' = Gain(Pinged, f, "ping")
    <3>1. read + 1 \in 1 .. Len(sent) /\ (read + 1) - 1 = read
      BY <1>0, <2>2
    <3>2. Payloads(sent, "ping")[read + 1]
            = Gain(Payloads(sent, "ping")[(read + 1) - 1], sent[read + 1], "ping")
      BY <1>0, <3>1, PayloadsFacts
    <3> QED
      BY <2>1, <2>2, <3>1, <3>2 DEF Pinged
  <2>4. pc' \in {"events", "fragment"}
    BY <2>2 DEF AfterTurn
  <2>5. frame'.op = "close" => pc' # "fragment"
    <3>1. pc' = "fragment" => (frame = NoFrame \/ Partial(frame))'
      BY DEF Inv, Reading
    <3>2. pc' = "fragment" => frame'.op \in DataOpcode \cup {"none"}
      BY <3>1, NoFrameFacts DEF Partial
    <3> QED
      BY <3>2 DEF DataOpcode
  <2>6. pc' = "fragment" => frame'.valid
    BY <2>2 DEF AfterTurn
  <2>7. ASSUME frame'.valid, frame'.op # "close", overrun = ""
        PROVE  /\ pc' = "fragment" => Ponged \o Pings(frame'.injected) = Pinged'
               /\ pc' = "events" =>
                    Ponged \o Pings(Append(frame'.injected, Msg(frame'.op, frame'.data)))
                      = Pinged'
    <3>1. Ponged \o Pings(frame.injected) = Pinged
      BY <2>2, <2>7 DEF Answering
    <3> QED
      BY <1>1, <2>1, <2>2, <2>3, <2>7, <3>1, PingsTurn
  <2> QED
    BY <2>2, <2>4, <2>5, <2>6, <2>7 DEF Answering
<1>9. CASE next_fragment_missing
  <2>1. /\ pc = "fragment" /\ pc' = "events" /\ UNCHANGED <<frame, overrun>>
        /\ Pinged' = Pinged /\ Ponged' = Ponged
    BY <1>9 DEF next_fragment_missing, Pinged, Ponged
  <2>2. ASSUME frame \in Frame
        PROVE  Pings(Append(frame.injected, Msg(frame.op, frame.data)))
                 = Pings(frame.injected)
    <3>1. frame.op \in DataOpcode /\ frame.injected \in Seq(Message)
      BY <1>0, <2>1, <2>2, NoFrameFacts DEF Reading, Partial, Frame
    <3>2. frame.op # "ping"
      BY <3>1 DEF DataOpcode
    <3>3. Pings(Append(frame.injected, Msg(frame.op, frame.data)))
            = Gain(Pings(frame.injected), Msg(frame.op, frame.data), "ping")
      BY <3>1, PingsAppend
    <3>4. /\ Gain(Pings(frame.injected), Msg(frame.op, frame.data), "ping")
               = Gain(Pings(frame.injected), frame, "ping")
          /\ Gain(Pings(frame.injected), frame, "ping") = Pings(frame.injected)
      BY <3>2, GainMsg
    <3> QED
      BY <3>3, <3>4
  <2> QED
    BY <2>1, <2>2 DEF Answering
<1>10. CASE process_frame
  <2>1. frame \in Frame /\ frame.valid /\ frame.op # "close" /\ pc = "events"
    BY <1>0, <1>10, NoFrameFacts DEF process_frame, TypeOK, DataOpcode
  <2>2. Msg(frame.op, frame.data) \in Message /\ frame.injected \in Seq(Message)
    BY <2>1 DEF Frame, Msg, Message
  <2>3. PICK c \in Seq(Message) : c = Append(frame.injected, Msg(frame.op, frame.data))
    BY <2>2, AppendProperties
  <2>4. PICK a \in Seq(Seq(Byte)) : a = Pings(c) /\ on_ping(c) = Pongs(a)
    BY OnPingFacts DEF Pings
  <2>5. out' = out \o Pongs(a) /\ pc' = "wait" /\ overrun' = overrun /\ Pinged' = Pinged
    BY <1>10, <2>3, <2>4 DEF process_frame, Pinged
  <2>6. Ponged' = Ponged \o a
    BY <1>0, <2>5, PayloadsPongs DEF Ponged
  <2>7. overrun = "" => Ponged \o a = Pinged
    BY <2>1, <2>3, <2>4 DEF Answering
  <2> QED
    BY <2>5, <2>6, <2>7 DEF Answering
<1> QED
  BY <1>2, <1>3, <1>4, <1>5, <1>6, <1>7, <1>8, <1>9, <1>10, NextCases

\* Between two frames every ping read so far was answered once, in order and
\* with its payload: execute_websocket goes over the injected control frames
\* and then over the frame itself, and no other way of reading loses one.
THEOREM EveryPingIsAnswered == Spec => []PingsAnswered
<1>1. Init => Answering
  BY DEF Init, Answering
<1>2. Inv /\ Inv' /\ Answering /\ [Next]_vars => Answering'
  BY PingsStep
<1>3. Answering => PingsAnswered
  BY DEF Answering, PingsAnswered, Pinged, Ponged
<1> QED
  BY <1>1, <1>2, <1>3, Invariant, PTL DEF Spec

--------------------------------------------------------------------------------
(* Messages in their order                                                 *)

\* m is what the reference gives after some number of frames: whole messages
\* and the open one.  Nothing is open, or the message that was open when the
\* client left has been delivered as it was.
Clean(m) == delivered = m.whole /\ m.open = NoMessage
Torn(m) ==
  /\ gone /\ ~cut /\ read = Len(sent)
  /\ delivered = Append(m.whole, m.open)

\* The frame at hand is the message that is open, or the last whole one.
Midway(m) == delivered = m.whole /\ m.open = Msg(frame.op, frame.data)
Complete(m) ==
  m.whole = Append(delivered, Msg(frame.op, frame.data)) /\ m.open = NoMessage

Usable == frame \in Frame /\ frame.valid /\ frame.op # "close"
Ended(m) == IsPrefix(delivered, m.whole) \/ Torn(m)

Progress(m) ==
  /\ pc \in {"handshake", "http", "wait"} => Clean(m) \/ Torn(m)
  /\ pc \in {"fragment", "overrun"} /\ frame = NoFrame => Clean(m) \/ Torn(m)
  /\ pc \in {"fragment", "overrun"} /\ frame # NoFrame => Midway(m)
  /\ pc = "events" /\ Usable /\ frame.op \notin DataOpcode => Clean(m)
  /\ pc = "events" /\ Usable /\ frame.op \in DataOpcode /\ frame.fin => Complete(m)
  /\ pc = "events" /\ Usable /\ frame.op \in DataOpcode /\ ~frame.fin => Midway(m)
  /\ pc = "events" /\ ~Usable => Ended(m)
  /\ pc = "done" => Ended(m)

\* n frames were taken: all that were read, unless next_bytes ran past them.
Delivering ==
  \E n \in 0 .. read, m \in Gathered :
    /\ overrun = "" \/ pc = "overrun" => n = read
    /\ m = Messages(sent)[n] /\ Progress(m)

LEMMA SentFrames ==
  ASSUME TypeOK
  PROVE  /\ sent \in Seq(FrameType) /\ Len(sent) \in Nat /\ read \in 0 .. Len(sent)
         /\ delivered \in Seq(AnyMessage)
<1>1. sent \in Seq(ClientFrame) /\ read \in 0 .. Len(sent) /\ delivered \in Seq(Message)
  BY DEF TypeOK
<1>2. ClientFrame \subseteq FrameType /\ Message \subseteq AnyMessage
  BY WebSocketAssumption DEF Message, AnyMessage
<1> QED
  BY <1>1, <1>2, LenProperties

\* What the reference makes of a frame is what a turn makes of it.
LEMMA GatherTurn ==
  ASSUME NEW p, p = NoFrame \/ Partial(p), NEW f \in FrameType, ReadsText(p),
         NEW r, r = Turn(p, f), r.valid,
         NEW m \in Gathered, NEW g, g = Gather(m, f),
         p = NoFrame => m.open = NoMessage,
         p # NoFrame => m.open = Msg(p.op, p.data)
  PROVE  /\ ~r.fin => g.whole = m.whole /\ g.open = Msg(r.op, r.data)
         /\ r.fin /\ r.op \in DataOpcode =>
              g.whole = Append(m.whole, Msg(r.op, r.data)) /\ g.open = NoMessage
         /\ r.fin /\ r.op \notin DataOpcode =>
              g.whole = m.whole /\ (r.op # "close" => g.open = NoMessage)
<1>0. f.op \in Opcode /\ f.fin \in BOOLEAN /\ f.data \in Seq(Byte)
  BY DEF FrameType
<1>1. CASE f.op \in ControlOpcode
  <2>1. g = m
    BY <1>1 DEF Gather, ControlOpcode, DataOpcode
  <2>2. CASE p = NoFrame
    BY <1>1, <2>1, <2>2, TurnFacts DEF ControlOpcode, DataOpcode
  <2>3. CASE p # NoFrame
    <3>1. \/ r.op = p.op /\ r.fin = FALSE /\ r.data = p.data
          \/ r.op = "close" /\ r.fin
      BY <1>1, <2>3, TurnFacts DEF ControlOpcode
    <3> QED
      BY <2>1, <2>3, <3>1 DEF DataOpcode
  <2> QED
    BY <2>2, <2>3
<1>2. CASE f.op = "cont"
  <2>1. p # NoFrame /\ r.op = p.op /\ r.fin = f.fin /\ r.data = p.data \o f.data
    BY <1>2, TurnFacts
  <2>2. [m.open EXCEPT !.data = @ \o f.data] = Msg(r.op, r.data)
    <3>1. m.open = [op |-> p.op, data |-> p.data]
      BY <2>1 DEF Msg
    <3>2. PICK d : d = m.open.data \o f.data
      OBVIOUS
    <3>3. d = r.data
      <4>1. m.open.data = p.data
        BY <3>1
      <4>2. d = p.data \o f.data
        BY <3>2, <4>1, Zenon
      <4> QED
        BY <2>1, <4>2, Zenon
    <3>4. [m.open EXCEPT !.data = d] = [op |-> p.op, data |-> d]
      BY <3>1
    <3>5. [m.open EXCEPT !.data = @ \o f.data] = [m.open EXCEPT !.data = d]
      BY <3>2
    <3> QED
      BY <2>1, <3>3, <3>4, <3>5 DEF Msg
  <2>3. g = IF f.fin THEN [whole |-> Append(m.whole, Msg(r.op, r.data)), open |-> NoMessage]
                     ELSE [m EXCEPT !.open = Msg(r.op, r.data)]
    BY <1>2, <2>2 DEF Gather
  <2>4. r.op \in DataOpcode
    BY <2>1 DEF Partial
  <2> QED
    BY <1>0, <2>1, <2>3, <2>4 DEF Gathered
<1>3. CASE f.op \in DataOpcode
  <2>1. p = NoFrame /\ r.op = f.op /\ r.fin = f.fin /\ r.data = f.data
    BY <1>3, TurnFacts DEF DataOpcode
  <2>2. g = IF f.fin THEN [whole |-> Append(m.whole, Msg(r.op, r.data)), open |-> NoMessage]
                     ELSE [m EXCEPT !.open = Msg(r.op, r.data)]
    BY <1>3, <2>1 DEF Gather, DataOpcode
  <2> QED
    BY <1>0, <1>3, <2>1, <2>2 DEF Gathered
<1>4. CASE f.op = "reserved"
  BY <1>4, TurnFacts
<1> QED
  BY <1>0, <1>1, <1>2, <1>3, <1>4 DEF Opcode

\* A frame is taken: the account moves on by one frame.
LEMMA TakeStep ==
  ASSUME Inv, NEW m \in Gathered, Progress(m), read < Len(sent),
         pc \in {"fragment", "overrun"},
         NEW f \in FrameType, NEW r, r = Turn(frame, f),
         NEW g \in Gathered, g = Gather(m, f), IsPrefix(m.whole, g.whole),
         frame' = r, pc' = AfterTurn(r), delivered' = delivered
  PROVE  Progress(g)'
<1>0. (frame = NoFrame \/ Partial(frame)) /\ ReadsText(frame) /\ read \in 0 .. Len(sent)
  BY DEF Inv, Reading, TypeOK
<1>1. /\ frame = NoFrame => m.open = NoMessage
      /\ frame # NoFrame => m.open = Msg(frame.op, frame.data)
      /\ delivered = m.whole
  <2>1. ~Torn(m)
    BY <1>0 DEF Torn
  <2> QED
    BY <2>1 DEF Progress, Clean, Midway
<1>2. r \in Frame /\ r # NoFrame
  BY <1>0, TurnFacts, NoFrameFacts
<1>3. CASE ~r.valid
  <2>1. pc' = "events" /\ ~Usable'
    BY <1>3 DEF AfterTurn, Usable
  <2>2. Ended(g)'
    BY <1>1 DEF Ended
  <2> QED
    BY <2>1, <2>2 DEF Progress
<1>4. CASE r.valid /\ ~r.fin
  <2>1. pc' = "fragment"
    BY <1>4 DEF AfterTurn
  <2>2. g.whole = m.whole /\ g.open = Msg(r.op, r.data)
    BY <1>0, <1>1, <1>4, GatherTurn
  <2>3. Midway(g)'
    BY <1>1, <2>2 DEF Midway
  <2> QED
    BY <1>2, <2>1, <2>3 DEF Progress
<1>5. CASE r.valid /\ r.fin /\ r.op \in DataOpcode
  <2>1. pc' = "events"
    BY <1>5 DEF AfterTurn
  <2>2. g.whole = Append(m.whole, Msg(r.op, r.data)) /\ g.open = NoMessage
    BY <1>0, <1>1, <1>5, GatherTurn
  <2>3. Complete(g)'
    BY <1>1, <2>2 DEF Complete
  <2>4. Usable'
    BY <1>2, <1>5 DEF Usable, DataOpcode
  <2> QED
    BY <1>5, <2>1, <2>3, <2>4 DEF Progress
<1>6. CASE r.valid /\ r.fin /\ r.op \notin DataOpcode
  <2>1. pc' = "events"
    BY <1>6 DEF AfterTurn
  <2>2. g.whole = m.whole /\ (r.op # "close" => g.open = NoMessage)
    BY <1>0, <1>1, <1>6, GatherTurn
  <2>3. r.op # "close" => Clean(g)'
    BY <1>1, <2>2 DEF Clean
  <2>4. Ended(g)'
    BY <1>1 DEF Ended
  <2>5. r.op = "close" => ~Usable'
    BY DEF Usable
  <2> QED
    BY <1>6, <2>1, <2>3, <2>4, <2>5 DEF Progress
<1> QED
  BY <1>3, <1>4, <1>5, <1>6

\* Every other step keeps the account.
LEMMA KeepStep ==
  ASSUME Inv, NEW m \in Gathered, Progress(m), [Next]_vars, ~next_fragment,
         next_bytes_ends => frame' = [NoFrame EXCEPT !.valid = FALSE]
  PROVE  Progress(m)'
<1> USE DEF readVars, clientVars, appVars
<1>0. /\ TypeOK /\ Reading /\ read \in 0 .. Len(sent) /\ delivered \in Seq(AnyMessage)
      /\ m.whole \in Seq(AnyMessage)
  BY SentFrames DEF Inv, Gathered
<1>1. CASE \/ UNCHANGED vars \/ client_send \/ client_leaves \/ on_timer
  <2>1. UNCHANGED <<pc, frame, delivered>>
    BY <1>1 DEF vars, client_send, client_leaves, on_timer
  <2>2. Torn(m) => Torn(m)'
    BY <1>1 DEF vars, client_send, client_leaves, on_timer, Torn
  <2>3. /\ Clean(m)' = Clean(m) /\ Midway(m)' = Midway(m) /\ Complete(m)' = Complete(m)
        /\ Usable' = Usable /\ (Ended(m) => Ended(m)')
    BY <2>1, <2>2 DEF Clean, Midway, Complete, Usable, Ended
  <2> QED
    BY <2>1, <2>2, <2>3 DEF Progress
<1>2. CASE \/ open_ws_handshake_http \/ open_ws_handshake_refused
           \/ open_ws_handshake_upgraded \/ wait_for_input
  <2>1. /\ pc \in {"handshake", "wait"} /\ UNCHANGED <<delivered, read, sent, gone, cut>>
        /\ pc' \in {"http", "wait"} \/ (pc' = "fragment" /\ frame' = NoFrame)
    <3>1. CASE wait_for_input
      BY <3>1 DEF wait_for_input
    <3>2. CASE \/ open_ws_handshake_http \/ open_ws_handshake_refused
               \/ open_ws_handshake_upgraded
      BY <3>2 DEF open_ws_handshake_http, open_ws_handshake_refused,
                  open_ws_handshake_upgraded
    <3> QED
      BY <1>2, <3>1, <3>2
  <2>2. (Clean(m) \/ Torn(m))'
    BY <2>1 DEF Progress, Clean, Torn
  <2> QED
    BY <2>1, <2>2 DEF Progress
<1>3. CASE next_fragment_missing
  <2>1. pc = "fragment" /\ pc' = "events" /\ UNCHANGED <<frame, delivered, read, sent, gone, cut>>
    BY <1>3 DEF next_fragment_missing
  <2>2. CASE frame = NoFrame
    <3>1. ~Usable'
      BY <2>1, <2>2, NoFrameFacts DEF Usable
    <3>2. Clean(m) \/ Torn(m)
      BY <2>1, <2>2 DEF Progress
    <3>3. Ended(m)'
      BY <1>0, <2>1, <3>2, PrefixFacts DEF Clean, Torn, Ended
    <3> QED
      BY <2>1, <3>1, <3>3 DEF Progress
  <2>3. CASE frame # NoFrame
    <3>1. frame \in Frame /\ frame.valid /\ ~frame.fin /\ frame.op \in DataOpcode
      BY <1>0, <2>1, <2>3 DEF Reading, Partial
    <3>2. Midway(m)'
      BY <2>1, <2>3 DEF Progress, Midway
    <3>3. Usable'
      BY <2>1, <3>1 DEF Usable, DataOpcode
    <3> QED
      BY <2>1, <3>1, <3>2, <3>3 DEF Progress
  <2> QED
    BY <2>2, <2>3
<1>4. CASE next_fragment_incomplete \/ next_frame_rescue \/ next_bytes_ends
  <2>1. /\ pc \in {"fragment", "overrun"} /\ delivered' = delivered
        /\ ~Torn(m) \/ UNCHANGED <<read, sent, gone, cut>>
    <3>1. CASE next_fragment_incomplete
      BY <3>1 DEF next_fragment_incomplete
    <3>2. CASE next_frame_rescue
      BY <3>2 DEF next_frame_rescue
    <3>3. CASE next_bytes_ends
      <4>1. pc = "overrun" /\ delivered' = delivered
        BY <3>3 DEF next_bytes_ends
      <4>2. read < Len(sent)
        BY <1>0, <4>1 DEF Reading
      <4>3. read # Len(sent)
        BY <1>0, <4>2
      <4> QED
        BY <4>1, <4>3 DEF Torn
    <3> QED
      BY <1>4, <3>1, <3>2, <3>3
  <2>2. ~Usable' /\ pc' = "events"
    <3>1. CASE next_fragment_incomplete
      BY <3>1, NoFrameFacts DEF next_fragment_incomplete, Usable
    <3>2. CASE next_bytes_ends
      BY <3>2, NoFrameFacts DEF next_bytes_ends, Usable, AfterTurn
    <3>3. CASE next_frame_rescue /\ frame = NoFrame
      BY <3>3, NoFrameFacts DEF next_frame_rescue, NoFrame, Usable
    <3>4. CASE next_frame_rescue /\ frame # NoFrame
      BY <1>0, <3>4 DEF next_frame_rescue, Reading, Partial, Frame, Usable
    <3> QED
      BY <1>4, <3>1, <3>2, <3>3, <3>4
  <2>3. delivered = m.whole \/ Torn(m)
    BY <2>1 DEF Progress, Clean, Midway
  <2>4. Ended(m)'
    BY <1>0, <2>1, <2>3, PrefixFacts DEF Ended, Torn
  <2> QED
    BY <2>2, <2>4 DEF Progress
<1>5. CASE \E field \in {"ext", "mask"} : next_bytes_short(field)
  <2>1. /\ pc = "fragment" /\ pc' = "overrun"
        /\ UNCHANGED <<frame, delivered, read, sent, gone, cut>>
    BY <1>5 DEF next_bytes_short
  <2>2. Clean(m)' = Clean(m) /\ Torn(m)' = Torn(m) /\ Midway(m)' = Midway(m)
    BY <2>1 DEF Clean, Torn, Midway
  <2> QED
    BY <2>1, <2>2 DEF Progress
<1>6. CASE process_invalid \/ process_close
  <2>1. /\ pc = "events" /\ pc' = "done" /\ UNCHANGED <<delivered, read, sent, gone, cut>>
        /\ ~Usable
    BY <1>6, NoFrameFacts DEF process_invalid, process_close, on_connection_close, Usable
  <2>2. Ended(m)'
    BY <2>1 DEF Progress, Ended, Torn
  <2> QED
    BY <2>1, <2>2 DEF Progress
<1>7. CASE process_frame
  <2>1. /\ Usable /\ pc = "events" /\ pc' = "wait" /\ frame.fin \in BOOLEAN
        /\ UNCHANGED <<read, sent, gone, cut>>
    BY <1>0, <1>7, NoFrameFacts DEF process_frame, TypeOK, DataOpcode, Usable, Frame
  <2>2. CASE frame.op \notin DataOpcode
    <3>1. Clean(m)'
      BY <1>7, <2>1, <2>2 DEF process_frame, Progress, Clean
    <3> QED
      BY <2>1, <3>1 DEF Progress
  <2>3. CASE frame.op \in DataOpcode /\ frame.fin
    <3>1. Clean(m)'
      BY <1>7, <2>1, <2>3 DEF process_frame, Progress, Complete, Clean
    <3> QED
      BY <2>1, <3>1 DEF Progress
  <2>4. CASE frame.op \in DataOpcode /\ ~frame.fin
    <3>1. Partial(frame)
      BY <2>1, <2>4 DEF Usable, Partial
    <3>2. gone /\ ~cut /\ read = Len(sent)
      BY <1>0, <2>1, <3>1 DEF Reading
    <3>3. Midway(m)
      BY <2>1, <2>4 DEF Progress
    <3>4. Torn(m)'
      BY <1>7, <2>1, <2>4, <3>2, <3>3 DEF process_frame, Midway, Torn
    <3> QED
      BY <2>1, <3>4 DEF Progress
  <2> QED
    BY <2>2, <2>3, <2>4
<1> QED
  BY <1>1, <1>2, <1>3, <1>4, <1>5, <1>6, <1>7, NextCases

LEMMA DeliverStep == ASSUME Inv, Delivering, [Next]_vars PROVE Delivering'
<1> USE DEF readVars, clientVars, appVars
<1>0. /\ TypeOK /\ Reading
      /\ sent \in Seq(FrameType) /\ Len(sent) \in Nat /\ read \in 0 .. Len(sent)
  BY SentFrames DEF Inv
<1>1. PICK n \in 0 .. read, m \in Gathered :
        /\ overrun = "" \/ pc = "overrun" => n = read
        /\ m = Messages(sent)[n] /\ Progress(m)
  BY DEF Delivering
<1>r. n \in Nat /\ n <= read /\ read \in Nat /\ read <= Len(sent)
  <2>1. read \in Nat /\ read <= Len(sent)
    BY <1>0
  <2> QED
    BY <2>1
<1>2. CASE \/ next_fragment
           \/ next_bytes_ends /\ frame' = Turn(frame, sent[read + 1])
  <2>1. /\ read < Len(sent) /\ pc \in {"fragment", "overrun"} /\ n = read
        /\ frame' = Turn(frame, sent[read + 1]) /\ pc' = AfterTurn(frame')
        /\ delivered' = delivered /\ sent' = sent /\ read' \in {read + 1, Len(sent)}
    <3>1. CASE next_fragment
      <4>1. overrun = ""
        <5>1. pc = "fragment" /\ read < Len(sent)
          BY <3>1 DEF next_fragment
        <5>2. read # Len(sent)
          BY <1>0, <5>1
        <5> QED
          BY <1>0, <5>1, <5>2 DEF Reading
      <4> QED
        BY <1>1, <3>1, <4>1 DEF next_fragment
    <3>2. CASE next_bytes_ends /\ frame' = Turn(frame, sent[read + 1])
      BY <1>0, <1>1, <3>2 DEF next_bytes_ends, Reading
    <3> QED
      BY <1>2, <3>1, <3>2
  <2>2. PICK k, f, r : /\ k = read + 1 /\ f = sent[k] /\ f \in FrameType
                       /\ r = Turn(frame, f)
    BY <2>1, TurnRead
  <2>3. k \in 1 .. Len(sent) /\ k - 1 = n /\ k \in n .. Len(sent)
        /\ n \in 0 .. Len(sent) /\ k \in 0 .. Len(sent)
    BY <1>0, <2>1, <2>2
  <2>4. PICK g \in Gathered : g = Messages(sent)[k]
    BY <1>0, <2>3, MessagesType
  <2>5. g = Gather(m, f)
    BY <1>0, <1>1, <2>2, <2>3, <2>4, MessagesFacts
  <2>6. IsPrefix(m.whole, g.whole)
    BY <1>0, <1>1, <2>3, <2>4, MessagesGrow
  <2>7. frame' = r /\ pc' = AfterTurn(r)
    BY <2>1, <2>2
  <2>8. Progress(g)'
    BY <1>1, <2>1, <2>2, <2>5, <2>6, <2>7, TakeStep
  <2>9. k \in 0 .. read'
    BY <1>0, <2>1, <2>2
  <2>10. overrun' = "" \/ pc' = "overrun" => k = read'
    <3>1. pc' # "overrun"
      BY <2>7 DEF AfterTurn
    <3>2. overrun' = "" => next_fragment
      BY <1>0, <1>2 DEF next_bytes_ends, Reading
    <3> QED
      BY <2>2, <3>1, <3>2 DEF next_fragment
  <2>11. g = Messages(sent')[k]
    BY <2>1, <2>4
  <2> QED
    BY <2>8, <2>9, <2>10, <2>11 DEF Delivering
<1>3. CASE ~next_fragment /\ (next_bytes_ends => frame' = [NoFrame EXCEPT !.valid = FALSE])
  <2>1. Progress(m)'
    BY <1>1, <1>3, KeepStep
  <2>2. m = Messages(sent')[n]
    <3>1. CASE client_send
      <4>1. PICK f : f \in ClientFrame /\ sent' = Append(sent, f)
        BY <3>1 DEF client_send
      <4>2. f \in FrameType
        BY <4>1, WebSocketAssumption
      <4>3. Len(sent') = Len(sent) + 1 /\ \A k \in 1 .. Len(sent) : sent'[k] = sent[k]
        BY <1>0, <4>1, <4>2, AppendProperties
      <4>4. n \in Nat /\ n <= Len(sent) /\ n <= Len(sent') /\ Len(sent') \in Nat
        BY <1>0, <1>r, <4>3
      <4>5. \A k \in 1 .. n : sent'[k] = sent[k]
        BY <1>0, <4>3, <4>4
      <4>6. Messages(sent')[n] = Messages(sent)[n]
        BY <1>0, <4>4, <4>5, MessagesPrefix
      <4> QED
        BY <1>1, <4>6
    <3>2. CASE sent' = sent
      BY <1>1, <3>2
    <3> QED
      BY <3>1, <3>2, NextCases
      DEF vars, client_leaves, open_ws_handshake_http,
          open_ws_handshake_refused, open_ws_handshake_upgraded, wait_for_input,
          on_timer, next_fragment, next_fragment_missing, next_fragment_incomplete,
          next_frame_rescue, next_bytes_short, next_bytes_ends,
          process_invalid, process_close, process_frame
  <2>3. n \in 0 .. read' /\ (overrun' = "" \/ pc' = "overrun" => n = read')
    <3>1. CASE next_bytes_ends
      <4>1. overrun' # "" /\ pc' # "overrun" /\ read' = Len(sent)
        BY <1>0, <3>1 DEF next_bytes_ends, Reading, AfterTurn
      <4>2. n \in 0 .. Len(sent)
        BY <1>0, <1>r
      <4> QED
        BY <4>1, <4>2
    <3>2. CASE \E field \in {"ext", "mask"} : next_bytes_short(field)
      <4>1. read' = read /\ pc = "fragment" /\ read < Len(sent)
        BY <3>2 DEF next_bytes_short
      <4>2. overrun = ""
        <5>1. read # Len(sent)
          BY <1>0, <4>1
        <5> QED
          BY <1>0, <4>1, <5>1 DEF Reading
      <4> QED
        BY <1>1, <4>1, <4>2
    <3>3. CASE read' = read /\ overrun' = overrun /\ (pc' = "overrun" => pc = "overrun")
      BY <1>1, <3>3
    <3> QED
      BY <1>3, <3>1, <3>2, <3>3, NextCases
      DEF vars, client_send, client_leaves, open_ws_handshake_http,
          open_ws_handshake_refused, open_ws_handshake_upgraded, wait_for_input,
          on_timer, next_fragment_missing, next_fragment_incomplete,
          next_frame_rescue, process_invalid, process_close, process_frame,
          on_connection_close
  <2> QED
    BY <2>1, <2>2, <2>3 DEF Delivering
<1> QED
  <2>1. next_bytes_ends => \/ frame' = Turn(frame, sent[read + 1])
                           \/ frame' = [NoFrame EXCEPT !.valid = FALSE]
    BY DEF next_bytes_ends
  <2> QED
    BY <1>2, <1>3, <2>1

LEMMA DeliveredInOrder == ASSUME Inv, Delivering PROVE MessagesInOrder
<1>0. /\ sent \in Seq(FrameType) /\ Len(sent) \in Nat /\ read \in 0 .. Len(sent)
      /\ delivered \in Seq(AnyMessage)
  BY SentFrames DEF Inv
<1>1. PICK n \in 0 .. read, m \in Gathered :
        /\ overrun = "" \/ pc = "overrun" => n = read
        /\ m = Messages(sent)[n] /\ Progress(m)
  BY DEF Delivering
<1>2. n \in 0 .. Len(sent) /\ read \in n .. Len(sent)
  <2>1. read \in Nat /\ read <= Len(sent)
    BY <1>0
  <2>2. n \in Nat /\ n <= read
    BY <2>1
  <2> QED
    BY <1>0, <2>1, <2>2
<1>3. PICK w \in Gathered : w = Messages(sent)[read] /\ IsPrefix(m.whole, w.whole)
  BY <1>0, <1>1, <1>2, MessagesType, MessagesGrow
<1>4. m.whole \in Seq(AnyMessage) /\ w.whole \in Seq(AnyMessage)
  BY DEF Gathered
<1>5. IsPrefix(delivered, m.whole) \/ Torn(m)
  <2>1. Clean(m) \/ Midway(m) => IsPrefix(delivered, m.whole)
    BY <1>0, <1>4, PrefixFacts DEF Clean, Midway
  <2>2. pc = "events" /\ Complete(m) /\ Usable => IsPrefix(delivered, m.whole)
    <3>1. Usable => Msg(frame.op, frame.data) \in AnyMessage
      BY DEF Usable, Frame, Msg, AnyMessage
    <3> QED
      BY <1>0, <3>1, PrefixFacts DEF Complete
  <2>3. pc \in {"handshake", "http", "wait", "fragment", "overrun", "events", "done"}
    BY DEF Inv, TypeOK
  <2> QED
    BY <1>1, <2>1, <2>2, <2>3 DEF Progress, Ended
<1>6. CASE IsPrefix(delivered, m.whole)
  <2>1. IsPrefix(delivered, w.whole)
    BY <1>0, <1>3, <1>4, <1>6, PrefixFacts
  <2> QED
    BY <1>3, <2>1 DEF MessagesInOrder
<1>7. CASE Torn(m)
  <2>1. n \in IF overrun = "" THEN {read} ELSE 0 .. read
    BY <1>1
  <2> QED
    BY <1>1, <1>7, <2>1 DEF MessagesInOrder, Torn
<1> QED
  BY <1>5, <1>6, <1>7

\* on_text and on_binary receive what the client sent, in order, each message
\* once and whole; only the last one can be cut short, when the client left
\* before its final fragment or next_bytes ran past it.
THEOREM DeliversInOrder == Spec => []MessagesInOrder
<1>1. Init => Delivering
  <2> SUFFICES ASSUME Init PROVE Delivering
    OBVIOUS
  <2>1. sent = <<>> /\ read = 0 /\ delivered = <<>> /\ pc = "handshake"
    BY DEF Init
  <2>2. Len(sent) = 0
    BY <2>1, EmptySeq
  <2>3. Messages(sent)[0] = Nothing
    BY <2>2, MessagesFacts
  <2>4. Nothing \in Gathered /\ Nothing.whole = <<>> /\ Nothing.open = NoMessage
    BY EmptySeq DEF Nothing, Gathered, AnyMessage, NoMessage, Msg
  <2>5. Progress(Nothing)
    BY <2>1, <2>4 DEF Progress, Clean
  <2>6. 0 \in 0 .. read
    BY <2>1
  <2> QED
    BY <2>1, <2>3, <2>4, <2>5, <2>6 DEF Delivering
<1>2. Inv /\ Delivering /\ [Next]_vars => Delivering'
  BY DeliverStep
<1>3. Inv /\ Delivering => MessagesInOrder
  BY DeliveredInOrder
<1> QED
  BY <1>1, <1>2, <1>3, Invariant, PTL DEF Spec
================================================================================

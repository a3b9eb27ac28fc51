---------------------------- MODULE WidgetPageProofs ---------------------------
(* Theorems about the widget page.  The invariant has five parts: types;    *)
(* AllReady, what initialize and the loader did to each control; Saved,     *)
(* what fullstate.controls holds; Early, what the answers under way have    *)
(* for an id that was never shown; and Settled, what is known of the one    *)
(* callback under way while callbacks do not overlap.                       *)
EXTENDS WidgetPage, SequenceTheorems, WellFoundedInduction, TLAPS

--------------------------------------------------------------------------------
(* Least and greatest ids                                                  *)

LEMMA LeastNat ==
  ASSUME NEW T, T \subseteq Nat, T # {}
  PROVE  \E x \in T : \A y \in T : x <= y
<1>1. PICK x \in T : \A y \in T : ~(<<y, x>> \in OpToRel(<, Nat))
  BY NatLessThanWellFounded, WFMin
<1>2. \A y \in T : <<y, x>> \in OpToRel(<, Nat) <=> y < x
  BY DEF OpToRel
<1>3. x \in Nat /\ \A y \in T : y \in Nat
  OBVIOUS
<1>4. \A y \in T : ~(y < x)
  BY <1>1, <1>2
<1>5. \A y \in T : x <= y
  BY <1>3, <1>4
<1> QED
  BY <1>5

LEMMA MinFacts ==
  ASSUME NEW T, T \subseteq Nat, T # {}
  PROVE  Min(T) \in T
BY LeastNat DEF Min

LEMMA MaxFacts ==
  ASSUME NEW T, NEW b \in Nat, T \subseteq 0 .. b, T # {}
  PROVE  Max(T) \in T /\ \A y \in T : y <= Max(T)
<1>1. PICK B : B = {b - y : y \in T}
  OBVIOUS
<1>2. B \subseteq Nat /\ B # {}
  <2>1. \A y \in T : y \in 0 .. b /\ b - y \in Nat
    OBVIOUS
  <2> QED
    BY <1>1, <2>1
<1>3. PICK z \in B : \A y \in B : z <= y
  BY <1>2, LeastNat
<1>4. PICK x \in T : z = b - x
  BY <1>1, <1>3
<1>5. \A y \in T : b - x <= b - y
  BY <1>1, <1>3, <1>4
<1>6. \A y \in T : x >= y
  BY <1>5
<1>7. Max(T) \in T /\ \A y \in T : Max(T) >= y
  BY <1>6 DEF Max
<1> QED
  BY <1>7

--------------------------------------------------------------------------------
(* The loader                                                              *)

ScriptsOf(t) == UNION Range(Stages[t])
Loads == [Script -> {"none", "loading", "loaded", "failed"}]
Later(ld, new) == \A s \in Script : ld[s] = "loaded" => new[s] = "loaded"

LEMMA ScriptsKnown ==
  ASSUME NEW t \in Tag
  PROVE  ScriptsOf(t) \subseteq Script
BY DEF ScriptsOf, Script

\* A control that waits for nothing has all its scripts: the first stage that
\* is not loaded has a script to wait for.
LEMMA WaitsFacts ==
  ASSUME NEW t \in Tag, NEW ld, Waits(t, ld) = {}
  PROVE  \A s \in ScriptsOf(t) : ld[s] = "loaded"
<1>1. PICK T : T = {k \in DOMAIN Stages[t] : \E s \in Stages[t][k] : ld[s] # "loaded"}
  OBVIOUS
<1>2. Stages[t] \in Seq(SUBSET Script)
  BY WidgetAssumption
<1>3. T \subseteq Nat
  BY <1>1, <1>2, LenProperties
<1>4. T = {}
  <2> SUFFICES ASSUME T # {} PROVE FALSE
    OBVIOUS
  <2>1. Min(T) \in T
    BY <1>3, MinFacts
  <2>2. Stages[t][Min(T)] # {}
    BY <1>1, <2>1
  <2>3. Waits(t, ld) = Stages[t][Min(T)]
    BY <1>1 DEF Waits
  <2> QED
    BY <2>2, <2>3
<1>5. \A k \in DOMAIN Stages[t] : \A s \in Stages[t][k] : ld[s] = "loaded"
  BY <1>1, <1>4
<1> QED
  BY <1>5 DEF ScriptsOf, Range

LEMMA AskFacts ==
  ASSUME NEW objs, NEW ld \in Loads
  PROVE  Ask(objs, ld) \in Loads /\ Later(ld, Ask(objs, ld))
<1>1. PICK W : Ask(objs, ld)
        = [s \in Script |-> IF s \in W /\ ld[s] = "none" THEN "loading" ELSE ld[s]]
  BY DEF Ask
<1> QED
  BY <1>1 DEF Loads, Later

--------------------------------------------------------------------------------
(* A control                                                               *)

\* A control attaches when its scripts are there, and initialize runs once.
Ready(o, ld) ==
  /\ o.attached > 0 => \A s \in ScriptsOf(o.tag) : ld[s] = "loaded"
  /\ o.tag \notin Codeview =>
       /\ o.attached + o.pending <= 1
       /\ o.executed \/ o.attached + o.pending = 0

\* What Attach does to one control.
Run(o, ld) ==
  IF Waits(o.tag, ld) = {}
  THEN [o EXCEPT !.attached = @ + o.pending, !.pending = 0]
  ELSE o

LEMMA ObjectFacts ==
  ASSUME NEW o \in Object
  PROVE  /\ o.tag \in Tag /\ o.shown \in State /\ o.executed \in BOOLEAN
         /\ o.pending \in Nat /\ o.attached \in Nat /\ o.heard \in BOOLEAN
BY DEF Object

LEMMA ObjectAttached ==
  ASSUME NEW o \in Object, NEW k \in Nat
  PROVE  [o EXCEPT !.attached = k, !.pending = 0] \in Object
BY DEF Object

LEMMA InitializeFacts ==
  ASSUME NEW o \in Object
  PROVE  /\ Initialize(o) \in Object
         /\ Initialize(o).tag = o.tag /\ Initialize(o).shown = o.shown
         /\ Initialize(o).heard = o.heard
         /\ \A ld : Ready(o, ld) => Ready(Initialize(o), ld)
<1>1. CASE o.executed /\ o.tag \notin Codeview
  BY <1>1 DEF Initialize
<1>2. CASE ~(o.executed /\ o.tag \notin Codeview)
  <2>0. PICK k \in Nat : k = o.pending + 1
    BY ObjectFacts
  <2>1. PICK p : p = Initialize(o) /\ p = [o EXCEPT !.executed = TRUE, !.pending = k]
    BY <1>2, <2>0 DEF Initialize
  <2>2. /\ p \in Object /\ p.tag = o.tag /\ p.shown = o.shown /\ p.executed
        /\ p.heard = o.heard
        /\ p.pending = o.pending + 1 /\ p.attached = o.attached
    BY <2>0, <2>1 DEF Object
  <2>3. ASSUME NEW ld, Ready(o, ld) PROVE Ready(p, ld)
    BY <1>2, <2>2, <2>3, ObjectFacts DEF Ready
  <2> QED
    BY <2>1, <2>2, <2>3
<1> QED
  BY <1>1, <1>2

LEMMA RunFacts ==
  ASSUME NEW o \in Object, NEW ld
  PROVE  /\ Run(o, ld) \in Object
         /\ Run(o, ld).tag = o.tag /\ Run(o, ld).shown = o.shown
         /\ Run(o, ld).heard = o.heard
         /\ Ready(o, ld) => Ready(Run(o, ld), ld)
<1>1. CASE Waits(o.tag, ld) # {}
  BY <1>1 DEF Run
<1>2. CASE Waits(o.tag, ld) = {}
  <2>0. PICK k \in Nat : k = o.attached + o.pending
    BY ObjectFacts
  <2>1. PICK p : p = Run(o, ld) /\ p = [o EXCEPT !.attached = k, !.pending = 0]
    BY <1>2, <2>0 DEF Run
  <2>2. /\ p \in Object /\ p.tag = o.tag /\ p.shown = o.shown /\ p.heard = o.heard
        /\ (o.executed => p.executed) /\ p.pending = 0 /\ p.attached = o.attached + o.pending
    <3>1. p \in Object
      BY <2>1, ObjectAttached
    <3>2. /\ p.tag = o.tag /\ p.shown = o.shown /\ p.pending = 0 /\ p.attached = k
          /\ p.heard = o.heard
      BY <2>1 DEF Object
    <3>3. o.executed => p.executed
      BY <2>1 DEF Object
    <3> QED
      BY <2>0, <3>1, <3>2, <3>3
  <2>3. \A s \in ScriptsOf(o.tag) : ld[s] = "loaded"
    BY <1>2, ObjectFacts, WaitsFacts
  <2>4. Ready(o, ld) => Ready(p, ld)
    BY <2>2, <2>3, ObjectFacts DEF Ready
  <2> QED
    BY <2>1, <2>2, <2>4
<1> QED
  BY <1>1, <1>2

LEMMA ReadyLater ==
  ASSUME NEW o \in Object, NEW ld, NEW new, Ready(o, ld), Later(ld, new)
  PROVE  Ready(o, new)
BY ScriptsKnown, ObjectFacts DEF Ready, Later

\* What a handler does to all the controls: each is changed on its own.
Objects == [Id -> Seq(Object)]
AllReadyIn(objs, ld) ==
  \A i \in Id : \A u \in 1 .. Len(objs[i]) : Ready(objs[i][u], ld)
SameShown(objs, new) ==
  \A i \in Id : /\ Len(new[i]) = Len(objs[i])
                /\ \A u \in 1 .. Len(objs[i]) : /\ new[i][u].tag = objs[i][u].tag
                                                /\ new[i][u].shown = objs[i][u].shown
                                                /\ new[i][u].heard = objs[i][u].heard

LEMMA ReadyIn ==
  ASSUME NEW objs \in Objects, NEW ld, NEW new, AllReadyIn(objs, ld), Later(ld, new)
  PROVE  AllReadyIn(objs, new)
<1>1. ASSUME NEW i \in Id, NEW u \in 1 .. Len(objs[i]) PROVE Ready(objs[i][u], new)
  <2>1. objs[i] \in Seq(Object)
    BY DEF Objects
  <2>2. objs[i][u] \in Object
    BY <2>1, ElementOfSeq
  <2>3. Ready(objs[i][u], ld)
    BY DEF AllReadyIn
  <2> QED
    BY <2>2, <2>3, ReadyLater
<1> QED
  BY <1>1 DEF AllReadyIn

LEMMA AttachFacts ==
  ASSUME NEW objs \in Objects, NEW ld
  PROVE  /\ Attach(objs, ld) \in Objects
         /\ SameShown(objs, Attach(objs, ld))
         /\ AllReadyIn(objs, ld) => AllReadyIn(Attach(objs, ld), ld)
<1>1. PICK a : a = Attach(objs, ld)
  OBVIOUS
<1>2. a = [i \in Id |-> [u \in DOMAIN objs[i] |-> Run(objs[i][u], ld)]]
  BY <1>1 DEF Attach, Run
<1>3. ASSUME NEW i \in Id
      PROVE  /\ a[i] \in Seq(Object) /\ Len(a[i]) = Len(objs[i])
             /\ \A u \in 1 .. Len(objs[i]) :
                  objs[i][u] \in Object /\ a[i][u] = Run(objs[i][u], ld)
  <2>1. objs[i] \in Seq(Object)
    BY DEF Objects
  <2>2. DOMAIN objs[i] = 1 .. Len(objs[i]) /\ Len(objs[i]) \in Nat
    BY <2>1, LenProperties
  <2>3. a[i] = [u \in 1 .. Len(objs[i]) |-> Run(objs[i][u], ld)]
    BY <1>2, <2>2
  <2>4. \A u \in 1 .. Len(objs[i]) : objs[i][u] \in Object /\ Run(objs[i][u], ld) \in Object
    BY <2>1, ElementOfSeq, RunFacts
  <2> QED
    BY <2>2, <2>3, <2>4
<1>4. a \in Objects
  BY <1>2, <1>3 DEF Objects
<1>5. SameShown(objs, a)
  BY <1>3, RunFacts DEF SameShown
<1>6. AllReadyIn(objs, ld) => AllReadyIn(a, ld)
  BY <1>3, RunFacts DEF AllReadyIn
<1> QED
  BY <1>1, <1>4, <1>5, <1>6

--------------------------------------------------------------------------------
(* The callbacks                                                           *)

\* The response of the server to a request.
All(m) == add_control_from_tag(m)
Left(m) == execute_pending_removes(All(m), m.remove)
StateIn(m, i) == IF i \in Ids(m.items) /\ m.full[i] # None THEN m.full[i]
                 ELSE Fresh(TagOf(All(m), i))
Reply(m) ==
  [n |-> m.n, at |-> "response", items |-> Left(m).items, kept |-> Left(m).kept,
   newstate |-> [i \in Left(m).kept |-> StateIn(m, i)],
   render |-> [i \in Left(m).kept |-> TagOf(All(m), i)]]

LEMMA ExecuteIs ==
  ASSUME NEW m, execute(m)
  PROVE  /\ m.at = "request" /\ (m.add # {} => MaxId \notin Ids(m.items))
         /\ net' = (net \ {m}) \cup {Reply(m)}
         /\ UNCHANGED <<clientVars, callbacks, disturbed>>
BY DEF execute, Reply, Left, All, StateIn

LEMMA ResponseFacts ==
  ASSUME NEW m \in Response
  PROVE  /\ m.at = "response" /\ m.items \subseteq Item /\ m.kept \subseteq Id
         /\ m.newstate \in [m.kept -> State] /\ m.render \in [m.kept -> Tag]
<1>1. PICK k \in SUBSET Id :
        m \in [n: 1 .. MaxCallback, at: {"response"}, items: SUBSET Item, kept: {k},
               newstate: [k -> State], render: [k -> Tag]]
  BY DEF Response
<1> QED
  BY <1>1

LEMMA RequestFacts ==
  ASSUME NEW m \in Request
  PROVE  /\ m.n \in 1 .. MaxCallback /\ m.at = "request" /\ m.add \subseteq Tag
         /\ m.remove \in Seq(Id)
         /\ m.items \subseteq Item /\ m.full \in [Id -> State \cup {None}]
BY DEF Request

LEMMA StateFacts ==
  /\ None \notin State
  /\ \A t \in Tag : Fresh(t) \in State
BY WidgetAssumption DEF None, State, Fresh

LEMMA ItemFacts ==
  ASSUME NEW S \in SUBSET Item
  PROVE  /\ Ids(S) \subseteq Id
         /\ \A i \in Ids(S) : TagOf(S, i) \in Tag
<1>1. \A x \in S : x.id \in Id /\ x.tag \in Tag
  BY DEF Item
<1>2. ASSUME NEW i \in Ids(S) PROVE TagOf(S, i) \in Tag
  <2>1. \E x \in S : x.id = i
    BY DEF Ids
  <2>2. PICK y : y = CHOOSE x \in S : x.id = i
    OBVIOUS
  <2>3. y \in S
    BY <2>1, <2>2
  <2> QED
    BY <1>1, <2>2, <2>3 DEF TagOf
<1> QED
  BY <1>1, <1>2 DEF Ids

\* The id of an item that is added is free.
LEMMA AddFacts ==
  ASSUME NEW m \in Request, m.add # {} => MaxId \notin Ids(m.items)
  PROVE  /\ All(m) \subseteq Item /\ m.items \subseteq All(m)
         /\ \E k : /\ k \notin Ids(m.items)
                  /\ All(m) = m.items \cup {[id |-> k, tag |-> t] : t \in m.add}
<1>0. m.add \subseteq Tag /\ m.items \subseteq Item /\ MaxId \in Nat /\ MaxId # 0
  BY RequestFacts, WidgetAssumption
<1>1. PICK T : T = Ids(m.items) \cup {0}
  OBVIOUS
<1>2. Ids(m.items) \subseteq 1 .. MaxId
  BY <1>0, ItemFacts DEF Id
<1>3. T \subseteq 0 .. MaxId /\ T # {}
  BY <1>0, <1>1, <1>2
<1>4. Max(T) \in T /\ \A y \in T : y <= Max(T)
  BY <1>0, <1>3, MaxFacts
<1>5. PICK x \in 0 .. MaxId : x = Max(T)
  BY <1>3, <1>4
<1>6. x + 1 \notin Ids(m.items)
  <2>1. x + 1 \notin T
    BY <1>4, <1>5
  <2> QED
    BY <1>1, <2>1
<1>7. m.add # {} => x + 1 \in Id
  <2>1. m.add # {} => x # MaxId
    BY <1>0, <1>1, <1>4, <1>5
  <2> QED
    BY <1>0, <2>1 DEF Id
<1>8. All(m) = m.items \cup {[id |-> x + 1, tag |-> t] : t \in m.add}
  BY <1>1, <1>5 DEF All, add_control_from_tag
<1>9. {[id |-> x + 1, tag |-> t] : t \in m.add} \subseteq Item
  BY <1>0, <1>7 DEF Item
<1> QED
  BY <1>0, <1>6, <1>8, <1>9

LEMMA ReplyFacts ==
  ASSUME NEW m \in Request, m.add # {} => MaxId \notin Ids(m.items)
  PROVE  Reply(m) \in Response
<1>1. PICK all \in SUBSET Item : all = All(m)
  BY AddFacts
<1>2. PICK k : k = Left(m).kept
  OBVIOUS
<1>3. k \subseteq Ids(all) /\ Left(m).items \subseteq all
  BY <1>1, <1>2 DEF Left, execute_pending_removes
<1>4. k \in SUBSET Id /\ Left(m).items \in SUBSET Item
  BY <1>3, ItemFacts
<1>5. ASSUME NEW i \in k PROVE TagOf(All(m), i) \in Tag /\ StateIn(m, i) \in State
  <2>1. TagOf(All(m), i) \in Tag
    BY <1>1, <1>3, ItemFacts
  <2>2. m.full[i] \in State \cup {None}
    BY <1>4, RequestFacts
  <2> QED
    BY <2>1, <2>2, StateFacts DEF StateIn
<1>6. [i \in k |-> StateIn(m, i)] \in [k -> State]
      /\ [i \in k |-> TagOf(All(m), i)] \in [k -> Tag]
  BY <1>5
<1>7. m.n \in 1 .. MaxCallback
  BY RequestFacts
<1>8. Reply(m) \in [n: 1 .. MaxCallback, at: {"response"}, items: SUBSET Item, kept: {k},
                    newstate: [k -> State], render: [k -> Tag]]
  BY <1>2, <1>4, <1>6, <1>7 DEF Reply
<1> QED
  BY <1>4, <1>8 DEF Response

--------------------------------------------------------------------------------
(* update                                                                  *)

Rest(m, i) == IF i \in Dropped(m) /\ dom[i] = controls[i] THEN 0 ELSE dom[i]
New(m, i) == i \in m.kept /\ Rest(m, i) = 0
Grown(m) == [i \in Id |-> IF New(m, i) THEN Append(object[i], NewObject(i, m)) ELSE object[i]]
Shown(m) == [i \in Id |-> IF New(m, i) THEN Len(Grown(m)[i]) ELSE Rest(m, i)]
Begun(m) ==
  [i \in Id |-> [u \in DOMAIN Grown(m)[i] |->
     IF u = Shown(m)[i] THEN Initialize(Grown(m)[i][u]) ELSE Grown(m)[i][u]]]

LEMMA UpdateIs ==
  ASSUME NEW m, m.kept \subseteq Id, update(m)
  PROVE  /\ m.at = "response"
         /\ items' = m.items /\ net' = net \ {m} /\ UNCHANGED <<callbacks, disturbed>>
         /\ full' = [i \in Id |-> IF i \in m.kept /\ full[i] = None
                                  THEN m.newstate[i] ELSE full[i]]
         /\ dom' = Shown(m) /\ controls' = Shown(m)
         /\ loaded' = Ask(Begun(m), loaded)
         /\ object' = Attach(Begun(m), loaded)
<1>1. PICK rest, new, objs, shown, begun :
        /\ rest = [i \in Id |-> IF i \in Dropped(m) /\ dom[i] = controls[i] THEN 0 ELSE dom[i]]
        /\ new = {i \in m.kept : rest[i] = 0}
        /\ objs = [i \in Id |-> IF i \in new THEN Append(object[i], NewObject(i, m))
                                ELSE object[i]]
        /\ shown = [i \in Id |-> IF i \in new THEN Len(objs[i]) ELSE rest[i]]
        /\ begun = [i \in Id |-> [u \in DOMAIN objs[i] |->
                      IF u = shown[i] THEN Initialize(objs[i][u]) ELSE objs[i][u]]]
  OBVIOUS
<1>2. /\ m.at = "response"
      /\ items' = m.items /\ net' = net \ {m} /\ UNCHANGED <<callbacks, disturbed>>
      /\ full' = [i \in Id |-> IF i \in m.kept /\ full[i] = None
                               THEN m.newstate[i] ELSE full[i]]
      /\ dom' = shown /\ controls' = shown
      /\ loaded' = Ask(begun, loaded)
      /\ object' = Attach(begun, loaded)
  BY <1>1, Zenon DEF update, states_kept
<1>3. \A i \in Id : rest[i] = Rest(m, i) /\ (i \in new <=> New(m, i))
  BY <1>1 DEF Rest, New
<1>4. objs = Grown(m)
  BY <1>1, <1>3 DEF Grown
<1>5. shown = Shown(m)
  BY <1>1, <1>3, <1>4 DEF Shown
<1>6. begun = Begun(m)
  BY <1>1, <1>4, <1>5, Zenon DEF Begun
<1> QED
  BY <1>2, <1>5, <1>6

LEMMA GrownFacts ==
  ASSUME TypeOK, NEW m \in Response, NEW i \in Id
  PROVE  /\ Grown(m)[i] \in Seq(Object) /\ Len(object[i]) \in Nat
         /\ Shown(m)[i] \in 0 .. Len(Grown(m)[i])
         /\ New(m, i) => /\ Grown(m)[i] = Append(object[i], NewObject(i, m))
                         /\ Len(Grown(m)[i]) = Len(object[i]) + 1
                         /\ Shown(m)[i] = Len(object[i]) + 1
                         /\ \A u \in 1 .. Len(object[i]) : Grown(m)[i][u] = object[i][u]
                         /\ Grown(m)[i][Len(object[i]) + 1] = NewObject(i, m)
                         /\ NewObject(i, m) \in Object
         /\ ~New(m, i) => /\ Grown(m)[i] = object[i] /\ Shown(m)[i] = Rest(m, i)
<1>0. object[i] \in Seq(Object) /\ dom[i] \in Nat /\ dom[i] <= Len(object[i])
  BY DEF TypeOK
<1>1. Len(object[i]) \in Nat
  BY <1>0, LenProperties
<1>2. Rest(m, i) \in 0 .. Len(object[i])
  BY <1>0, <1>1 DEF Rest
<1>3. CASE New(m, i)
  <2>1. m.newstate[i] \in State /\ m.render[i] \in Tag
    BY <1>3, ResponseFacts DEF New
  <2>2. NewObject(i, m) \in Object
    BY <2>1 DEF NewObject, Object
  <2>3. Grown(m)[i] = Append(object[i], NewObject(i, m)) /\ Shown(m)[i] = Len(Grown(m)[i])
    BY <1>3 DEF Grown, Shown
  <2>4. PICK o \in Object : o = NewObject(i, m)
    BY <2>2
  <2>5. PICK g : g = Append(object[i], o) /\ g = Grown(m)[i]
    BY <2>3, <2>4
  <2>6. /\ g \in Seq(Object) /\ Len(g) = Len(object[i]) + 1
        /\ \A u \in 1 .. Len(object[i]) : g[u] = object[i][u]
        /\ g[Len(object[i]) + 1] = o
    <3>1. PICK q \in Seq(Object) : q = object[i]
      BY <1>0
    <3>2. g = Append(q, o)
      BY <2>5, <3>1
    <3>3. /\ g \in Seq(Object) /\ Len(g) = Len(q) + 1
          /\ \A u \in 1 .. Len(q) : g[u] = q[u]
          /\ g[Len(q) + 1] = o
      BY <3>2, AppendProperties
    <3> QED
      BY <3>1, <3>3
  <2> QED
    BY <1>1, <1>3, <2>2, <2>3, <2>4, <2>5, <2>6
<1>4. CASE ~New(m, i)
  BY <1>0, <1>1, <1>2, <1>4 DEF Grown, Shown
<1> QED
  BY <1>3, <1>4

LEMMA BegunFacts ==
  ASSUME TypeOK, NEW m \in Response, AllReadyIn(object, loaded)
  PROVE  /\ Begun(m) \in Objects /\ SameShown(Grown(m), Begun(m))
         /\ AllReadyIn(Begun(m), loaded)
<1>1. PICK b, g : b = Begun(m) /\ g = Grown(m)
  OBVIOUS
<1>2. ASSUME NEW i \in Id
      PROVE  /\ b[i] \in Seq(Object) /\ Len(b[i]) = Len(g[i])
             /\ \A u \in 1 .. Len(g[i]) :
                  /\ b[i][u].tag = g[i][u].tag /\ b[i][u].shown = g[i][u].shown
                  /\ b[i][u].heard = g[i][u].heard
                  /\ Ready(b[i][u], loaded)
  <2>1. g[i] \in Seq(Object)
    BY <1>1, GrownFacts
  <2>2. DOMAIN g[i] = 1 .. Len(g[i]) /\ Len(g[i]) \in Nat
    BY <2>1, LenProperties
  <2>3. b[i] = [u \in 1 .. Len(g[i]) |->
                  IF u = Shown(m)[i] THEN Initialize(g[i][u]) ELSE g[i][u]]
    BY <1>1, <2>2 DEF Begun
  <2>4. ASSUME NEW u \in 1 .. Len(g[i])
        PROVE  /\ g[i][u] \in Object /\ b[i][u] \in Object
               /\ b[i][u].tag = g[i][u].tag /\ b[i][u].shown = g[i][u].shown
               /\ b[i][u].heard = g[i][u].heard
               /\ Ready(b[i][u], loaded)
    <3>1. g[i][u] \in Object
      BY <2>1, ElementOfSeq
    <3>2. b[i][u] \in {g[i][u], Initialize(g[i][u])}
      BY <2>3
    <3>3. Ready(g[i][u], loaded)
      <4>1. CASE New(m, i) /\ u = Len(object[i]) + 1
        <5>1. g[i][u] = NewObject(i, m)
          BY <1>1, <4>1, GrownFacts
        <5> QED
          BY <5>1 DEF NewObject, Ready
      <4>2. CASE ~(New(m, i) /\ u = Len(object[i]) + 1)
        <5>1. u \in 1 .. Len(object[i]) /\ g[i][u] = object[i][u]
          BY <1>1, <4>2, GrownFacts
        <5> QED
          BY <5>1 DEF AllReadyIn
      <4> QED
        BY <4>1, <4>2
    <3> QED
      BY <3>1, <3>2, <3>3, InitializeFacts
  <2>5. b[i] \in Seq(Object) /\ Len(b[i]) = Len(g[i])
    <3>1. PICK c, n : c = b[i] /\ n = Len(g[i]) /\ n \in Nat
      BY <2>2
    <3>2. c = [u \in 1 .. n |-> c[u]] /\ \A u \in 1 .. n : c[u] \in Object
      BY <2>3, <2>4, <3>1
    <3>3. c \in Seq(Object) /\ Len(c) = n
      BY <3>1, <3>2
    <3> QED
      BY <3>1, <3>3
  <2> QED
    BY <2>4, <2>5
<1>3. b \in Objects
  <2>1. b = [i \in Id |-> b[i]]
    BY <1>1 DEF Begun
  <2> QED
    BY <1>2, <2>1 DEF Objects
<1>4. SameShown(g, b) /\ AllReadyIn(b, loaded)
  BY <1>2 DEF SameShown, AllReadyIn
<1> QED
  BY <1>1, <1>3, <1>4

\* The controls after an update: the ones there were and the new ones, with
\* what they are and show.
LEMMA UpdateFacts ==
  ASSUME TypeOK, NEW m \in Response, AllReadyIn(object, loaded), update(m)
  PROVE  /\ object' \in Objects /\ SameShown(Grown(m), object')
         /\ AllReadyIn(object', loaded) /\ loaded' \in Loads /\ Later(loaded, loaded')
<1>0. m.kept \subseteq Id /\ loaded \in Loads
  BY ResponseFacts DEF TypeOK, Loads
<1>1. object' = Attach(Begun(m), loaded) /\ loaded' = Ask(Begun(m), loaded)
  BY <1>0, UpdateIs
<1>2. Begun(m) \in Objects /\ SameShown(Grown(m), Begun(m)) /\ AllReadyIn(Begun(m), loaded)
  BY BegunFacts
<1>3. PICK b, a : b = Begun(m) /\ a = Attach(b, loaded)
  OBVIOUS
<1>4. a \in Objects /\ SameShown(b, a) /\ AllReadyIn(a, loaded)
  BY <1>2, <1>3, AttachFacts
<1>5. SameShown(Grown(m), a)
  BY <1>2, <1>3, <1>4 DEF SameShown
<1>6. Ask(Begun(m), loaded) \in Loads /\ Later(loaded, Ask(Begun(m), loaded))
  BY <1>0, AskFacts
<1> QED
  BY <1>1, <1>3, <1>4, <1>5, <1>6

--------------------------------------------------------------------------------
(* edit                                                                    *)

Edited(o) == [o EXCEPT !.shown.edited = TRUE, !.heard = @ \/ Hears(o)]

LEMMA EditedObject ==
  ASSUME NEW o \in Object
  PROVE  /\ Edited(o) \in Object /\ Edited(o).tag = o.tag
         /\ Edited(o).shown = [o.shown EXCEPT !.edited = TRUE]
         /\ Edited(o).heard = (o.heard \/ Hears(o))
         /\ \A ld : Ready(o, ld) => Ready(Edited(o), ld)
<1>1. PICK s : s = [o.shown EXCEPT !.edited = TRUE]
  OBVIOUS
<1>2. s \in State
  BY <1>1, ObjectFacts DEF State
<1>3. PICK h \in BOOLEAN : h = (o.heard \/ Hears(o))
  BY Zenon
<1>4. PICK p : p = [o EXCEPT !.shown = s, !.heard = h]
  OBVIOUS
<1>5. Edited(o) = p
  BY <1>1, <1>3, <1>4 DEF Edited
<1>6. p \in Object
  BY <1>2, <1>4 DEF Object
<1>7. /\ p.tag = o.tag /\ p.shown = s /\ p.heard = h
      /\ p.attached = o.attached /\ p.pending = o.pending
      /\ (o.executed => p.executed)
  BY <1>4 DEF Object
<1>8. \A ld : Ready(o, ld) => Ready(p, ld)
  BY <1>7 DEF Ready
<1> QED
  BY <1>1, <1>3, <1>5, <1>6, <1>7, <1>8

LEMMA EditFacts ==
  ASSUME TypeOK, AllReadyIn(object, loaded), NEW i \in Id, edit(i)
  PROVE  /\ object' \in Objects /\ AllReadyIn(object', loaded)
         /\ object[i][dom[i]] \in Object /\ dom[i] \in 1 .. Len(object[i])
         /\ \A j \in Id : /\ Len(object'[j]) = Len(object[j])
                          /\ \A u \in 1 .. Len(object[j]) :
                               object'[j][u].tag = object[j][u].tag
         /\ \A j \in Id : j # i => object'[j] = object[j]
         /\ object'[i][dom[i]] = Edited(object[i][dom[i]])
         /\ \A u \in 1 .. Len(object[i]) : u # dom[i] => object'[i][u] = object[i][u]
<1>0. /\ object \in Objects /\ object[i] \in Seq(Object)
      /\ dom[i] \in Nat /\ dom[i] <= Len(object[i]) /\ dom[i] # 0
  BY DEF TypeOK, Objects, edit
<1>1. dom[i] \in 1 .. Len(object[i])
  BY <1>0, LenProperties
<1>2. PICK d, s, o, p : /\ d = dom[i] /\ s = object[i] /\ o = s[d]
                        /\ p = Edited(o)
  OBVIOUS
<1>3. s \in Seq(Object) /\ d \in 1 .. Len(s) /\ o \in Object
  BY <1>0, <1>1, <1>2, ElementOfSeq
<1>4. /\ p \in Object /\ p.tag = o.tag
      /\ Ready(o, loaded) => Ready(p, loaded)
  BY <1>2, <1>3, EditedObject
<1>5. PICK t : t = [s EXCEPT ![d] = p]
  OBVIOUS
<1>6. /\ t \in Seq(Object) /\ Len(t) = Len(s)
      /\ \A u \in 1 .. Len(s) : t[u] = IF u = d THEN p ELSE s[u]
  BY <1>3, <1>4, <1>5, ExceptSeq
<1>7. object' = [object EXCEPT ![i] = t]
  <2>1. object' = [object EXCEPT ![i][dom[i]] = Edited(object[i][dom[i]])]
    BY DEF edit, Edited
  <2> QED
    BY <1>2, <1>5, <2>1
<1>8. object'[i] = t /\ \A j \in Id : j # i => object'[j] = object[j]
  BY <1>0, <1>7 DEF Objects
<1>9. object' \in Objects
  BY <1>0, <1>6, <1>7 DEF Objects
<1>10. ASSUME NEW j \in Id, NEW u \in 1 .. Len(object[j])
       PROVE  /\ object'[j][u].tag = object[j][u].tag
              /\ Ready(object'[j][u], loaded)
  <2>1. Ready(object[j][u], loaded)
    BY DEF AllReadyIn
  <2>2. CASE j = i
    BY <1>2, <1>4, <1>6, <1>8, <2>1, <2>2
  <2>3. CASE j # i
    BY <1>8, <2>1, <2>3
  <2> QED
    BY <2>2, <2>3
<1>11. \A j \in Id : Len(object'[j]) = Len(object[j])
  BY <1>2, <1>6, <1>8
<1>12. AllReadyIn(object', loaded)
  BY <1>10, <1>11 DEF AllReadyIn
<1>13. /\ object'[i][dom[i]] = Edited(object[i][dom[i]])
       /\ \A u \in 1 .. Len(object[i]) : u # dom[i] => object'[i][u] = object[i][u]
  BY <1>2, <1>3, <1>6, <1>8
<1> QED
  BY <1>1, <1>2, <1>3, <1>8, <1>9, <1>10, <1>11, <1>12, <1>13

--------------------------------------------------------------------------------
(* The invariant                                                           *)

AllReady == AllReadyIn(object, loaded)

\* The state a control has in fullstate.controls: what its element shows, but
\* an edit only if the change handler heard one.
Sent(o) == [o.shown EXCEPT !.edited = o.heard]

\* fullstate.controls has the state of every control that ever was, until its
\* id is used again exactly that one; an edit that was heard stays in it.
Saved ==
  \A i \in Id : /\ Len(object[i]) = 0 <=> full[i] = None
                /\ Len(object[i]) = 1 => full[i] = Sent(object[i][1])
                /\ \A u \in 1 .. Len(object[i]) : object[i][u].heard => full[i].edited

\* The state an answer brings for an id that was never shown is a fresh one.
Early ==
  \A m \in net : \A i \in Id :
    full[i] = None =>
      /\ m.at = "request" => m.full[i] = None
      /\ m.at = "response" /\ i \in m.kept => m.newstate[i].edited = FALSE

Inv == TypeOK /\ AllReady /\ Saved /\ Early

\* The steps, by what they do to the controls.
LEMMA NextCases ==
  ASSUME TypeOK, [Next]_vars
  PROVE  \/ UNCHANGED vars
         \/ \E add \in SUBSET Tag, remove \in Seq(Id) :
              (\A t, u \in add : t = u) /\ trigger_callback(add, remove)
         \/ \E i \in Id : edit(i)
         \/ \E m \in net : m \in Request /\ execute(m)
         \/ \E m \in net : callback_lost(m)
         \/ \E m \in net : m \in Response /\ update(m)
         \/ \E m \in net : m \in Response /\ update_aborted(m)
         \/ \E s \in Script : script_loaded(s) \/ script_failed(s)
<1>1. ASSUME NEW t \in Tag, click_add(t)
      PROVE  \E add \in SUBSET Tag, remove \in Seq(Id) :
               (\A v, u \in add : v = u) /\ trigger_callback(add, remove)
  <2>1. <<>> \in Seq(Id) /\ {t} \in SUBSET Tag /\ \A v, u \in {t} : v = u
    BY EmptySeq
  <2>2. trigger_callback({t}, <<>>)
    BY <1>1 DEF click_add
  <2> QED
    BY <2>1, <2>2
<1>2. ASSUME NEW ids \in Seq(Id), click_remove(ids)
      PROVE  \E add \in SUBSET Tag, remove \in Seq(Id) :
               (\A v, u \in add : v = u) /\ trigger_callback(add, remove)
  <2>1. trigger_callback({}, ids)
    BY <1>2 DEF click_remove
  <2>2. {} \in SUBSET Tag /\ \A v, u \in {} : v = u
    OBVIOUS
  <2> QED
    BY <2>1, <2>2
<1>3. \A m \in net : /\ m.at = "request" => m \in Request
                     /\ m.at = "response" => m \in Response
  BY RequestFacts, ResponseFacts DEF TypeOK
<1>4. \A i, j \in Id : <<i>> \in Seq(Id) /\ <<i, j>> \in Seq(Id)
  OBVIOUS
<1>5. ASSUME NEW m \in net, execute(m) PROVE m \in Request
  BY <1>3, <1>5 DEF execute
<1>6. ASSUME NEW m \in net, update(m) \/ update_aborted(m) PROVE m \in Response
  BY <1>3, <1>6 DEF update, update_aborted
<1>7. CASE UNCHANGED vars
  BY <1>7
<1>8. CASE Next
  <2>1. CASE \E t \in Tag : click_add(t)
    BY <1>1, <2>1
  <2>2. CASE \E i \in Id : click_remove(<<i>>) \/ edit(i)
    BY <1>2, <1>4, <2>2
  <2>3. CASE \E i, j \in Id : i # j /\ click_remove(<<i, j>>)
    BY <1>2, <1>4, <2>3
  <2>4. CASE \E m \in net : execute(m) \/ callback_lost(m) \/ update(m) \/ update_aborted(m)
    BY <1>5, <1>6, <2>4
  <2>5. CASE \E s \in Script : script_loaded(s) \/ script_failed(s)
    BY <2>5
  <2> QED
    BY <1>8, <2>1, <2>2, <2>3, <2>4, <2>5 DEF Next
<1> QED
  BY <1>7, <1>8

LEMMA LoadedFacts ==
  ASSUME TypeOK, AllReady, NEW s \in Script, script_loaded(s)
  PROVE  /\ loaded' \in Loads /\ object' \in Objects
         /\ SameShown(object, object') /\ AllReadyIn(object', loaded')
<1>0. loaded \in Loads /\ object \in Objects
  BY DEF TypeOK, Loads, Objects
<1>1. PICK ld : ld = [loaded EXCEPT ![s] = "loaded"]
  OBVIOUS
<1>2. ld \in Loads /\ Later(loaded, ld)
  BY <1>0, <1>1 DEF Loads, Later
<1>3. loaded' = Ask(object, ld) /\ object' = Attach(object, ld)
  BY <1>1 DEF script_loaded
<1>4. Ask(object, ld) \in Loads /\ Later(ld, Ask(object, ld))
  BY <1>2, AskFacts
<1>5. AllReadyIn(object, ld)
  BY <1>0, <1>2, ReadyIn DEF AllReady
<1>6. /\ Attach(object, ld) \in Objects /\ SameShown(object, Attach(object, ld))
      /\ AllReadyIn(Attach(object, ld), ld)
  BY <1>0, <1>5, AttachFacts
<1>7. AllReadyIn(Attach(object, ld), Ask(object, ld))
  BY <1>4, <1>6, ReadyIn
<1> QED
  BY <1>3, <1>4, <1>6, <1>7

LEMMA FailedFacts ==
  ASSUME TypeOK, NEW s \in Script, script_failed(s)
  PROVE  loaded' \in Loads /\ Later(loaded, loaded')
BY DEF TypeOK, Loads, Later, script_failed

LEMMA ReadyStep == ASSUME Inv, [Next]_vars PROVE AllReady'
<1>0. TypeOK /\ AllReady /\ AllReadyIn(object, loaded) /\ object \in Objects
  BY DEF Inv, AllReady, TypeOK, Objects
<1>1. SUFFICES AllReadyIn(object', loaded')
  BY DEF AllReady, AllReadyIn, Ready
<1>2. CASE UNCHANGED <<object, loaded>>
  BY <1>0, <1>2
<1>3. ASSUME NEW i \in Id, edit(i) PROVE AllReadyIn(object', loaded')
  <2>1. loaded' = loaded
    BY <1>3 DEF edit
  <2> QED
    BY <1>0, <1>3, <2>1, EditFacts
<1>4. ASSUME NEW m \in Response, update(m) PROVE AllReadyIn(object', loaded')
  <2>1. object' \in Objects /\ AllReadyIn(object', loaded) /\ Later(loaded, loaded')
    BY <1>0, <1>4, UpdateFacts
  <2> QED
    BY <2>1, ReadyIn
<1>5. ASSUME NEW s \in Script, script_loaded(s) PROVE AllReadyIn(object', loaded')
  BY <1>0, <1>5, LoadedFacts
<1>6. ASSUME NEW s \in Script, script_failed(s) PROVE AllReadyIn(object', loaded')
  <2>1. object' = object /\ Later(loaded, loaded')
    BY <1>0, <1>6, FailedFacts DEF script_failed
  <2> QED
    BY <1>0, <2>1, ReadyIn
<1> QED
  BY <1>0, <1>2, <1>3, <1>4, <1>5, <1>6, NextCases
  DEF vars, clientVars, trigger_callback, execute, callback_lost, update_aborted

\* What the page knows of the controls is about elements that there are.
LEMMA TypeStep == ASSUME Inv, [Next]_vars PROVE TypeOK'
<1>0. /\ TypeOK /\ AllReady /\ AllReadyIn(object, loaded)
      /\ object \in Objects /\ loaded \in Loads
  BY DEF Inv, AllReady, TypeOK, Objects, Loads
<1>1. CASE UNCHANGED vars
  BY <1>0, <1>1 DEF vars, clientVars, TypeOK
<1>2. ASSUME NEW add \in SUBSET Tag, NEW remove \in Seq(Id), trigger_callback(add, remove)
      PROVE  TypeOK'
  <2>1. PICK r : /\ net' = net \cup {r}
                 /\ r = [n |-> callbacks + 1, at |-> "request", add |-> add,
                         remove |-> remove, items |-> items, full |-> full]
    BY <1>2 DEF trigger_callback
  <2>2. callbacks + 1 \in 1 .. MaxCallback /\ callbacks' = callbacks + 1
    BY <1>0, <1>2, WidgetAssumption DEF TypeOK, trigger_callback
  <2>3. r \in Request
    BY <1>0, <2>1, <2>2 DEF TypeOK, Request
  <2>4. net' \subseteq Request \cup Response /\ callbacks' \in 0 .. MaxCallback
    BY <1>0, <2>1, <2>2, <2>3, WidgetAssumption DEF TypeOK
  <2>5. disturbed' \in BOOLEAN /\ UNCHANGED clientVars
    BY <1>0, <1>2 DEF TypeOK, trigger_callback
  <2> QED
    BY <1>0, <2>4, <2>5 DEF TypeOK, clientVars
<1>3. ASSUME NEW i \in Id, edit(i) PROVE TypeOK'
  <2>1. /\ object' \in Objects /\ (\A j \in Id : Len(object'[j]) = Len(object[j]))
    BY <1>0, <1>3, EditFacts
  <2>2. UNCHANGED <<items, dom, controls, loaded, net, callbacks, disturbed>>
    BY <1>3 DEF edit
  <2>3. full' \in [Id -> State \cup {None}]
    <3>1. PICK h \in BOOLEAN : h = (full[i].edited \/ Hears(object[i][dom[i]]))
      BY Zenon
    <3>2. full[i] \in State
      <4>1. full[i] # None
        <5>1. dom[i] \in 1 .. Len(object[i])
          BY <1>0, <1>3, EditFacts
        <5>2. Len(object[i]) # 0
          BY <5>1
        <5> QED
          BY <5>2 DEF Inv, Saved
      <4> QED
        BY <1>0, <4>1 DEF TypeOK
    <3>3. PICK e : e = [full[i] EXCEPT !.edited = h]
      OBVIOUS
    <3>4. e \in State
      BY <3>2, <3>3 DEF State
    <3>5. full' = [full EXCEPT ![i] = e]
      BY <1>3, <3>1, <3>3 DEF edit
    <3> QED
      BY <1>0, <3>4, <3>5 DEF TypeOK
  <2>4. \A j \in Id : dom'[j] <= Len(object'[j]) /\ controls'[j] <= Len(object'[j])
    BY <1>0, <2>1, <2>2 DEF TypeOK
  <2> QED
    BY <1>0, <2>1, <2>2, <2>3, <2>4 DEF TypeOK, Objects
<1>4. ASSUME NEW m \in net, m \in Request, execute(m) PROVE TypeOK'
  <2>1. net' = (net \ {m}) \cup {Reply(m)} /\ UNCHANGED <<clientVars, callbacks, disturbed>>
    BY <1>4, ExecuteIs
  <2>2. Reply(m) \in Response
    BY <1>4, ExecuteIs, ReplyFacts
  <2>3. net' \subseteq Request \cup Response
    BY <1>0, <2>1, <2>2 DEF TypeOK
  <2> QED
    BY <1>0, <2>1, <2>3 DEF TypeOK, clientVars
<1>5. ASSUME NEW m \in net, callback_lost(m) PROVE TypeOK'
  BY <1>0, <1>5 DEF TypeOK, clientVars, callback_lost
<1>6. ASSUME NEW m \in Response, update(m) PROVE TypeOK'
  <2>0. /\ m.kept \subseteq Id /\ m.items \subseteq Item
        /\ \A i \in m.kept : m.newstate[i] \in State
    BY ResponseFacts
  <2>1. /\ object' \in Objects /\ SameShown(Grown(m), object') /\ loaded' \in Loads
    BY <1>0, <1>6, UpdateFacts
  <2>2. /\ items' = m.items /\ net' = net \ {m} /\ UNCHANGED <<callbacks, disturbed>>
        /\ full' = [i \in Id |-> IF i \in m.kept /\ full[i] = None
                                 THEN m.newstate[i] ELSE full[i]]
        /\ dom' = Shown(m) /\ controls' = Shown(m)
    BY <1>6, <2>0, UpdateIs
  <2>3. full' \in [Id -> State \cup {None}]
    BY <1>0, <2>0, <2>2 DEF TypeOK
  <2>4. ASSUME NEW i \in Id PROVE Shown(m)[i] \in Nat /\ Shown(m)[i] <= Len(object'[i])
    <3>1. Shown(m)[i] \in 0 .. Len(Grown(m)[i]) /\ Len(object'[i]) = Len(Grown(m)[i])
      BY <1>0, <2>1, GrownFacts DEF SameShown
    <3> QED
      BY <3>1
  <2>5. Shown(m) \in [Id -> Nat]
    <3>1. Shown(m) = [i \in Id |-> Shown(m)[i]]
      BY DEF Shown
    <3> QED
      BY <2>4, <3>1
  <2>6. items' \subseteq Item /\ net' \subseteq Request \cup Response
    BY <1>0, <2>0, <2>2 DEF TypeOK
  <2> QED
    BY <1>0, <2>1, <2>2, <2>3, <2>4, <2>5, <2>6 DEF TypeOK, Objects, Loads
<1>7. ASSUME NEW m \in Response, update_aborted(m) PROVE TypeOK'
  <2>1. /\ items' = m.items /\ net' = net \ {m} /\ disturbed' = TRUE
        /\ UNCHANGED <<full, controls, object, loaded, callbacks>>
        /\ dom' = [i \in Id |-> IF i \in Removed(m) /\ dom[i] = controls[i] THEN 0 ELSE dom[i]]
    BY <1>7 DEF update_aborted
  <2>2. items' \subseteq Item /\ net' \subseteq Request \cup Response
    BY <1>0, <2>1, ResponseFacts DEF TypeOK
  <2>3. ASSUME NEW i \in Id PROVE dom'[i] \in Nat /\ dom'[i] <= Len(object[i])
    <3>1. dom'[i] \in {0, dom[i]} /\ dom[i] \in Nat /\ dom[i] <= Len(object[i])
      BY <1>0, <2>1 DEF TypeOK
    <3>2. Len(object[i]) \in Nat
      BY <1>0, LenProperties DEF Objects
    <3> QED
      BY <3>1, <3>2
  <2>4. dom' \in [Id -> Nat]
    BY <2>1, <2>3
  <2> QED
    BY <1>0, <2>1, <2>2, <2>3, <2>4 DEF TypeOK
<1>8. ASSUME NEW s \in Script, script_loaded(s) PROVE TypeOK'
  <2>1. loaded' \in Loads /\ object' \in Objects /\ SameShown(object, object')
    BY <1>0, <1>8, LoadedFacts
  <2>2. UNCHANGED <<items, full, dom, controls, net, callbacks, disturbed>>
    BY <1>8 DEF script_loaded
  <2>3. \A i \in Id : dom'[i] <= Len(object'[i]) /\ controls'[i] <= Len(object'[i])
    BY <1>0, <2>1, <2>2 DEF TypeOK, SameShown
  <2> QED
    BY <1>0, <2>1, <2>2, <2>3 DEF TypeOK, Objects, Loads
<1>9. ASSUME NEW s \in Script, script_failed(s) PROVE TypeOK'
  <2>1. loaded' \in Loads
    BY <1>0, <1>9, FailedFacts
  <2> QED
    BY <1>0, <1>9, <2>1 DEF TypeOK, Loads, script_failed
<1> QED
  BY <1>0, <1>1, <1>2, <1>3, <1>4, <1>5, <1>6, <1>7, <1>8, <1>9, NextCases

\* update keeps the state that is there, and an edit that is heard writes both
\* sides.
LEMMA SavedStep == ASSUME Inv, [Next]_vars PROVE Saved'
<1>0. /\ TypeOK /\ AllReady /\ AllReadyIn(object, loaded) /\ Saved /\ Early
      /\ object \in Objects /\ full \in [Id -> State \cup {None}]
  BY DEF Inv, AllReady, TypeOK, Objects
<1>1. CASE UNCHANGED <<object, full>>
  BY <1>0, <1>1 DEF Saved
<1>2. ASSUME NEW i \in Id, edit(i) PROVE Saved'
  <2>1. PICK d, o : d = dom[i] /\ o = object[i][d]
    OBVIOUS
  <2>2. /\ \A j \in Id : Len(object'[j]) = Len(object[j])
        /\ d \in 1 .. Len(object[i]) /\ o \in Object
        /\ \A j \in Id : j # i => object'[j] = object[j]
        /\ object'[i][d] = Edited(o)
        /\ \A u \in 1 .. Len(object[i]) : u # d => object'[i][u] = object[i][u]
    BY <1>0, <1>2, <2>1, EditFacts
  <2>3. PICK h \in BOOLEAN : h = (full[i].edited \/ Hears(o))
    BY Zenon
  <2>4. full' = [full EXCEPT ![i].edited = h]
    BY <1>2, <2>1, <2>3 DEF edit
  <2>5. full'[i] = [full[i] EXCEPT !.edited = h] /\ \A j \in Id : j # i => full'[j] = full[j]
    BY <1>0, <2>4
  <2>6. Len(object[i]) # 0 /\ full[i] \in State
    BY <1>0, <2>2 DEF Saved
  <2>7. full'[i] \in State /\ full'[i].tag = full[i].tag /\ full'[i].edited = h
    BY <2>5, <2>6 DEF State
  <2>8. /\ Edited(o).shown = [o.shown EXCEPT !.edited = TRUE]
        /\ Edited(o).heard = (o.heard \/ Hears(o))
        /\ o.shown \in State /\ o.heard \in BOOLEAN
    BY <2>2, EditedObject, ObjectFacts
  <2>9. Len(object[i]) = 1 => full'[i] = Sent(object'[i][1])
    <3> SUFFICES ASSUME Len(object[i]) = 1 PROVE full'[i] = Sent(object'[i][1])
      OBVIOUS
    <3>1. d = 1
      BY <2>2
    <3>2. full[i] = [o.shown EXCEPT !.edited = o.heard]
      BY <1>0, <2>1, <3>1 DEF Saved, Sent
    <3>3. full[i].tag = o.shown.tag /\ full[i].edited = o.heard
      BY <2>8, <3>2 DEF State
    <3>4. h = Edited(o).heard
      BY <2>3, <2>8, <3>3, Zenon
    <3>5. PICK q : q = [o.shown EXCEPT !.edited = h]
      OBVIOUS
    <3>6. q \in State /\ q.tag = o.shown.tag /\ q.edited = h
      BY <2>8, <3>5 DEF State
    <3>7. full'[i] = q
      BY <2>7, <3>3, <3>6 DEF State
    <3>8. Sent(Edited(o)) = q
      <4>1. PICK v : v = [o.shown EXCEPT !.edited = TRUE]
        OBVIOUS
      <4>2. Sent(Edited(o)) = [v EXCEPT !.edited = h]
        BY <2>8, <3>4, <4>1 DEF Sent
      <4> QED
        BY <2>8, <3>5, <4>1, <4>2 DEF State
    <3> QED
      BY <2>2, <3>1, <3>7, <3>8
  <2>10. ASSUME NEW u \in 1 .. Len(object[i]), object'[i][u].heard PROVE full'[i].edited
    <3>1. CASE u = d
      <4>1. o.heard \/ Hears(o)
        BY <2>2, <2>8, <2>10, <3>1
      <4>2. o.heard => full[i].edited
        BY <1>0, <2>1, <2>2 DEF Saved
      <4> QED
        BY <2>3, <2>7, <4>1, <4>2, Zenon
    <3>2. CASE u # d
      <4>1. full[i].edited
        BY <1>0, <2>2, <2>10, <3>2 DEF Saved
      <4> QED
        BY <2>3, <2>7, <4>1, Zenon
    <3> QED
      BY <3>1, <3>2
  <2>11. ASSUME NEW j \in Id
         PROVE  /\ Len(object'[j]) = 0 <=> full'[j] = None
                /\ Len(object'[j]) = 1 => full'[j] = Sent(object'[j][1])
                /\ \A u \in 1 .. Len(object'[j]) : object'[j][u].heard => full'[j].edited
    <3>1. CASE j = i
      <4>1. full'[i] # None
        BY <2>7, StateFacts
      <4> QED
        BY <2>2, <2>6, <2>9, <2>10, <3>1, <4>1
    <3>2. CASE j # i
      BY <1>0, <2>2, <2>5, <3>2 DEF Saved
    <3> QED
      BY <3>1, <3>2
  <2> QED
    BY <2>11 DEF Saved
<1>3. ASSUME NEW m \in Response, m \in net, update(m) PROVE Saved'
  <2>0. m.kept \subseteq Id /\ \A i \in m.kept : m.newstate[i] \in State
    BY ResponseFacts
  <2>1. SameShown(Grown(m), object')
    BY <1>0, <1>3, UpdateFacts
  <2>2. full' = [i \in Id |-> IF i \in m.kept /\ full[i] = None
                              THEN m.newstate[i] ELSE full[i]]
    BY <1>3, <2>0, UpdateIs
  <2>3. ASSUME NEW i \in Id
        PROVE  /\ Len(object'[i]) = 0 <=> full'[i] = None
               /\ Len(object'[i]) = 1 => full'[i] = Sent(object'[i][1])
               /\ \A u \in 1 .. Len(object'[i]) : object'[i][u].heard => full'[i].edited
    <3>0. PICK g : g = Grown(m)[i]
      OBVIOUS
    <3>1. /\ Len(object'[i]) = Len(g) /\ Len(object[i]) \in Nat
          /\ \A u \in 1 .. Len(g) : /\ object'[i][u].shown = g[u].shown
                                    /\ object'[i][u].heard = g[u].heard
      BY <1>0, <2>1, <3>0, GrownFacts DEF SameShown
    <3>2. full'[i] = IF i \in m.kept /\ full[i] = None THEN m.newstate[i] ELSE full[i]
      BY <2>2
    <3>3. /\ Len(object[i]) = 0 <=> full[i] = None
          /\ Len(object[i]) = 1 => full[i] = Sent(object[i][1])
          /\ \A u \in 1 .. Len(object[i]) : object[i][u].heard => full[i].edited
      BY <1>0 DEF Saved
    <3>4. CASE New(m, i)
      <4>1. /\ Len(g) = Len(object[i]) + 1 /\ i \in m.kept
            /\ g[Len(object[i]) + 1] = NewObject(i, m)
            /\ \A u \in 1 .. Len(object[i]) : g[u] = object[i][u]
        BY <1>0, <3>0, <3>4, GrownFacts DEF New
      <4>2. NewObject(i, m).shown = m.newstate[i] /\ NewObject(i, m).heard = FALSE
        BY DEF NewObject
      <4>3. CASE Len(object[i]) = 0
        <5>1. full'[i] = m.newstate[i] /\ full'[i] # None /\ full[i] = None
          BY <2>0, <3>2, <3>3, <4>1, <4>3, StateFacts
        <5>2. m.newstate[i].edited = FALSE /\ m.newstate[i] \in State
          BY <1>0, <1>3, <2>0, <4>1, <5>1 DEF Early, update
        <5>3. PICK o : o = object'[i][1]
          OBVIOUS
        <5>4. o.shown = m.newstate[i] /\ o.heard = FALSE
          BY <3>1, <4>1, <4>2, <4>3, <5>3
        <5>5. Sent(o) = m.newstate[i]
          BY <5>2, <5>4 DEF Sent, State
        <5> QED
          BY <3>1, <4>1, <4>2, <4>3, <5>1, <5>3, <5>4, <5>5
      <4>4. CASE Len(object[i]) # 0
        <5>1. full'[i] = full[i] /\ full[i] # None
          BY <3>2, <3>3, <4>4
        <5>2. ASSUME NEW u \in 1 .. Len(object'[i]), object'[i][u].heard PROVE full[i].edited
          <6>1. g[u].heard /\ u \in 1 .. Len(object[i]) + 1
            BY <3>1, <4>1, <5>2
          <6>2. u # Len(object[i]) + 1
            BY <4>1, <4>2, <6>1
          <6>3. u \in 1 .. Len(object[i])
            BY <3>1, <6>1, <6>2
          <6> QED
            BY <3>3, <4>1, <6>1, <6>3
        <5> QED
          BY <3>1, <4>1, <4>4, <5>1, <5>2
      <4> QED
        BY <4>3, <4>4
    <3>5. CASE ~New(m, i)
      <4>1. g = object[i]
        BY <1>0, <3>0, <3>5, GrownFacts
      <4>2. CASE Len(object[i]) = 0
        <5>1. dom[i] = 0
          BY <1>0, <4>2 DEF TypeOK
        <5>2. i \notin m.kept
          BY <3>5, <5>1 DEF New, Rest
        <5> QED
          BY <3>1, <3>2, <3>3, <4>1, <4>2, <5>2
      <4>3. CASE Len(object[i]) # 0
        <5>1. full'[i] = full[i] /\ full[i] # None
          BY <3>2, <3>3, <4>3
        <5>2. Len(object[i]) = 1 => Sent(object'[i][1]) = Sent(object[i][1])
          BY <3>1, <4>1 DEF Sent
        <5> QED
          BY <3>1, <3>3, <4>1, <4>3, <5>1, <5>2
      <4> QED
        BY <4>2, <4>3
    <3> QED
      BY <3>4, <3>5
  <2> QED
    BY <2>3 DEF Saved
<1>4. ASSUME NEW s \in Script, script_loaded(s) PROVE Saved'
  <2>1. SameShown(object, object') /\ full' = full
    BY <1>0, <1>4, LoadedFacts DEF script_loaded
  <2>2. ASSUME NEW i \in Id, Len(object[i]) = 1 PROVE Sent(object'[i][1]) = Sent(object[i][1])
    BY <2>1, <2>2 DEF SameShown, Sent
  <2> QED
    BY <1>0, <2>1, <2>2 DEF Saved, SameShown
<1> QED
  BY <1>0, <1>1, <1>2, <1>3, <1>4, NextCases
  DEF vars, clientVars, trigger_callback, execute, callback_lost, update_aborted,
      script_failed

\* An id that was never shown has no state on the page, so none in a request,
\* and the server makes a fresh one.
LEMMA EarlyStep == ASSUME Inv, [Next]_vars PROVE Early'
<1>0. /\ TypeOK /\ AllReady /\ AllReadyIn(object, loaded) /\ Saved /\ Early
      /\ full \in [Id -> State \cup {None}]
  BY DEF Inv, AllReady, TypeOK
<1>1. ASSUME NEW i \in Id, full'[i] = None PROVE full[i] = None
  <2>1. CASE full' = full
    BY <1>1, <2>1
  <2>2. ASSUME NEW j \in Id, edit(j) PROVE full[i] = None
    <3>1. Saved'
      BY <2>2, SavedStep
    <3>2. Len(object'[i]) = Len(object[i])
      BY <1>0, <2>2, EditFacts
    <3> QED
      BY <1>0, <1>1, <3>1, <3>2 DEF Saved
  <2>3. ASSUME NEW m \in Response, update(m) PROVE full[i] = None
    <3>1. m.kept \subseteq Id
      BY ResponseFacts
    <3>2. full'[i] = IF i \in m.kept /\ full[i] = None THEN m.newstate[i] ELSE full[i]
      BY <2>3, <3>1, UpdateIs
    <3> QED
      BY <1>1, <3>2
  <2> QED
    BY <1>0, <2>1, <2>2, <2>3, NextCases
    DEF vars, clientVars, trigger_callback, execute, callback_lost, update_aborted,
        script_loaded, script_failed
<1>2. CASE net' \subseteq net
  BY <1>0, <1>1, <1>2 DEF Early
<1>3. ASSUME NEW add, NEW remove, trigger_callback(add, remove) PROVE Early'
  <2>1. PICK r : /\ net' = net \cup {r}
                 /\ r = [n |-> callbacks + 1, at |-> "request", add |-> add,
                         remove |-> remove, items |-> items, full |-> full]
    BY <1>3 DEF trigger_callback
  <2>2. r.at = "request" /\ r.full = full
    BY <2>1
  <2> QED
    BY <1>0, <1>1, <2>1, <2>2 DEF Early
<1>4. ASSUME NEW m \in net, m \in Request, execute(m) PROVE Early'
  <2>1. net' = (net \ {m}) \cup {Reply(m)} /\ m.at = "request"
    BY <1>4, ExecuteIs
  <2>2. PICK r : r = Reply(m)
    OBVIOUS
  <2>3. r.at = "response" /\ r.kept = Left(m).kept
        /\ \A i \in r.kept : r.newstate[i] = StateIn(m, i)
    BY <2>2 DEF Reply
  <2>4. ASSUME NEW i \in Id, full[i] = None, i \in r.kept PROVE r.newstate[i].edited = FALSE
    <3>1. m.full[i] = None
      BY <1>0, <1>4, <2>1, <2>4 DEF Early
    <3>2. StateIn(m, i) = Fresh(TagOf(All(m), i))
      BY <3>1 DEF StateIn
    <3> QED
      BY <2>3, <2>4, <3>2 DEF Fresh
  <2> QED
    BY <1>0, <1>1, <2>1, <2>2, <2>3, <2>4 DEF Early
<1> QED
  BY <1>0, <1>2, <1>3, <1>4, NextCases
  DEF vars, edit, callback_lost, update, update_aborted, script_loaded, script_failed

LEMMA Initially == Init => Inv
<1> SUFFICES ASSUME Init PROVE Inv
  OBVIOUS
<1>1. \A i \in Id : object[i] \in Seq(Object) /\ Len(object[i]) = 0
  BY EmptySeq DEF Init
<1>2. object \in [Id -> Seq(Object)]
  BY EmptySeq DEF Init
<1>3. TypeOK
  <2>1. dom \in [Id -> Nat] /\ controls \in [Id -> Nat]
    BY DEF Init
  <2>2. \A i \in Id : dom[i] <= Len(object[i]) /\ controls[i] <= Len(object[i])
    BY <1>1 DEF Init
  <2>3. callbacks \in 0 .. MaxCallback /\ net = {} /\ items = {} /\ disturbed = FALSE
    BY WidgetAssumption DEF Init
  <2>4. full \in [Id -> State \cup {None}]
    BY DEF Init
  <2>5. loaded \in [Script -> {"none", "loading", "loaded", "failed"}]
    BY DEF Init
  <2> QED
    BY <1>2, <2>1, <2>2, <2>3, <2>4, <2>5 DEF TypeOK
<1>4. AllReady
  BY <1>1 DEF AllReady, AllReadyIn
<1>5. Saved /\ Early
  BY <1>1 DEF Init, Saved, Early
<1> QED
  BY <1>3, <1>4, <1>5 DEF Inv

LEMMA Invariant == Spec => []Inv
<1>1. Inv /\ [Next]_vars => Inv'
  BY TypeStep, ReadyStep, SavedStep, EarlyStep DEF Inv
<1> QED
  BY <1>1, Initially, PTL DEF Spec

\* Type correctness of the page and of its messages: the ids the server gives
\* are ids, and what is shown is an element that was appended.
THEOREM TypeCorrect == Spec => []TypeOK
<1>1. Inv => TypeOK
  BY DEF Inv
<1> QED
  BY <1>1, Invariant, PTL

\* attach_events runs when all scripts of the control are loaded, and once for
\* a control whose initialize is wrapped in once, whatever updates and scripts
\* come in which order.
THEOREM AttachesOnceWhenReady == Spec => []AttachedOnceReady
<1>1. Inv => AttachedOnceReady
  <2> SUFFICES ASSUME Inv,
                      NEW i \in Id, NEW o \in Range(object[i])
               PROVE  /\ o.attached > 0 =>
                           \A s \in UNION Range(Stages[o.tag]) : loaded[s] = "loaded"
                      /\ o.tag \notin Codeview => o.attached <= 1
    BY DEF AttachedOnceReady
  <2>1. object[i] \in Seq(Object)
    BY DEF Inv, TypeOK
  <2>2. PICK u \in 1 .. Len(object[i]) : o = object[i][u]
    BY <2>1, LenProperties DEF Range
  <2>3. o \in Object /\ Ready(o, loaded)
    BY <2>1, <2>2, ElementOfSeq DEF Inv, AllReady, AllReadyIn
  <2>4. o.attached \in Nat /\ o.pending \in Nat
    BY <2>3, ObjectFacts
  <2>5. o.tag \notin Codeview => o.attached <= 1
    BY <2>3, <2>4 DEF Ready
  <2> QED
    BY <2>3, <2>5 DEF Ready, ScriptsOf
<1> QED
  BY <1>1, Invariant, PTL

\* A change that its handler heard is sent back with every later callback,
\* however callbacks overlap and under a reused id too; and until an id is used
\* a second time its state is what the element shows, but for edits that no
\* handler heard.
THEOREM SendsWhatWasHeard == Spec => []HeardIsSent
<1>1. Inv => HeardIsSent
  <2> SUFFICES ASSUME Inv, NEW i \in Id, dom[i] # 0
               PROVE  /\ object[i][dom[i]].heard => full[i].edited
                      /\ Len(object[i]) = 1 => full[i] = Sent(object[i][dom[i]])
    BY DEF HeardIsSent, Sent
  <2>1. dom[i] \in 1 .. Len(object[i])
    <3>1. dom[i] \in Nat /\ dom[i] <= Len(object[i]) /\ object[i] \in Seq(Object)
      BY DEF Inv, TypeOK
    <3> QED
      BY <3>1, LenProperties
  <2>2. Len(object[i]) = 1 => dom[i] = 1
    BY <2>1
  <2> QED
    BY <2>1, <2>2 DEF Inv, Saved
<1> QED
  BY <1>1, Invariant, PTL

--------------------------------------------------------------------------------
(* One callback at a time                                                  *)

\* The request carries the items that are shown; the response keeps the items
\* that it does not remove.
Asks(m) ==
  /\ m.items = items /\ Len(m.remove) <= 1
  /\ \A t, u \in m.add : t = u
Answers(m) ==
  /\ m.kept = Ids(m.items)
  /\ \A x \in m.items : m.render[x.id] = x.tag /\ (x.id \in Ids(items) => x \in items)

\* The items are what is shown, one for each id.
Listed ==
  /\ \A x \in items : dom[x.id] # 0 /\ object[x.id][dom[x.id]].tag = x.tag
  /\ \A i \in Id : dom[i] # 0 => i \in Ids(items)

Settled ==
  ~disturbed =>
    /\ \A i \in Id : controls[i] = dom[i]
    /\ Listed
    /\ \A m, k \in net : m = k
    /\ \A m \in net : /\ m.at = "request" => Asks(m)
                      /\ m.at = "response" => Answers(m)

LEMMA ListedOnce ==
  ASSUME TypeOK, Listed
  PROVE  \A x, y \in items : x.id = y.id => x = y
<1>1. SUFFICES ASSUME NEW x \in items, NEW y \in items, x.id = y.id PROVE x = y
  OBVIOUS
<1>2. x \in Item /\ y \in Item
  BY DEF TypeOK
<1>3. x.tag = y.tag
  BY <1>1 DEF Listed
<1> QED
  BY <1>1, <1>2, <1>3 DEF Item

LEMMA ListedIsShown ==
  ASSUME TypeOK, Listed
  PROVE  {[id |-> i, tag |-> object[i][dom[i]].tag] : i \in {j \in Id : dom[j] # 0}} = items
<1>0. \A x \in items : x.id \in Id /\ x = [id |-> x.id, tag |-> x.tag]
  BY DEF TypeOK, Item
<1>1. ASSUME NEW i \in Id, dom[i] # 0
      PROVE  [id |-> i, tag |-> object[i][dom[i]].tag] \in items
  <2>1. PICK x \in items : x.id = i
    BY <1>1 DEF Listed, Ids
  <2>2. x = [id |-> i, tag |-> object[i][dom[i]].tag]
    BY <1>0, <2>1 DEF Listed
  <2> QED
    BY <2>2
<1>2. ASSUME NEW x \in items
      PROVE  \E i \in {j \in Id : dom[j] # 0} : x = [id |-> i, tag |-> object[i][dom[i]].tag]
  <2>1. x.id \in Id /\ dom[x.id] # 0 /\ object[x.id][dom[x.id]].tag = x.tag
    BY <1>0 DEF Listed
  <2>2. x = [id |-> x.id, tag |-> object[x.id][dom[x.id]].tag]
    BY <1>0, <2>1
  <2> QED
    BY <2>1, <2>2
<1> QED
  BY <1>1, <1>2

\* The server's answer to a request that removes at most one item.
LEMMA AnswerFacts ==
  ASSUME TypeOK, Listed, NEW m \in Request, Asks(m),
         m.add # {} => MaxId \notin Ids(m.items)
  PROVE  /\ Reply(m).kept = Ids(Reply(m).items)
         /\ \A x \in Reply(m).items :
              /\ Reply(m).render[x.id] = x.tag
              /\ x.id \in Ids(items) => x \in items
<1>1. PICK k : /\ k \notin Ids(items)
               /\ All(m) = items \cup {[id |-> k, tag |-> t] : t \in m.add}
  BY AddFacts DEF Asks
<1>2. PICK all : all = All(m)
  OBVIOUS
<1>3. \A x \in all : x.id = k \/ x \in items
  BY <1>1, <1>2
<1>4. \A x \in all : x.id \in Ids(items) => x \in items
  BY <1>1, <1>3
<1>5. \A x, y \in all : x.id = y.id => x = y
  <2> SUFFICES ASSUME NEW x \in all, NEW y \in all, x.id = y.id PROVE x = y
    OBVIOUS
  <2>1. CASE x \in items
    <3>1. x.id \in Ids(items)
      BY <2>1 DEF Ids
    <3>2. y \in items
      BY <1>4, <3>1
    <3> QED
      BY <2>1, <3>2, ListedOnce
  <2>2. CASE y \in items
    <3>1. y.id \in Ids(items)
      BY <2>2 DEF Ids
    <3>2. x \in items
      BY <1>4, <3>1
    <3> QED
      BY <2>2, <3>2, ListedOnce
  <2>3. CASE x \notin items /\ y \notin items
    BY <1>1, <1>2, <2>3 DEF Asks
  <2> QED
    BY <2>1, <2>2, <2>3
<1>6. PICK found : found = {j \in DOMAIN m.remove : m.remove[j] \in Ids(all)}
  OBVIOUS
<1>7. \A j, l \in found : j = l
  <2>1. m.remove \in Seq(Id) /\ Len(m.remove) <= 1
    BY RequestFacts DEF Asks
  <2>2. found \subseteq 1 .. Len(m.remove) /\ Len(m.remove) \in Nat
    BY <1>6, <2>1, LenProperties
  <2> QED
    BY <2>1, <2>2
<1>8. \A j \in found : j \in Nat
  BY <1>6, RequestFacts, LenProperties
<1>9. /\ {j \in found : \A l \in found : j <= l} = found
      /\ {j \in found : \A v \in 1 .. j : \A l \in found \cap 1 .. (v - 1) :
                        v \in found /\ m.remove[l] < m.remove[v]} = found
  BY <1>7, <1>8
<1>10. /\ Left(m).items = {x \in all : \A j \in found : x.id # m.remove[j]}
       /\ Left(m).kept = Ids(all) \ {m.remove[j] : j \in found}
  BY <1>2, <1>6, <1>9 DEF Left, execute_pending_removes
<1>11. /\ Reply(m).items = Left(m).items /\ Reply(m).kept = Left(m).kept
       /\ \A i \in Left(m).kept : Reply(m).render[i] = TagOf(all, i)
  BY <1>2 DEF Reply
<1>12. Left(m).kept = Ids(Left(m).items)
  BY <1>10 DEF Ids
<1>13. ASSUME NEW x \in Left(m).items PROVE TagOf(all, x.id) = x.tag
  <2>1. x \in all
    BY <1>10
  <2>2. \A y \in all : y.id = x.id => y = x
    BY <1>5, <2>1
  <2>3. (CHOOSE y \in all : y.id = x.id) = x
    BY <2>1, <2>2
  <2> QED
    BY <2>3 DEF TagOf
<1>14. \A x \in Left(m).items : x \in all /\ x.id \in Left(m).kept
  BY <1>10, <1>12 DEF Ids
<1> QED
  BY <1>4, <1>11, <1>12, <1>13, <1>14

\* After the update the page shows what the response lists.
LEMMA UpdateLists ==
  ASSUME Inv, Listed, NEW m \in Response, Answers(m), update(m),
         \A i \in Id : controls[i] = dom[i]
  PROVE  Listed'
<1>0. /\ TypeOK /\ AllReadyIn(object, loaded) /\ m.kept \subseteq Id /\ m.items \subseteq Item
  BY ResponseFacts DEF Inv, AllReady
<1>1. items' = m.items /\ dom' = Shown(m) /\ SameShown(Grown(m), object')
  BY <1>0, UpdateIs, UpdateFacts
<1>2. ASSUME NEW i \in Id
      PROVE  /\ i \notin m.kept => Shown(m)[i] = 0
             /\ i \in m.kept => Shown(m)[i] # 0
             /\ i \in m.kept /\ dom[i] = 0 => object'[i][Shown(m)[i]].tag = m.render[i]
             /\ i \in m.kept /\ dom[i] # 0 =>
                  object'[i][Shown(m)[i]].tag = object[i][dom[i]].tag
  <2>1. controls[i] = dom[i] /\ dom[i] \in Nat /\ dom[i] <= Len(object[i])
    BY <1>0 DEF TypeOK
  <2>2. CASE i \notin m.kept
    <3>1. ~New(m, i) /\ Rest(m, i) = 0
      BY <2>1, <2>2 DEF New, Rest, Dropped
    <3> QED
      BY <1>0, <2>2, <3>1, GrownFacts
  <2>3. CASE i \in m.kept /\ dom[i] = 0
    <3>1. New(m, i)
      BY <2>3 DEF New, Rest
    <3>2. /\ Shown(m)[i] = Len(object[i]) + 1 /\ Len(object[i]) \in Nat
          /\ Len(Grown(m)[i]) = Len(object[i]) + 1
          /\ Grown(m)[i][Len(object[i]) + 1] = NewObject(i, m)
      BY <1>0, <3>1, GrownFacts
    <3>3. object'[i][Shown(m)[i]].tag = NewObject(i, m).tag
      BY <1>1, <3>2 DEF SameShown
    <3>4. NewObject(i, m).tag = m.render[i]
      BY DEF NewObject
    <3> QED
      BY <2>3, <3>2, <3>3, <3>4
  <2>4. CASE i \in m.kept /\ dom[i] # 0
    <3>1. ~New(m, i) /\ Rest(m, i) = dom[i]
      BY <2>4 DEF New, Rest, Dropped
    <3>2. Shown(m)[i] = dom[i] /\ Grown(m)[i] = object[i] /\ Len(object[i]) \in Nat
      BY <1>0, <3>1, GrownFacts
    <3>3. dom[i] \in 1 .. Len(object[i])
      BY <2>1, <2>4, <3>2
    <3>4. object'[i][dom[i]].tag = object[i][dom[i]].tag
      BY <1>1, <3>2, <3>3 DEF SameShown
    <3> QED
      BY <2>4, <3>2, <3>4
  <2> QED
    BY <2>2, <2>3, <2>4
<1>3. ASSUME NEW x \in m.items
      PROVE  dom'[x.id] # 0 /\ object'[x.id][dom'[x.id]].tag = x.tag
  <2>1. x.id \in m.kept /\ x.id \in Id /\ m.render[x.id] = x.tag
    BY <1>0 DEF Answers, Ids
  <2>2. CASE dom[x.id] = 0
    BY <1>1, <1>2, <2>1, <2>2
  <2>3. CASE dom[x.id] # 0
    <3>1. x \in items
      BY <2>1, <2>3 DEF Listed, Answers
    <3>2. object[x.id][dom[x.id]].tag = x.tag
      BY <3>1 DEF Listed
    <3> QED
      BY <1>1, <1>2, <2>1, <2>3, <3>2
  <2> QED
    BY <2>2, <2>3
<1>4. ASSUME NEW i \in Id, dom'[i] # 0 PROVE i \in Ids(m.items)
  BY <1>1, <1>2, <1>4 DEF Answers
<1> QED
  BY <1>1, <1>3, <1>4 DEF Listed, Ids

\* A handler that leaves what the controls are leaves the list right.
LEMMA ListedKept ==
  ASSUME TypeOK, Listed, UNCHANGED <<items, dom>>,
         \A i \in Id : \A u \in 1 .. Len(object[i]) : object'[i][u].tag = object[i][u].tag
  PROVE  Listed'
<1>1. ASSUME NEW x \in items PROVE object'[x.id][dom[x.id]].tag = x.tag
  <2>1. x.id \in Id
    BY DEF TypeOK, Item
  <2>2. object[x.id] \in Seq(Object)
    BY <2>1 DEF TypeOK
  <2>3. /\ dom[x.id] \in Nat /\ dom[x.id] <= Len(object[x.id]) /\ dom[x.id] # 0
        /\ object[x.id][dom[x.id]].tag = x.tag
    BY <2>1 DEF TypeOK, Listed
  <2>4. dom[x.id] \in 1 .. Len(object[x.id])
    BY <2>2, <2>3, LenProperties
  <2> QED
    BY <2>1, <2>3, <2>4
<1> QED
  BY <1>1 DEF Listed

LEMMA SettledStep == ASSUME Inv, Settled, [Next]_vars PROVE Settled'
<1>0. TypeOK /\ AllReady /\ AllReadyIn(object, loaded)
  BY DEF Inv, AllReady
<1>1. SUFFICES ASSUME ~disturbed, ~disturbed' PROVE Settled'
  <2>1. disturbed => disturbed'
    BY <1>0, NextCases
    DEF vars, trigger_callback, edit, execute, callback_lost, update, update_aborted,
        script_loaded, script_failed
  <2> QED
    BY <2>1 DEF Settled
<1>2. /\ \A i \in Id : controls[i] = dom[i]
      /\ Listed /\ \A m, k \in net : m = k
      /\ \A m \in net : /\ m.at = "request" => Asks(m)
                        /\ m.at = "response" => Answers(m)
  BY <1>1 DEF Settled
<1>3. CASE UNCHANGED vars
  BY <1>2, <1>3 DEF vars, clientVars, Settled, Listed, Asks, Answers
<1>4. ASSUME NEW add \in SUBSET Tag, NEW remove \in Seq(Id), trigger_callback(add, remove),
             \A t, u \in add : t = u
      PROVE  Settled'
  <2>1. PICK r : /\ net' = net \cup {r}
                 /\ r = [n |-> callbacks + 1, at |-> "request", add |-> add,
                         remove |-> remove, items |-> items, full |-> full]
    BY <1>4 DEF trigger_callback
  <2>2. net = {} /\ ~(Len(remove) > 1) /\ UNCHANGED clientVars
    BY <1>1, <1>4 DEF trigger_callback
  <2>3. Len(remove) <= 1
    BY <2>2, LenProperties
  <2>4. r.at = "request" /\ r.items = items /\ r.remove = remove /\ r.add = add
    BY <2>1
  <2>5. Asks(r)'
    BY <1>4, <2>2, <2>3, <2>4 DEF Asks, clientVars
  <2>6. net' = {r}
    BY <2>1, <2>2
  <2>7. Listed' /\ \A i \in Id : controls'[i] = dom'[i]
    BY <1>2, <2>2 DEF clientVars, Listed
  <2> QED
    BY <2>4, <2>5, <2>6, <2>7 DEF Settled
<1>5. ASSUME NEW i \in Id, edit(i) PROVE Settled'
  <2>1. UNCHANGED <<items, dom, controls, net>>
    BY <1>5 DEF edit
  <2>2. Listed'
    BY <1>0, <1>2, <1>5, <2>1, EditFacts, ListedKept
  <2> QED
    BY <1>2, <2>1, <2>2 DEF Settled, Asks, Answers
<1>6. ASSUME NEW m \in net, m \in Request, execute(m) PROVE Settled'
  <2>1. /\ net' = (net \ {m}) \cup {Reply(m)} /\ UNCHANGED clientVars
        /\ m.at = "request" /\ (m.add # {} => MaxId \notin Ids(m.items))
    BY <1>6, ExecuteIs
  <2>2. PICK r : r = Reply(m)
    OBVIOUS
  <2>3. net' = {r} /\ r.at = "response"
    BY <1>2, <2>1, <2>2 DEF Reply
  <2>4. /\ r.kept = Ids(r.items)
        /\ \A x \in r.items : r.render[x.id] = x.tag /\ (x.id \in Ids(items) => x \in items)
    BY <1>0, <1>2, <1>6, <2>1, <2>2, AnswerFacts
  <2>5. Answers(r)'
    BY <2>1, <2>4 DEF Answers, clientVars
  <2>6. Listed' /\ \A i \in Id : controls'[i] = dom'[i]
    BY <1>2, <2>1 DEF clientVars, Listed
  <2> QED
    BY <2>3, <2>5, <2>6 DEF Settled
<1>7. ASSUME NEW m \in net, callback_lost(m) PROVE Settled'
  <2>1. net' \subseteq net /\ UNCHANGED clientVars
    BY <1>7 DEF callback_lost
  <2> QED
    BY <1>2, <2>1 DEF Settled, clientVars, Listed, Asks, Answers
<1>8. ASSUME NEW m \in net, m \in Response, update(m) PROVE Settled'
  <2>1. m.at = "response" /\ m.kept \subseteq Id
    BY <1>8, ResponseFacts
  <2>2. net' = {} /\ dom' = controls'
    BY <1>2, <1>8, <2>1, UpdateIs
  <2>3. Listed'
    BY <1>2, <1>8, <2>1, UpdateLists
  <2> QED
    BY <2>2, <2>3 DEF Settled
<1>9. ASSUME NEW m \in net, update_aborted(m) PROVE Settled'
  BY <1>1, <1>9 DEF update_aborted
<1>10. ASSUME NEW s \in Script, script_loaded(s) \/ script_failed(s) PROVE Settled'
  <2>1. UNCHANGED <<items, dom, controls, net>>
    BY <1>10 DEF script_loaded, script_failed
  <2>2. Listed'
    <3>1. CASE script_loaded(s)
      <4>1. SameShown(object, object')
        BY <1>0, <3>1, LoadedFacts
      <4> QED
        BY <1>0, <1>2, <2>1, <4>1, ListedKept DEF SameShown
    <3>2. CASE script_failed(s)
      BY <1>2, <2>1, <3>2 DEF script_failed, Listed
    <3> QED
      BY <1>10, <3>1, <3>2
  <2> QED
    BY <1>2, <2>1, <2>2 DEF Settled, Asks, Answers
<1> QED
  BY <1>0, <1>3, <1>4, <1>5, <1>6, <1>7, <1>8, <1>9, <1>10, NextCases

\* While callbacks do not overlap, each removes one item at most and no update
\* is aborted, the page shows the items the server knows, each made from its
\* tag.
THEOREM ShowsTheItems == Spec => []ItemsShown
<1>1. Init => Settled
  BY DEF Init, Settled, Listed
<1>2. Inv /\ Settled /\ [Next]_vars => Settled'
  BY SettledStep
<1>3. Inv /\ Settled => ItemsShown
  BY ListedIsShown DEF Inv, Settled, ItemsShown
<1> QED
  BY <1>1, <1>2, <1>3, Invariant, PTL DEF Spec
================================================================================

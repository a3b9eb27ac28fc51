------------------------------ MODULE WidgetPage -------------------------------
(***************************************************************************)
(* A page of the widget library: a WSF_DYNAMIC_MULTI_CONTROL in the        *)
(* browser (widget.js) and the Eiffel class of the same name on the server.*)
(*                                                                         *)
(* The server keeps nothing between two callbacks: each AJAX request       *)
(* carries the state of the page, and each response the changes.  Requests *)
(* overlap, responses come in any order or not at all.  The controls of    *)
(* the items need scripts, which lazy_load fetches when they are first     *)
(* needed; a script comes, or fails, or times out.  The browser runs one   *)
(* event handler at a time, so each action is one handler.                 *)
(*                                                                         *)
(* The state of an item's control is its tag and whether the user's edits  *)
(* are in its text.  An element and the control object that build_control  *)
(* puts on it have one number: the how manieth that was appended under its *)
(* id.  The items are a set, always in the order of their ids.             *)
(***************************************************************************)
EXTENDS Integers, Sequences, FiniteSetsExt, Functions

CONSTANTS
  Tag,           \* what items are made from
  Stages,        \* tag -> the sets of scripts its control loads, in turn
  Codeview,      \* tags whose control is a WSF_CODEVIEW_CONTROL
  MaxId,         \* bound: item ids
  MaxElement,    \* bound: elements appended under one id
  MaxCallback    \* bound: callbacks sent

Script == UNION {UNION Range(Stages[t]) : t \in Tag}
Id == 1 .. MaxId

ASSUME WidgetAssumption ==
  /\ "none" \notin Tag
  /\ DOMAIN Stages = Tag /\ \A t \in Tag : Stages[t] \in Seq(SUBSET Script)
  /\ Codeview \subseteq Tag
  /\ \A t \in Codeview : Stages[t] # <<>>
  /\ MaxId \in Nat \ {0} /\ MaxElement \in Nat /\ MaxCallback \in Nat

VARIABLES
  items,      \* state['items']: the ids and tags
  full,       \* fullstate.controls: id -> state of a control, or None
  dom,        \* id -> the element shown, or 0
  controls,   \* id -> this.controls, by element, 0 for null
  object,     \* id -> the control objects, by element
  loaded,     \* script -> "none", "loading", "loaded" or "failed"
  net,        \* the callbacks under way, as requests or as responses
  callbacks,  \* callbacks sent so far
  disturbed   \* history: callbacks overlapped, several items were removed
              \* at once, or an update was aborted

clientVars == <<items, full, dom, controls, object, loaded>>
vars == <<clientVars, net, callbacks, disturbed>>

None == [tag |-> "none", edited |-> FALSE]
State == [tag: Tag, edited: BOOLEAN]
Fresh(t) == [tag |-> t, edited |-> FALSE]
Item == [id: Id, tag: Tag]

Init ==
  /\ items = {}
  /\ full = [i \in Id |-> None]
  /\ dom = [i \in Id |-> 0] /\ controls = [i \in Id |-> 0]
  /\ object = [i \in Id |-> <<>>]
  /\ loaded = [s \in Script |-> "none"]
  /\ net = {} /\ callbacks = 0
  /\ disturbed = FALSE

--------------------------------------------------------------------------------
(* lazy_load and once                                                      *)

\* The scripts a control still waits for: those of the first stage that is not
\* loaded, or none.
Waits(t, ld) ==
  LET open == {k \in DOMAIN Stages[t] : \E s \in Stages[t][k] : ld[s] # "loaded"}
  IN  IF open = {} THEN {} ELSE Stages[t][Min(open)]

\* lazy_load asks cachedAsset for what nobody asked for yet.  What failed
\* stays in `loaded' and is not asked for again.
Ask(objs, ld) ==
  LET waiting == {o \in UNION {Range(objs[i]) : i \in Id} : o.pending > 0}
      wanted == UNION {Waits(o.tag, ld) : o \in waiting}
  IN  [s \in Script |-> IF s \in wanted /\ ld[s] = "none" THEN "loading" ELSE ld[s]]

\* The pending calls of initialize that wait for nothing call attach_events.
Attach(objs, ld) ==
  LET Run(o) == IF Waits(o.tag, ld) = {}
                THEN [o EXCEPT !.attached = @ + o.pending, !.pending = 0]
                ELSE o
  IN  [i \in Id |-> [u \in DOMAIN objs[i] |-> Run(objs[i][u])]]

\* Fault: initialize is not wrapped in once.
Initialize_always(o) == [o EXCEPT !.executed = TRUE, !.pending = @ + 1]

\* initialize: wrapped in once, which WSF_CODEVIEW_CONTROL replaces.
Initialize(o) ==
  IF o.executed /\ o.tag \notin Codeview THEN o
  ELSE [o EXCEPT !.executed = TRUE, !.pending = @ + 1]

\* Fault: onload does not call the callbacks.
script_loaded_silent(s) ==
  /\ loaded[s] = "loading"
  /\ loaded' = [loaded EXCEPT ![s] = "loaded"]
  /\ UNCHANGED <<items, full, dom, controls, object, net, callbacks, disturbed>>

\* The script has run: onload calls the callbacks that wait for it.
script_loaded(s) ==
  /\ loaded[s] = "loading"
  /\ LET ld == [loaded EXCEPT ![s] = "loaded"] IN
       /\ loaded' = Ask(object, ld)
       /\ object' = Attach(object, ld)
  /\ UNCHANGED <<items, full, dom, controls, net, callbacks, disturbed>>

\* onerror, or 7500 ms without an answer; a script that comes later is ignored.
script_failed(s) ==
  /\ loaded[s] = "loading"
  /\ loaded' = [loaded EXCEPT ![s] = "failed"]
  /\ UNCHANGED <<items, full, dom, controls, object, net, callbacks, disturbed>>

--------------------------------------------------------------------------------
(* The callback                                                            *)

\* An event handler of the page posts the state; the server will add an item
\* made from a tag, or remove items.
trigger_callback(add, remove) ==
  /\ callbacks < MaxCallback
  /\ callbacks' = callbacks + 1
  /\ net' = net \cup {[n |-> callbacks + 1, at |-> "request", add |-> add,
                       remove |-> remove, items |-> items, full |-> full]}
  /\ disturbed' = (disturbed \/ net # {} \/ Len(remove) > 1)
  /\ UNCHANGED clientVars

click_add(t) == trigger_callback({t}, <<>>)

click_remove(ids) ==
  /\ \A i \in Range(ids) : dom[i] # 0
  /\ trigger_callback({}, ids)

Ids(S) == {x.id : x \in S}
TagOf(S, i) == (CHOOSE x \in S : x.id = i).tag

\* add_control_from_tag: the id after the largest of the items there are.
add_control_from_tag(m) ==
  m.items \cup {[id |-> Max(Ids(m.items) \cup {0}) + 1, tag |-> t] : t \in m.add}

\* execute_pending_removes.  `found' is still true from the first id when the
\* second is looked for among the controls, so only the first id that was an
\* item loses its control.  `prune' removes an item from where the one before
\* it was removed on: once an id lies before that, or is no item, no more are
\* removed.
execute_pending_removes(all, ids) ==
  LET found == {k \in DOMAIN ids : ids[k] \in Ids(all)}
      first == {k \in found : \A j \in found : k <= j}
      pruned == {k \in found : \A j \in 1 .. k : \A l \in found \cap 1 .. (j - 1) :
                                 j \in found /\ ids[l] < ids[j]}
  IN  [items |-> {x \in all : \A k \in pruned : x.id # ids[k]},
       kept |-> Ids(all) \ {ids[k] : k \in first}]

\* WSF_PAGE_CONTROL.execute: set_state restores the controls of the items and
\* loads their states, handle_callback runs the event, read_state_changes
\* answers with the items and the state and class of every control.
execute(m) ==
  /\ m.at = "request"
  /\ m.add # {} => MaxId \notin Ids(m.items)
  /\ LET all == add_control_from_tag(m)
         left == execute_pending_removes(all, m.remove)
         StateOf(i) == IF i \in Ids(m.items) /\ m.full[i] # None
                       THEN m.full[i] ELSE Fresh(TagOf(all, i))
     IN  net' = (net \ {m}) \cup
                {[n |-> m.n, at |-> "response", items |-> left.items, kept |-> left.kept,
                  newstate |-> [i \in left.kept |-> StateOf(i)],
                  render |-> [i \in left.kept |-> TagOf(all, i)]]}
  /\ UNCHANGED <<clientVars, callbacks, disturbed>>

\* $.ajax fails: nobody is told.
callback_lost(m) ==
  /\ net' = net \ {m}
  /\ UNCHANGED <<clientVars, callbacks, disturbed>>

--------------------------------------------------------------------------------
(* update of WSF_DYNAMIC_MULTI_CONTROL                                     *)

\* Fault: controls that left the new state stay.
Dropped_none(m) == {}

\* The controls to remove, and the first whose remove raises: a codeview whose
\* editor is not there yet.
Dropped(m) == {i \in Id : controls[i] # 0 /\ i \notin m.kept}
Raises(i) ==
  LET o == object[i][controls[i]] IN o.tag \in Codeview /\ o.attached = 0
Removed(m) ==
  {i \in Dropped(m) : \A j \in Dropped(m) : j <= i => ~Raises(j)}

NewObject(i, m) ==
  [tag |-> m.render[i], shown |-> m.newstate[i], executed |-> FALSE,
   pending |-> 0, attached |-> 0, heard |-> FALSE]

\* remove raises: process_update logs the exception, and the rest of the update
\* is not done.
update_aborted(m) ==
  /\ m.at = "response"
  /\ \E i \in Dropped(m) : Raises(i)
  /\ items' = m.items
  /\ dom' = [i \in Id |-> IF i \in Removed(m) /\ dom[i] = controls[i] THEN 0 ELSE dom[i]]
  /\ net' = net \ {m}
  /\ disturbed' = TRUE
  /\ UNCHANGED <<full, controls, object, loaded, callbacks>>

\* Fault: the states of the response replace those of the page.
states_kept_newer(m) ==
  [i \in Id |-> IF i \in m.kept THEN m.newstate[i] ELSE full[i]]

\* The states of the response are kept for the ids that have none.
states_kept(m) ==
  [i \in Id |-> IF i \in m.kept /\ full[i] = None THEN m.newstate[i] ELSE full[i]]

\* The controls that are not in the new state are removed, elements appended
\* for the ids that show none, states kept for the ids that have none, the
\* controls built again (build_control finds the ones there are on their
\* elements), and all of them initialized.
update(m) ==
  /\ m.at = "response"
  /\ \A i \in Dropped(m) : ~Raises(i)
  /\ LET rest == [i \in Id |-> IF i \in Dropped(m) /\ dom[i] = controls[i] THEN 0 ELSE dom[i]]
         new == {i \in m.kept : rest[i] = 0}
         objs == [i \in Id |-> IF i \in new THEN Append(object[i], NewObject(i, m))
                               ELSE object[i]]
         shown == [i \in Id |-> IF i \in new THEN Len(objs[i]) ELSE rest[i]]
         begun == [i \in Id |-> [u \in DOMAIN objs[i] |->
                     IF u = shown[i] THEN Initialize(objs[i][u]) ELSE objs[i][u]]]
     IN  /\ \A i \in Id : Len(objs[i]) <= MaxElement
         /\ items' = m.items
         /\ full' = states_kept(m)
         /\ dom' = shown /\ controls' = shown
         /\ loaded' = Ask(begun, loaded)
         /\ object' = Attach(begun, loaded)
  /\ net' = net \ {m}
  /\ UNCHANGED <<callbacks, disturbed>>

\* Does a change of the element reach the change handler?  An element takes
\* input as soon as it is appended, the handler is there once attach_events has
\* run, and CodeMirror keeps the edits of a codeview to itself.
Hears(o) == o.attached > 0 /\ o.tag \notin Codeview

\* The user edits the element of an item.  The change handler copies the text
\* of the element to the state, with what was edited before it was there.
edit(i) ==
  /\ dom[i] # 0
  /\ LET o == object[i][dom[i]] IN
       /\ object' = [object EXCEPT ![i][dom[i]] =
                       [o EXCEPT !.shown.edited = TRUE, !.heard = @ \/ Hears(o)]]
       /\ full' = [full EXCEPT ![i].edited = @ \/ Hears(o)]
  /\ UNCHANGED <<items, dom, controls, loaded, net, callbacks, disturbed>>

Next ==
  \/ \E t \in Tag : click_add(t)
  \/ \E i \in Id : click_remove(<<i>>) \/ edit(i)
  \/ \E i, j \in Id : i # j /\ click_remove(<<i, j>>)
  \/ \E m \in net : execute(m) \/ callback_lost(m) \/ update(m) \/ update_aborted(m)
  \/ \E s \in Script : script_loaded(s) \/ script_failed(s)

Spec == Init /\ [][Next]_vars

\* The timer of cachedAsset ends every wait for a script.
FairSpec == Spec /\ \A s \in Script : WF_vars(script_loaded(s) \/ script_failed(s))

--------------------------------------------------------------------------------
(* Properties                                                              *)

Object == [tag: Tag, shown: State, executed: BOOLEAN, pending: Nat, attached: Nat,
           heard: BOOLEAN]
Request == [n: 1 .. MaxCallback, at: {"request"}, add: SUBSET Tag, remove: Seq(Id),
            items: SUBSET Item, full: [Id -> State \cup {None}]]
Response ==
  UNION {[n: 1 .. MaxCallback, at: {"response"}, items: SUBSET Item, kept: {k},
          newstate: [k -> State], render: [k -> Tag]] : k \in SUBSET Id}

TypeOK ==
  /\ items \subseteq Item
  /\ full \in [Id -> State \cup {None}]
  /\ object \in [Id -> Seq(Object)]
  /\ dom \in [Id -> Nat] /\ controls \in [Id -> Nat]
  /\ \A i \in Id : dom[i] <= Len(object[i]) /\ controls[i] <= Len(object[i])
  /\ loaded \in [Script -> {"none", "loading", "loaded", "failed"}]
  /\ net \subseteq Request \cup Response /\ callbacks \in 0 .. MaxCallback
  /\ disturbed \in BOOLEAN

\* While callbacks do not overlap, each removes one item at most and no update
\* is aborted, the page shows the items the server knows, each made from its
\* tag, even if responses are lost.
ItemsShown ==
  ~disturbed =>
    {[id |-> i, tag |-> object[i][dom[i]].tag] : i \in {j \in Id : dom[j] # 0}} = items

\* Whatever overlaps and however late an answer comes, a change that the change
\* handler of a shown element heard is in the state the page sends back, under
\* a reused id too.  For an id that was used once, that state is what the
\* element shows, short only of edits that no handler heard: those made before
\* attach_events, unless a change was heard since, and those of a codeview.
HeardIsSent ==
  \A i \in {j \in Id : dom[j] # 0} :
    LET o == object[i][dom[i]] IN
      /\ o.heard => full[i].edited
      /\ Len(object[i]) = 1 => full[i] = [o.shown EXCEPT !.edited = o.heard]

\* Events are attached only when all scripts of the control are loaded, stage
\* by stage, and once, although every update initializes all controls again
\* and scripts come in any order; WSF_CODEVIEW_CONTROL may attach again.
AttachedOnceReady ==
  \A o \in UNION {Range(object[i]) : i \in Id} :
    /\ o.attached > 0 => \A s \in UNION Range(Stages[o.tag]) : loaded[s] = "loaded"
    /\ o.tag \notin Codeview => o.attached <= 1

\* Every control that is shown gets its events, unless one of its scripts
\* failed: the loader never retries.
EventuallyAttached ==
  \A i \in Id :
    (dom[i] # 0) ~> \/ dom[i] = 0
                    \/ dom[i] # 0 /\ object[i][dom[i]].attached > 0
                    \/ /\ dom[i] # 0
                       /\ \E s \in UNION Range(Stages[object[i][dom[i]].tag]) :
                            loaded[s] = "failed"

\* The invariant all_items_exist of WSF_DYNAMIC_MULTI_CONTROL on the server,
\* when it answers: as many items as controls.
all_items_exist ==
  \A m \in net : m.at = "response" => Cardinality(m.items) = Cardinality(m.kept)
================================================================================

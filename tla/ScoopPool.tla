------------------------------- MODULE ScoopPool -------------------------------
(***************************************************************************)
(* The pool of request handlers of the standalone server in `scoop'        *)
(* concurrency mode: CONCURRENT_POOL, CONCURRENT_POOL_ITEM and the SCOOP   *)
(* versions of HTTPD_CONNECTION_HANDLER and HTTPD_REQUEST_HANDLER.         *)
(*                                                                         *)
(* The pool, the connection handler (with the server) and every request    *)
(* handler are on SCOOP processors of their own.  A routine with a         *)
(* separate argument holds that argument's processor while it runs, and a  *)
(* precondition on a separate argument is a wait condition.  So the pool   *)
(* has a lock, and accept_connection_on_pool keeps it across the blocking  *)
(* accept.                                                                 *)
(***************************************************************************)
EXTENDS Integers, FiniteSets

CONSTANTS
  Capacity,        \* max_concurrent_connections, at least 1
  NoItem,          \* Void
  AcceptMayFail    \* accept_to may return without a connected socket

ASSUME ScoopAssumption ==
  /\ Capacity \in Nat \ {0}
  /\ NoItem \notin Nat
  /\ AcceptMayFail \in BOOLEAN

Slot == 0..(Capacity - 1)

\* Request handlers, numbered in the order in which the factory made them.
Handler == 1..Capacity

VARIABLES
  items,            \* items
  busy_items,       \* busy_items
  count,            \* count
  stop_requested,   \* stop_requested
  made,             \* handlers made by the factory
  current,          \* the handler that accept_connection_on_pool waits with
  lock,             \* who holds the pool: "free"; "accept", in accept_to;
                    \* "connect", in the wait condition of process_handler
  hpc,              \* what each handler does: "idle", "execute", "release"
  completed         \* wait_for_pool_completion returned

scoopVars == <<items, busy_items, count, stop_requested, made, current, lock,
               hpc, completed>>

is_full == count >= Capacity
\* Fault: one handler may still be at work.
is_empty_but_one == count <= 1

is_empty == count = 0

\* make and set_count, called by initialize.
Init ==
  /\ items = [i \in Slot |-> NoItem]
  /\ busy_items = [i \in Slot |-> FALSE]
  /\ count = 0
  /\ stop_requested = FALSE
  /\ made = 0
  /\ current = NoItem
  /\ lock = "free"
  /\ hpc = [h \in Handler |-> "idle"]
  /\ completed = FALSE

-----------------------------------------------------------------------------
(* The connection handler.                                                 *)

\* The scan of busy_items stops at the first slot that is not busy.
FirstFree(pos) ==
  /\ ~busy_items[pos]
  /\ \A i \in 0..(pos - 1) : busy_items[i]

\* Fault: the new handler is not registered.
separate_item_unregistered(pos) ==
  /\ FirstFree(pos)
  /\ made' = IF items[pos] = NoItem THEN made + 1 ELSE made
  /\ current' = IF items[pos] = NoItem THEN made' ELSE items[pos]
  /\ count' = count + 1
  /\ busy_items' = [busy_items EXCEPT ![pos] = TRUE]
  /\ UNCHANGED items

\* separate_item: the handler of that slot, or a new one.
separate_item(pos) ==
  /\ FirstFree(pos)
  /\ IF items[pos] = NoItem
     THEN /\ made' = made + 1
          /\ current' = made'
          /\ items' = [items EXCEPT ![pos] = made']
     ELSE /\ current' = items[pos]
          /\ UNCHANGED <<made, items>>
  /\ count' = count + 1
  /\ busy_items' = [busy_items EXCEPT ![pos] = TRUE]

\* accept_connection_on_pool, up to accept_to.  The wait condition also lets
\* the call pass when the pool is being stopped; it then changes nothing.
accept_connection_on_pool ==
  /\ lock = "free"
  /\ ~is_full
  /\ ~stop_requested
  /\ ~completed
  /\ \E pos \in Slot : separate_item(pos)
  /\ lock' = "accept"
  /\ UNCHANGED <<stop_requested, hpc, completed>>

\* accept_to returns and process_handler starts safe_execute on the handler.
process_handler ==
  /\ lock = "accept"
  /\ hpc' = [hpc EXCEPT ![current] = "execute"]
  /\ current' = NoItem
  /\ lock' = "free"
  /\ UNCHANGED <<items, busy_items, count, stop_requested, made, completed>>

\* accept_to returns and the handler is not connected: process_handler waits
\* for is_connected.
accept_fails ==
  /\ AcceptMayFail
  /\ lock = "accept"
  /\ lock' = "connect"
  /\ UNCHANGED <<items, busy_items, count, stop_requested, made, current, hpc,
                 completed>>

\* shutdown, pool_gracefull_stop and gracefull_stop.
gracefull_stop ==
  /\ lock = "free"
  /\ stop_requested' = TRUE
  /\ UNCHANGED <<items, busy_items, count, made, current, lock, hpc, completed>>

\* wait_for_pool_completion and terminate.
wait_for_pool_completion ==
  /\ lock = "free"
  /\ is_empty
  /\ items' = [i \in Slot |-> NoItem]
  /\ completed' = TRUE
  /\ UNCHANGED <<busy_items, count, stop_requested, made, current, lock, hpc>>

-----------------------------------------------------------------------------
(* The request handlers.                                                   *)

\* safe_execute: execute ended, normally or by an exception, and release has
\* reset the handler.
safe_execute(h) ==
  /\ hpc[h] = "execute"
  /\ hpc' = [hpc EXCEPT ![h] = "release"]
  /\ UNCHANGED <<items, busy_items, count, stop_requested, made, current, lock,
                 completed>>

\* Fault: the count is not decremented.
release_item_keeps_count(h) ==
  /\ hpc[h] = "release"
  /\ lock = "free"
  /\ count > 0
  /\ \E pos \in Slot :
       /\ items[pos] = h
       /\ busy_items' = [busy_items EXCEPT ![pos] = FALSE]
  /\ hpc' = [hpc EXCEPT ![h] = "idle"]
  /\ UNCHANGED <<items, count, stop_requested, made, current, lock, completed>>

\* Fault: the first busy slot is freed.
release_item_first(h) ==
  /\ hpc[h] = "release"
  /\ lock = "free"
  /\ count > 0
  /\ \E pos \in Slot :
       /\ busy_items[pos] /\ \A i \in 0..(pos - 1) : ~busy_items[i]
       /\ busy_items' = [busy_items EXCEPT ![pos] = FALSE]
  /\ count' = count - 1
  /\ hpc' = [hpc EXCEPT ![h] = "idle"]
  /\ UNCHANGED <<items, stop_requested, made, current, lock, completed>>

\* Fault: a pool that is being stopped takes no handler back.
release_item_unless_stopped(h) ==
  /\ hpc[h] = "release"
  /\ lock = "free" /\ ~stop_requested
  /\ count > 0
  /\ \E pos \in Slot :
       /\ items[pos] = h
       /\ busy_items' = [busy_items EXCEPT ![pos] = FALSE]
  /\ count' = count - 1
  /\ hpc' = [hpc EXCEPT ![h] = "idle"]
  /\ UNCHANGED <<items, stop_requested, made, current, lock, completed>>

\* release_pool_item, pool_release and release_item.
release_item(h) ==
  /\ hpc[h] = "release"
  /\ lock = "free"
  /\ count > 0
  /\ \E pos \in Slot :
       /\ items[pos] = h
       /\ busy_items' = [busy_items EXCEPT ![pos] = FALSE]
  /\ count' = count - 1
  /\ hpc' = [hpc EXCEPT ![h] = "idle"]
  /\ UNCHANGED <<items, stop_requested, made, current, lock, completed>>

-----------------------------------------------------------------------------

HandlerStep(h) == safe_execute(h) \/ release_item(h)

Next ==
  \/ accept_connection_on_pool
  \/ process_handler
  \/ accept_fails
  \/ gracefull_stop
  \/ wait_for_pool_completion
  \/ \E h \in Handler : HandlerStep(h)

Spec == Init /\ [][Next]_scoopVars

-----------------------------------------------------------------------------
(* Properties.                                                             *)

TypeOK ==
  /\ items \in [Slot -> Handler \union {NoItem}]
  /\ busy_items \in [Slot -> BOOLEAN]
  /\ count \in 0..Capacity
  /\ stop_requested \in BOOLEAN
  /\ made \in 0..Capacity
  /\ current \in Handler \union {NoItem}
  /\ lock \in {"free", "accept", "connect"}
  /\ hpc \in [Handler -> {"idle", "execute", "release"}]
  /\ completed \in BOOLEAN

\* A handler that serves a connection, or is about to be given one.
Serving(h) == h = current \/ hpc[h] # "idle"

\* `count' is the number of busy slots, so that a pool that is not full has a
\* free slot (the check `overcapacity' cannot fail) and is_empty is exact.
CountExact == count = Cardinality({i \in Slot : busy_items[i]})

\* A slot is busy exactly while its handler serves: no slot leaks and none is
\* given away while its handler is at work.
BusyExact ==
  \A i \in Slot : busy_items[i] <=> items[i] # NoItem /\ Serving(items[i])

\* Every handler at work is known to the pool, in one slot only: the search in
\* release_item finds it (the check `known_item' cannot fail) and frees the
\* slot that separate_item took.
KnownItem ==
  /\ \A h \in Handler : Serving(h) => \E i \in Slot : items[i] = h
  /\ \A i, j \in Slot : items[i] = items[j] /\ items[i] # NoItem => i = j

\* The handler that waits for a connection is not still at work on another
\* one.
FreshForAccept == current # NoItem => hpc[current] = "idle"

\* When wait_for_pool_completion has returned, no handler serves.
CompletedIsQuiet == completed => \A h \in Handler : ~Serving(h)

\* The handler in hand and the lock go together.
LockCurrent == lock = "free" <=> current = NoItem

\* The handlers made so far are the ones in the slots: a free slot without a
\* handler is never beyond the capacity.
MadeExact ==
  /\ \A i \in Slot : items[i] # NoItem => items[i] <= made
  /\ ~completed => made = Cardinality({i \in Slot : items[i] # NoItem})

\* The inductive invariant behind the properties above.
IndInv ==
  /\ TypeOK
  /\ LockCurrent
  /\ MadeExact
  /\ CountExact
  /\ BusyExact
  /\ KnownItem
  /\ FreshForAccept
  /\ CompletedIsQuiet
=============================================================================

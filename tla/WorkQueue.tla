------------------------------- MODULE WorkQueue -------------------------------
(***************************************************************************)
(* What a pool of workers promises to its owner: work is started in the    *)
(* order in which it was submitted, each item once, one item at a time on  *)
(* a worker; closing the pool stops submissions, and the pool is closed    *)
(* only when every worker is idle.  Work that is pending when the pool is  *)
(* closed may stay pending.                                                *)
(***************************************************************************)
EXTENDS Sequences

CONSTANTS Work, Runner, NoWork

VARIABLES
  pending,   \* submitted, not started: a queue
  running,   \* what each worker runs
  done,      \* the set of the items that were run
  phase      \* "open", "closing" or "closed"

queueVars == <<pending, running, done, phase>>

Init ==
  /\ pending = <<>>
  /\ running = [k \in Runner |-> NoWork]
  /\ done = {}
  /\ phase = "open"

Submit(w) ==
  /\ phase = "open"
  /\ pending' = Append(pending, w)
  /\ UNCHANGED <<running, done, phase>>

Start(k) ==
  /\ phase # "closed"
  /\ pending # <<>>
  /\ running[k] = NoWork
  /\ Head(pending) \notin done
  /\ \A j \in Runner : running[j] # Head(pending)
  /\ running' = [running EXCEPT ![k] = Head(pending)]
  /\ pending' = Tail(pending)
  /\ UNCHANGED <<done, phase>>

Finish(k) ==
  /\ running[k] # NoWork
  /\ running' = [running EXCEPT ![k] = NoWork]
  /\ done' = done \union {running[k]}
  /\ UNCHANGED <<pending, phase>>

Close ==
  /\ phase = "open"
  /\ phase' = "closing"
  /\ UNCHANGED <<pending, running, done>>

Closed ==
  /\ phase = "closing"
  /\ \A k \in Runner : running[k] = NoWork
  /\ phase' = "closed"
  /\ UNCHANGED <<pending, running, done>>

Next ==
  \/ \E w \in Work : Submit(w)
  \/ \E k \in Runner : Start(k) \/ Finish(k)
  \/ Close
  \/ Closed

Spec == Init /\ [][Next]_queueVars
=============================================================================

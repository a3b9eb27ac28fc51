------------------------------ MODULE ThreadPool ------------------------------
(***************************************************************************)
(* The pool of worker threads of the standalone server in its `thread'     *)
(* concurrency mode: THREAD_POOL and POOLED_THREAD                         *)
(* (library/server/httpd/concurrency/thread/pool).                         *)
(*                                                                         *)
(* The owner of the pool (the listening thread of the server) calls        *)
(* add_work, terminate and wait_for_completion.  Every pooled thread runs  *)
(* POOLED_THREAD.execute.  A critical section under one of the pool's      *)
(* three mutexes is one step; what lies between two critical sections,     *)
(* the waits on the semaphore included, interleaves freely.                *)
(***************************************************************************)
EXTENDS Integers, Sequences, FiniteSets, Functions

CONSTANTS
  Thread,     \* the threads launched by initialize_threads; `capacity' many
  Work,       \* the agents that may be handed to add_work, each at most once
  NoWork,     \* Void
  SemLimit    \* bound: posts accumulated by the polling loop of terminate

ASSUME PoolAssumption ==
  /\ IsFiniteSet(Thread)
  /\ Thread # {}
  /\ NoWork \notin Work
  /\ SemLimit \in Nat \ {0}

VARIABLES
  queue,       \* work_queue
  sem,         \* value of work_semaphore
  over,        \* is_over
  live,        \* terminated_count: counts down from capacity to 0
  pc,          \* where each pooled thread is in POOLED_THREAD.execute
  procedure,   \* thread_procedure of each pooled thread
  owner,       \* what the owner of the pool is doing
  added,       \* history: work handed to add_work
  finished     \* history: work whose call returned

workerVars == <<pc, procedure, finished>>
poolVars == <<queue, sem, over, live, pc, procedure, owner, added, finished>>

Capacity == Cardinality(Thread)

\* Positions in POOLED_THREAD.execute.
\*   wait        at semaphore.wait
\*   get1_*      in the get_work that follows semaphore.wait
\*   loop        at the top of the loop body: calls thread_procedure, if any
\*   check       at `if thread_pool.over'
\*   get2_*      in the get_work that follows the check
\*   exit        at thread_terminated
\*   dead        returned
\* get*_over reads `over', get*_queue is the section under work_queue_mutex.
Position == {"wait", "get1_over", "get1_queue", "loop", "check",
             "get2_over", "get2_queue", "exit", "dead"}

Goto(t, p) == pc' = [pc EXCEPT ![t] = p]

Init ==
  /\ queue = <<>>
  /\ sem = 0
  /\ over = FALSE
  /\ live = Capacity
  /\ pc = [t \in Thread |-> "wait"]
  /\ procedure = [t \in Thread |-> NoWork]
  /\ owner = "ready"
  /\ added = {}
  /\ finished = {}

-----------------------------------------------------------------------------
(* The owner of the pool.                                                  *)

\* Fault: the post is skipped one item too early.
add_work_short(w) ==
  /\ owner = "ready"
  /\ w \notin added
  /\ queue' = Append(queue, w)
  /\ sem' = IF Len(queue') < Capacity THEN sem + 1 ELSE sem
  /\ added' = added \union {w}
  /\ UNCHANGED <<over, live, owner, workerVars>>

\* add_work: extend the queue; post unless more than `capacity' items wait.
add_work(w) ==
  /\ owner = "ready"
  /\ w \notin added
  /\ queue' = Append(queue, w)
  /\ sem' = IF Len(queue') <= Capacity THEN sem + 1 ELSE sem
  /\ added' = added \union {w}
  /\ UNCHANGED <<over, live, owner, workerVars>>

\* terminate: set is_over, then post the semaphore until terminated_count is 0.
terminate_set_over ==
  /\ owner = "ready"
  /\ over' = TRUE
  /\ owner' = "terminating"
  /\ UNCHANGED <<queue, sem, live, added, workerVars>>

terminate_post ==
  /\ owner = "terminating"
  /\ live # 0
  /\ sem < SemLimit
  /\ sem' = sem + 1
  /\ UNCHANGED <<queue, over, live, owner, added, workerVars>>

\* Fault: one thread too few is waited for.
terminate_return_early ==
  /\ owner = "terminating"
  /\ live <= 1
  /\ owner' = "terminated"
  /\ UNCHANGED <<queue, sem, over, live, added, workerVars>>

terminate_return ==
  /\ owner = "terminating"
  /\ live = 0
  /\ owner' = "terminated"
  /\ UNCHANGED <<queue, sem, over, live, added, workerVars>>

\* wait_for_completion: poll the queue, return when it is empty; called after
\* terminate, or without it.
wait_for_completion ==
  /\ owner \in {"ready", "terminated"}
  /\ queue = <<>>
  /\ owner' = IF owner = "ready" THEN "drained" ELSE "completed"
  /\ UNCHANGED <<queue, sem, over, live, added, workerVars>>

Owner ==
  \/ \E w \in Work : add_work(w)
  \/ terminate_set_over
  \/ terminate_post
  \/ terminate_return
  \/ wait_for_completion

-----------------------------------------------------------------------------
(* A pooled thread.                                                        *)

\* semaphore.wait
semaphore_wait(t) ==
  /\ pc[t] = "wait"
  /\ sem > 0
  /\ sem' = sem - 1
  /\ Goto(t, "get1_over")
  /\ UNCHANGED <<queue, over, live, procedure, owner, added, finished>>

\* get_work, `if not over': Void at once when the pool is being terminated.
\* `from' is the call, `next' the section under the mutex, `void' the
\* continuation of the caller when Void is returned.
get_work_over(t, from, next, void) ==
  /\ pc[t] = from
  /\ IF over
     THEN /\ procedure' = [procedure EXCEPT ![t] = NoWork]
          /\ Goto(t, void)
     ELSE /\ Goto(t, next)
          /\ UNCHANGED procedure
  /\ UNCHANGED <<queue, sem, over, live, owner, added, finished>>

\* Fault: the item is read and not removed.
get_work_queue_keep(t, from, void) ==
  /\ pc[t] = from
  /\ procedure' = [procedure EXCEPT ![t] = IF queue # <<>> THEN Head(queue)
                                           ELSE NoWork]
  /\ Goto(t, IF queue # <<>> THEN "loop" ELSE void)
  /\ UNCHANGED <<queue, sem, over, live, owner, added, finished>>

\* Fault: the newest item is taken.
get_work_queue_newest(t, from, void) ==
  /\ pc[t] = from
  /\ IF queue # <<>>
     THEN /\ procedure' = [procedure EXCEPT ![t] = queue[Len(queue)]]
          /\ queue' = SubSeq(queue, 1, Len(queue) - 1)
          /\ Goto(t, "loop")
     ELSE /\ procedure' = [procedure EXCEPT ![t] = NoWork]
          /\ Goto(t, void)
          /\ UNCHANGED queue
  /\ UNCHANGED <<sem, over, live, owner, added, finished>>

\* get_work, under work_queue_mutex: the oldest item, or Void.
get_work_queue(t, from, void) ==
  /\ pc[t] = from
  /\ IF queue # <<>>
     THEN /\ procedure' = [procedure EXCEPT ![t] = Head(queue)]
          /\ queue' = Tail(queue)
          /\ Goto(t, "loop")
     ELSE /\ procedure' = [procedure EXCEPT ![t] = NoWork]
          /\ Goto(t, void)
          /\ UNCHANGED queue
  /\ UNCHANGED <<sem, over, live, owner, added, finished>>

\* The get_work after the wait: the loop body runs whatever it returns.
get_work_after_wait(t) ==
  \/ get_work_over(t, "get1_over", "get1_queue", "loop")
  \/ get_work_queue(t, "get1_queue", "loop")

\* The get_work after the check: when it returns Void the thread waits.
get_work_after_check(t) ==
  \/ get_work_over(t, "get2_over", "get2_queue", "wait")
  \/ get_work_queue(t, "get2_queue", "wait")

\* The call of the work, when there is one, returns.
call_work(t) ==
  /\ pc[t] = "loop"
  /\ finished' = IF procedure[t] = NoWork THEN finished
                 ELSE finished \union {procedure[t]}
  /\ Goto(t, "check")
  /\ UNCHANGED <<queue, sem, over, live, procedure, owner, added>>

\* Fault: the thread waits for a post after each work.
check_over_waits(t) ==
  /\ pc[t] = "check"
  /\ Goto(t, IF over THEN "exit" ELSE "wait")
  /\ UNCHANGED <<queue, sem, over, live, procedure, owner, added, finished>>

\* Fault: a thread leaves only when the queue is empty.
check_over_drains(t) ==
  /\ pc[t] = "check"
  /\ Goto(t, IF over /\ queue = <<>> THEN "exit" ELSE "get2_over")
  /\ UNCHANGED <<queue, sem, over, live, procedure, owner, added, finished>>

check_over(t) ==
  /\ pc[t] = "check"
  /\ Goto(t, IF over THEN "exit" ELSE "get2_over")
  /\ UNCHANGED <<queue, sem, over, live, procedure, owner, added, finished>>

\* Fault: the thread goes on after it was counted as terminated.
thread_terminated_goes_on(t) ==
  /\ pc[t] = "exit"
  /\ live' = live - 1
  /\ Goto(t, "wait")
  /\ UNCHANGED <<queue, sem, over, procedure, owner, added, finished>>

thread_terminated(t) ==
  /\ pc[t] = "exit"
  /\ live' = live - 1
  /\ Goto(t, "dead")
  /\ UNCHANGED <<queue, sem, over, procedure, owner, added, finished>>

Worker(t) ==
  \/ semaphore_wait(t)
  \/ get_work_after_wait(t)
  \/ call_work(t)
  \/ check_over(t)
  \/ get_work_after_check(t)
  \/ thread_terminated(t)

-----------------------------------------------------------------------------

Next == Owner \/ \E t \in Thread : Worker(t)

Spec == Init /\ [][Next]_poolVars

(***************************************************************************)
(* Fairness.  The operating system runs every thread that can run, and a   *)
(* call of the work returns: it is HTTPD_REQUEST_HANDLER.safe_execute,     *)
(* whose socket reads time out and whose exceptions are rescued.  The      *)
(* polling loop of terminate keeps running.  Nothing obliges the owner to  *)
(* add work or to terminate.                                               *)
(***************************************************************************)
Fairness ==
  /\ \A t \in Thread : WF_poolVars(Worker(t))
  /\ WF_poolVars(terminate_post \/ terminate_return)

FairSpec == Spec /\ Fairness

-----------------------------------------------------------------------------
(* Properties.                                                             *)

Running == {t \in Thread : pc[t] = "loop" /\ procedure[t] # NoWork}

RunningWork == {procedure[t] : t \in Running}

Idle == {t \in Thread : pc[t] = "wait"}

\* Threads that take an item from the queue before they wait again and before
\* they run anything.
Fetching == {t \in Thread : \/ pc[t] \in {"get1_over", "get1_queue", "check",
                                          "get2_over", "get2_queue"}
                            \/ pc[t] = "loop" /\ procedure[t] = NoWork}

TypeOK ==
  /\ queue \in Seq(Work)
  /\ sem \in Nat
  /\ over \in BOOLEAN
  /\ live \in 0..Capacity
  /\ pc \in [Thread -> Position]
  /\ procedure \in [Thread -> Work \union {NoWork}]
  /\ owner \in {"ready", "drained", "terminating", "terminated", "completed"}
  /\ added \in SUBSET Work
  /\ finished \in SUBSET Work

\* Every work handed to add_work is in exactly one place: once in the queue,
\* or run by exactly one thread, or finished.  None is lost or run twice,
\* although thread_procedure keeps its old value until the next get_work.
EachWorkOnce ==
  /\ IsInjective(queue)
  /\ Range(queue) \intersect finished = {}
  /\ \A t \in Running : procedure[t] \notin Range(queue) \union finished
  /\ \A t, u \in Running : procedure[t] = procedure[u] => t = u
  /\ added = Range(queue) \union finished \union RunningWork

\* add_work stops posting when more than `capacity' items are queued, and
\* threads that go from one work to the next leave their post behind.  Still,
\* as long as the pool is not over, the posts and the threads about to fetch
\* cover the queued items, up to the number of threads that are not busy: no
\* thread sleeps next to an item that nobody was told about.
NoLostWakeup ==
  ~over => \/ sem + Cardinality(Fetching) >= Len(queue)
           \/ sem >= Cardinality(Idle)

\* When terminate has returned, terminated_count was exact: no pooled thread
\* is left running work on a connection.
TerminateJoins ==
  owner \in {"terminated", "completed"} => \A t \in Thread : pc[t] = "dead"

\* terminated_count counts the threads that have not called thread_terminated;
\* a NATURAL that is decremented once per thread never wraps below zero.
LiveCount == live = Cardinality({t \in Thread : pc[t] # "dead"})

\* The pool is over from the moment terminate is entered, and only then may a
\* thread leave its loop.
OverPhase ==
  /\ over <=> owner \notin {"ready", "drained"}
  /\ ~over => \A t \in Thread : pc[t] \notin {"exit", "dead"}

\* The inductive invariant behind the safety properties above.
IndInv ==
  /\ TypeOK
  /\ LiveCount
  /\ OverPhase
  /\ EachWorkOnce
  /\ NoLostWakeup
  /\ TerminateJoins

\* The pool is a work queue: items start in the order of add_work, each once,
\* at most one on a thread, and terminate returns only when none runs.
Phase == IF owner \in {"ready", "drained"} THEN "open"
         ELSE IF owner = "terminating" THEN "closing" ELSE "closed"

RunBy == [t \in Thread |-> IF t \in Running THEN procedure[t] ELSE NoWork]

WQ == INSTANCE WorkQueue WITH Runner <- Thread, pending <- queue,
                              running <- RunBy, done <- finished,
                              phase <- Phase

ImplementsWorkQueue == WQ!Spec

\* A queued work is run, unless the pool is terminated first (get_work then
\* returns Void and the item stays in the queue).
QueuedIsServed ==
  \A w \in Work : w \in Range(queue) ~> (w \in finished \/ over)
=============================================================================

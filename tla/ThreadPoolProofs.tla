--------------------------- MODULE ThreadPoolProofs ---------------------------
(* Proofs about ThreadPool, for every finite set of threads.               *)
EXTENDS ThreadPool, FiniteSetTheorems, SequenceTheorems, TLAPS

USE PoolAssumption

LEMMA CapacityType == Capacity \in Nat /\ Capacity # 0
BY FS_CardinalityType, FS_EmptySet DEF Capacity

\* Steps of one thread and of the owner, in one disjunction.
LEMMA NextCases ==
  ASSUME [Next]_poolVars
  PROVE  \/ \E w \in Work : add_work(w)
         \/ terminate_set_over \/ terminate_post
         \/ terminate_return \/ wait_for_completion
         \/ \E t \in Thread :
              \/ semaphore_wait(t)
              \/ get_work_over(t, "get1_over", "get1_queue", "loop")
              \/ get_work_queue(t, "get1_queue", "loop")
              \/ call_work(t)
              \/ check_over(t)
              \/ get_work_over(t, "get2_over", "get2_queue", "wait")
              \/ get_work_queue(t, "get2_queue", "wait")
              \/ thread_terminated(t)
         \/ UNCHANGED poolVars
BY DEF Next, Owner, Worker, get_work_after_wait, get_work_after_check

\* The threads that are not dead before and after one of them moves.
LEMMA LiveStep ==
  ASSUME TypeOK, NEW t \in Thread, NEW p \in Position,
         pc[t] # "dead", pc' = [pc EXCEPT ![t] = p]
  PROVE  LET L == {u \in Thread : pc[u] # "dead"} IN
         /\ Cardinality(L) \in Nat \ {0}
         /\ Cardinality(L) <= Capacity
         /\ Cardinality(L') = IF p = "dead" THEN Cardinality(L) - 1
                              ELSE Cardinality(L)
<1> DEFINE L == {u \in Thread : pc[u] # "dead"}
<1>1. IsFiniteSet(L) /\ Cardinality(L) <= Capacity
  BY FS_Subset DEF Capacity
<1>2. t \in L
  OBVIOUS
<1>3. Cardinality(L) \in Nat \ {0}
  BY <1>1, <1>2, FS_CardinalityType, FS_EmptySet
<1>4. L' = IF p = "dead" THEN L \ {t} ELSE L
  BY DEF TypeOK
<1>5. Cardinality(L \ {t}) = Cardinality(L) - 1
  BY <1>1, <1>2, FS_RemoveElement
<1> QED
  BY <1>1, <1>3, <1>4, <1>5

-----------------------------------------------------------------------------
(* Types, the count of live threads and the phases of terminate.           *)

Counting == TypeOK /\ LiveCount /\ OverPhase /\ TerminateJoins

LEMMA CountingInit == Init => Counting
<1> SUFFICES ASSUME Init PROVE Counting
  OBVIOUS
<1>1. {t \in Thread : pc[t] # "dead"} = Thread
  BY DEF Init
<1>2. LiveCount
  BY <1>1 DEF Init, LiveCount, Capacity
<1>3. OverPhase /\ TerminateJoins
  BY DEF Init, OverPhase, TerminateJoins
<1>4. TypeOK
  <2>1. queue \in Seq(Work) /\ sem \in Nat /\ over \in BOOLEAN
    BY EmptySeq DEF Init
  <2>2. live \in 0..Capacity
    BY CapacityType DEF Init
  <2>3. pc \in [Thread -> Position]
    BY DEF Init, Position
  <2>4. procedure \in [Thread -> Work \union {NoWork}]
    BY DEF Init
  <2> QED
    BY <2>1, <2>2, <2>3, <2>4 DEF Init, TypeOK
<1> QED
  BY <1>2, <1>3, <1>4 DEF Counting

LEMMA CountingStep == Counting /\ [Next]_poolVars => Counting'
<1> SUFFICES ASSUME Counting, [Next]_poolVars PROVE Counting'
  OBVIOUS
<1> USE DEF Counting
<1>0. Capacity \in Nat
  BY CapacityType
<1>1. CASE UNCHANGED poolVars
  BY <1>1 DEF poolVars, TypeOK, LiveCount, OverPhase, TerminateJoins
<1>2. ASSUME NEW w \in Work, add_work(w) PROVE Counting'
  BY <1>2, <1>0
  DEF add_work, workerVars, TypeOK, LiveCount, OverPhase, TerminateJoins
<1>3. CASE terminate_set_over
  BY <1>3
  DEF terminate_set_over, workerVars, TypeOK, LiveCount, OverPhase,
      TerminateJoins
<1>4. CASE terminate_post
  BY <1>4
  DEF terminate_post, workerVars, TypeOK, LiveCount, OverPhase, TerminateJoins
<1>5. CASE terminate_return
  <2>1. {t \in Thread : pc[t] # "dead"} = {}
    <3>1. IsFiniteSet({t \in Thread : pc[t] # "dead"})
      BY FS_Subset
    <3> QED
      BY <1>5, <3>1, FS_EmptySet DEF terminate_return, LiveCount
  <2> QED
    BY <1>5, <2>1
    DEF terminate_return, workerVars, TypeOK, LiveCount, OverPhase,
        TerminateJoins
<1>6. CASE wait_for_completion
  BY <1>6
  DEF wait_for_completion, workerVars, TypeOK, LiveCount, OverPhase,
      TerminateJoins
<1>7. ASSUME NEW t \in Thread,
             \/ semaphore_wait(t)
             \/ get_work_over(t, "get1_over", "get1_queue", "loop")
             \/ get_work_queue(t, "get1_queue", "loop")
             \/ call_work(t)
             \/ check_over(t)
             \/ get_work_over(t, "get2_over", "get2_queue", "wait")
             \/ get_work_queue(t, "get2_queue", "wait")
      PROVE  Counting'
  <2>1. pc[t] # "dead"
    BY <1>7 DEF semaphore_wait, get_work_over, get_work_queue, call_work,
                check_over
  <2>2. PICK p \in Position \ {"dead"} : pc' = [pc EXCEPT ![t] = p]
    BY <1>7 DEF semaphore_wait, get_work_over, get_work_queue, call_work,
                check_over, Goto, Position
  <2>3. live' = live /\ owner' = owner /\ over' = over /\ added' = added
    BY <1>7 DEF semaphore_wait, get_work_over, get_work_queue, call_work,
                check_over
  <2>4. LiveCount'
    BY <2>1, <2>2, <2>3, LiveStep DEF LiveCount
  <2>5. OverPhase'
    BY <1>7, <2>2, <2>3 DEF OverPhase, TypeOK, semaphore_wait, get_work_over,
       get_work_queue, call_work, check_over, Goto
  <2>6. TerminateJoins'
    BY <2>1, <2>3 DEF TerminateJoins
  <2>7. TypeOK'
    <3>1. queue' \in Seq(Work)
      <4>1. queue # <<>> => Tail(queue) \in Seq(Work)
        BY DEF TypeOK
      <4> QED
        BY <1>7, <4>1 DEF TypeOK, semaphore_wait, get_work_over,
           get_work_queue, call_work, check_over
    <3>5. sem' \in Nat
      BY <1>7 DEF TypeOK, semaphore_wait, get_work_over, get_work_queue,
                  call_work, check_over
    <3>2. procedure' \in [Thread -> Work \union {NoWork}]
      BY <1>7 DEF TypeOK, semaphore_wait, get_work_over, get_work_queue,
                  call_work, check_over
    <3>3. finished' \in SUBSET Work
      BY <1>7 DEF TypeOK, semaphore_wait, get_work_over, get_work_queue,
                  call_work, check_over
    <3>4. pc' \in [Thread -> Position]
      BY <2>2 DEF TypeOK
    <3> QED
      BY <2>3, <3>1, <3>2, <3>3, <3>4, <3>5 DEF TypeOK
  <2> QED
    BY <2>4, <2>5, <2>6, <2>7
<1>8. ASSUME NEW t \in Thread, thread_terminated(t) PROVE Counting'
  <2>1. "dead" \in Position /\ pc[t] = "exit" /\ pc' = [pc EXCEPT ![t] = "dead"]
    BY <1>8 DEF thread_terminated, Goto, Position
  <2>2. LiveCount' /\ live' \in 0..Capacity
    <3> DEFINE L == {u \in Thread : pc[u] # "dead"}
    <3>1. /\ Cardinality(L) \in Nat \ {0}
          /\ Cardinality(L) <= Capacity
          /\ Cardinality(L') = Cardinality(L) - 1
      BY <2>1, LiveStep
    <3>2. live' = live - 1 /\ live = Cardinality(L)
      BY <1>8 DEF thread_terminated, LiveCount
    <3>3. LiveCount' <=> live' = Cardinality(L')
      BY DEF LiveCount
    <3> HIDE DEF L
    <3> QED
      BY <1>0, <3>1, <3>2, <3>3
  <2>3. OverPhase'
    BY <1>8, <2>1 DEF OverPhase, thread_terminated, TypeOK
  <2>4. TerminateJoins'
    BY <1>8, <2>1 DEF TerminateJoins, thread_terminated
  <2> QED
    BY <1>8, <2>1, <2>2, <2>3, <2>4 DEF TypeOK, thread_terminated
<1> QED
  BY <1>1, <1>2, <1>3, <1>4, <1>5, <1>6, <1>7, <1>8, NextCases

LEMMA CountingInvariant == Spec => []Counting
BY CountingInit, CountingStep, PTL DEF Spec

\* The pool's state always has its type; in particular the NATURAL
\* terminated_count never wraps.
THEOREM TypeCorrect == Spec => []TypeOK
<1>1. Counting => TypeOK
  BY DEF Counting
<1> QED
  BY <1>1, CountingInvariant, PTL

\* terminate returns only after every pooled thread has left its loop.
THEOREM TerminateJoinsThreads == Spec => []TerminateJoins
<1>1. Counting => TerminateJoins
  BY DEF Counting
<1> QED
  BY <1>1, CountingInvariant, PTL

-----------------------------------------------------------------------------
(* Every work is in one place.                                             *)

\* What Append and Tail do to the items of a queue without duplicates.
LEMMA RangeOfQueue ==
  ASSUME NEW q \in Seq(Work)
  PROVE  Range(q) = {q[i] : i \in 1..Len(q)}
BY LenProperties DEF Range

LEMMA AppendItem ==
  ASSUME NEW q \in Seq(Work), NEW w \in Work, IsInjective(q), w \notin Range(q)
  PROVE  /\ IsInjective(Append(q, w))
         /\ Range(Append(q, w)) = Range(q) \union {w}
<1> DEFINE r == Append(q, w)
<1>1. /\ r \in Seq(Work)
      /\ Len(r) = Len(q) + 1
      /\ \A i \in 1..Len(q) : r[i] = q[i]
      /\ r[Len(q) + 1] = w
  BY AppendProperties
<1>2. /\ Len(q) \in Nat
      /\ DOMAIN q = 1..Len(q)
      /\ DOMAIN r = 1..Len(r)
  BY <1>1, LenProperties
<1>3. \A i \in 1..Len(q) : q[i] # w
  BY <1>2 DEF Range
<1> HIDE DEF r
<1>4. IsInjective(r)
  BY <1>1, <1>2, <1>3 DEF IsInjective
<1>5. Range(r) = Range(q) \union {w}
  BY <1>1, <1>2 DEF Range
<1> QED
  BY <1>4, <1>5 DEF r

LEMMA RemoveItem ==
  ASSUME NEW q \in Seq(Work), q # <<>>, IsInjective(q)
  PROVE  /\ IsInjective(Tail(q))
         /\ Head(q) \in Range(q)
         /\ Range(Tail(q)) = Range(q) \ {Head(q)}
<1> DEFINE r == Tail(q)
<1>1. /\ r \in Seq(Work)
      /\ Len(r) = Len(q) - 1
      /\ \A i \in 1..Len(r) : r[i] = q[i + 1]
  BY HeadTailProperties
<1>2. /\ Len(q) \in Nat \ {0}
      /\ DOMAIN q = 1..Len(q)
      /\ DOMAIN r = 1..Len(r)
  BY <1>1, LenProperties, EmptySeq
<1>3. Head(q) = q[1]
  OBVIOUS
<1> HIDE DEF r
<1>4. IsInjective(r)
  BY <1>1, <1>2 DEF IsInjective
<1>5. q[1] \in Range(q) /\ Range(r) = Range(q) \ {q[1]}
  <2>1. q[1] \in Range(q)
    BY <1>2 DEF Range
  <2>2. ASSUME NEW x \in Range(r) PROVE x \in Range(q) /\ x # q[1]
    <3>1. PICK i \in 1..Len(r) : x = q[i + 1]
      BY <1>1, <1>2, <2>2 DEF Range
    <3>2. i + 1 \in 1..Len(q) /\ i + 1 # 1
      BY <1>1, <1>2
    <3> QED
      BY <1>2, <3>1, <3>2 DEF Range, IsInjective
  <2>3. ASSUME NEW x \in Range(q), x # q[1] PROVE x \in Range(r)
    <3>1. PICK i \in 1..Len(q) : x = q[i]
      BY <1>2, <2>3 DEF Range
    <3>2. i - 1 \in 1..Len(r) /\ (i - 1) + 1 = i
      BY <1>1, <1>2, <2>3, <3>1
    <3> QED
      BY <1>1, <1>2, <3>1, <3>2 DEF Range
  <2> QED
    BY <2>1, <2>2, <2>3
<1> QED
  BY <1>3, <1>4, <1>5 DEF r

\* A thread moves and neither runs work before nor after the step.
LEMMA QuietStep ==
  ASSUME TypeOK, EachWorkOnce, NEW t \in Thread, t \notin Running,
         NEW p \in Position, pc' = [pc EXCEPT ![t] = p],
         NEW w \in Work \union {NoWork}, procedure' = [procedure EXCEPT ![t] = w],
         p # "loop" \/ w = NoWork,
         queue' = queue, finished' = finished, added' = added
  PROVE  EachWorkOnce' /\ RunningWork' = RunningWork
<1>1. Running' = Running
  BY DEF Running, TypeOK
<1>2. \A u \in Running : procedure'[u] = procedure[u]
  BY DEF TypeOK
<1>3. RunningWork' = RunningWork
  BY <1>1, <1>2 DEF RunningWork
<1> QED
  BY <1>1, <1>2, <1>3 DEF EachWorkOnce

LEMMA WorkInit == Init => EachWorkOnce
<1> SUFFICES ASSUME Init PROVE EachWorkOnce
  OBVIOUS
<1>1. Running = {}
  BY DEF Init, Running
<1>2. queue = <<>> /\ DOMAIN queue = {}
  BY DEF Init
<1>3. Range(queue) = {} /\ IsInjective(queue)
  BY <1>2 DEF Range, IsInjective
<1> QED
  BY <1>1, <1>3 DEF Init, EachWorkOnce, RunningWork

LEMMA WorkStep == Counting /\ EachWorkOnce /\ [Next]_poolVars => EachWorkOnce'
<1> SUFFICES ASSUME TypeOK, EachWorkOnce, [Next]_poolVars PROVE EachWorkOnce'
  BY DEF Counting
<1>1. CASE \/ terminate_set_over \/ terminate_post \/ terminate_return
           \/ wait_for_completion \/ UNCHANGED poolVars
  <2>1. UNCHANGED <<queue, pc, procedure, added, finished>>
    BY <1>1 DEF terminate_set_over, terminate_post, terminate_return,
       wait_for_completion, poolVars, workerVars
  <2>2. Running' = Running
    BY <2>1 DEF Running
  <2> QED
    BY <2>1, <2>2 DEF EachWorkOnce, RunningWork
<1>2. ASSUME NEW w \in Work, add_work(w) PROVE EachWorkOnce'
  <2>1. /\ queue' = Append(queue, w) /\ added' = added \union {w}
        /\ UNCHANGED <<pc, procedure, finished>> /\ w \notin added
    BY <1>2 DEF add_work, workerVars
  <2>2. Running' = Running
    BY <2>1 DEF Running
  <2>3. w \notin Range(queue)
    BY <2>1 DEF EachWorkOnce
  <2>4. IsInjective(queue') /\ Range(queue') = Range(queue) \union {w}
    BY <2>1, <2>3, AppendItem DEF TypeOK, EachWorkOnce
  <2> QED
    BY <2>1, <2>2, <2>4 DEF EachWorkOnce, RunningWork
<1>3. ASSUME NEW t \in Thread,
             \/ semaphore_wait(t)
             \/ check_over(t)
             \/ thread_terminated(t)
      PROVE  EachWorkOnce'
  <2>1. /\ t \notin Running
        /\ UNCHANGED <<queue, procedure, added, finished>>
    BY <1>3 DEF Running, semaphore_wait, check_over, thread_terminated
  <2>2. PICK p \in Position \ {"loop"} : pc' = [pc EXCEPT ![t] = p]
    BY <1>3 DEF semaphore_wait, check_over, thread_terminated, Goto, Position
  <2>3. /\ procedure[t] \in Work \union {NoWork}
        /\ procedure' = [procedure EXCEPT ![t] = procedure[t]]
    BY <2>1 DEF TypeOK
  <2> QED
    BY <2>1, <2>2, <2>3, QuietStep
<1>4. ASSUME NEW t \in Thread,
             \/ get_work_over(t, "get1_over", "get1_queue", "loop")
             \/ get_work_over(t, "get2_over", "get2_queue", "wait")
      PROVE  EachWorkOnce'
  <2>1. t \notin Running /\ UNCHANGED <<queue, added, finished>>
    BY <1>4 DEF Running, get_work_over
  <2>2. CASE over
    <3>1. PICK p \in Position : pc' = [pc EXCEPT ![t] = p]
      BY <1>4, <2>2 DEF get_work_over, Goto, Position
    <3>2. procedure' = [procedure EXCEPT ![t] = NoWork]
      BY <1>4, <2>2 DEF get_work_over
    <3> QED
      BY <2>1, <3>1, <3>2, QuietStep
  <2>3. CASE ~over
    <3>1. PICK p \in Position \ {"loop"} : pc' = [pc EXCEPT ![t] = p]
      BY <1>4, <2>3 DEF get_work_over, Goto, Position
    <3>2. /\ procedure[t] \in Work \union {NoWork}
          /\ procedure' = [procedure EXCEPT ![t] = procedure[t]]
      BY <1>4, <2>3 DEF get_work_over, TypeOK
    <3> QED
      BY <2>1, <3>1, <3>2, QuietStep
  <2> QED
    BY <2>2, <2>3
<1>5. ASSUME NEW t \in Thread,
             \/ get_work_queue(t, "get1_queue", "loop")
             \/ get_work_queue(t, "get2_queue", "wait")
      PROVE  EachWorkOnce'
  <2>1. t \notin Running /\ UNCHANGED <<added, finished>>
    BY <1>5 DEF Running, get_work_queue
  <2>2. CASE queue = <<>>
    <3>1. PICK p \in Position : pc' = [pc EXCEPT ![t] = p]
      BY <1>5, <2>2 DEF get_work_queue, Goto, Position
    <3>2. procedure' = [procedure EXCEPT ![t] = NoWork] /\ queue' = queue
      BY <1>5, <2>2 DEF get_work_queue
    <3> QED
      BY <2>1, <3>1, <3>2, QuietStep
  <2>3. CASE queue # <<>>
    <3> DEFINE w == Head(queue)
    <3>1. /\ IsInjective(queue')
          /\ w \in Range(queue)
          /\ Range(queue') = Range(queue) \ {w}
      <4>1. queue' = Tail(queue) /\ queue \in Seq(Work) /\ IsInjective(queue)
        BY <1>5, <2>3 DEF get_work_queue, TypeOK, EachWorkOnce
      <4> QED
        BY <2>3, <4>1, RemoveItem
    <3>2. /\ pc' = [pc EXCEPT ![t] = "loop"]
          /\ procedure' = [procedure EXCEPT ![t] = w]
          /\ w \in Work
      BY <1>5, <2>3, HeadTailProperties DEF get_work_queue, Goto, TypeOK
    <3> HIDE DEF w
    <3>3. Running' = Running \union {t}
      BY <3>2 DEF Running, TypeOK
    <3>4. /\ procedure'[t] = w
          /\ \A u \in Running : procedure'[u] = procedure[u]
      BY <2>1, <3>2 DEF Running, TypeOK
    <3>5. \A u \in Running : procedure[u] # w
      BY <3>1 DEF EachWorkOnce
    <3>6. RunningWork' = RunningWork \union {w}
      BY <3>3, <3>4 DEF RunningWork
    <3> QED
      BY <2>1, <3>1, <3>3, <3>4, <3>5, <3>6 DEF EachWorkOnce
  <2> QED
    BY <2>2, <2>3
<1>6. ASSUME NEW t \in Thread, call_work(t) PROVE EachWorkOnce'
  <2>1. /\ pc[t] = "loop"
        /\ pc' = [pc EXCEPT ![t] = "check"]
        /\ UNCHANGED <<queue, added, procedure>>
    BY <1>6 DEF call_work, Goto
  <2>2. Running' = Running \ {t}
    BY <2>1 DEF Running, TypeOK
  <2>3. CASE procedure[t] = NoWork
    <3>1. finished' = finished /\ Running' = Running
      BY <1>6, <2>2, <2>3 DEF call_work, Running
    <3> QED
      BY <2>1, <3>1 DEF EachWorkOnce, RunningWork
  <2>4. CASE procedure[t] # NoWork
    <3>1. finished' = finished \union {procedure[t]} /\ t \in Running
      BY <1>6, <2>1, <2>4 DEF call_work, Running
    <3> QED
      BY <2>1, <2>2, <3>1 DEF EachWorkOnce, RunningWork
  <2> QED
    BY <2>3, <2>4
<1> QED
  BY <1>1, <1>2, <1>3, <1>4, <1>5, <1>6, NextCases

\* No work is lost and none is run twice, whatever the interleaving of
\* add_work, get_work and terminate.
THEOREM WorkIsRunOnce == Spec => []EachWorkOnce
BY WorkInit, WorkStep, CountingInvariant, PTL DEF Spec

-----------------------------------------------------------------------------
(* No wakeup is lost.                                                      *)

\* Threads that fetch and threads that sleep are disjoint sets of threads.
LEMMA FetchingIdle ==
  /\ IsFiniteSet(Fetching) /\ Cardinality(Fetching) \in Nat
  /\ IsFiniteSet(Idle) /\ Cardinality(Idle) \in Nat
  /\ Cardinality(Fetching) + Cardinality(Idle) <= Capacity
<1>1. Fetching \subseteq Thread /\ Idle \subseteq Thread
  BY DEF Fetching, Idle
<1>2. /\ IsFiniteSet(Fetching) /\ Cardinality(Fetching) \in Nat
      /\ IsFiniteSet(Idle) /\ Cardinality(Idle) \in Nat
  BY <1>1, FS_Subset, FS_CardinalityType
<1>3. Cardinality(Fetching \intersect Idle) = 0
  <2>1. Fetching \intersect Idle = {}
    BY DEF Fetching, Idle
  <2> QED
    BY <2>1, FS_EmptySet
<1>4. Cardinality(Fetching \union Idle)
        = Cardinality(Fetching) + Cardinality(Idle)
  BY <1>2, <1>3, FS_Union
<1>5. Cardinality(Fetching \union Idle) <= Capacity
  BY <1>1, FS_Subset DEF Capacity
<1> QED
  BY <1>2, <1>4, <1>5

LEMMA WakeupInit == Init => NoLostWakeup
<1> SUFFICES ASSUME Init PROVE NoLostWakeup
  OBVIOUS
<1> QED
  BY FetchingIdle, EmptySeq DEF Init, NoLostWakeup

\* is_over is never reset.
LEMMA OverStable == ASSUME [Next]_poolVars, over PROVE over'
<1>1. CASE \/ \E w \in Work : add_work(w)
           \/ terminate_post \/ terminate_return \/ wait_for_completion
           \/ UNCHANGED poolVars
  BY <1>1 DEF add_work, terminate_post, terminate_return,
     wait_for_completion, poolVars
<1>2. CASE terminate_set_over
  BY <1>2 DEF terminate_set_over
<1>3. ASSUME NEW t \in Thread,
             \/ semaphore_wait(t)
             \/ get_work_over(t, "get1_over", "get1_queue", "loop")
             \/ get_work_queue(t, "get1_queue", "loop")
             \/ call_work(t)
             \/ check_over(t)
             \/ get_work_over(t, "get2_over", "get2_queue", "wait")
             \/ get_work_queue(t, "get2_queue", "wait")
             \/ thread_terminated(t)
      PROVE  over'
  BY <1>3 DEF semaphore_wait, get_work_over, get_work_queue, call_work,
     check_over, thread_terminated
<1> QED
  BY <1>1, <1>2, <1>3, NextCases

LEMMA WakeupStep == Counting /\ NoLostWakeup /\ [Next]_poolVars => NoLostWakeup'
<1> SUFFICES ASSUME TypeOK, OverPhase, NoLostWakeup, [Next]_poolVars,
                    ~over, ~over'
             PROVE  NoLostWakeup'
  BY OverStable DEF Counting, NoLostWakeup
<1> DEFINE F == Cardinality(Fetching)
           I == Cardinality(Idle)
           Covered(s, f, i, n) == s + f >= n \/ s >= i
<1>a. /\ F \in Nat /\ I \in Nat /\ F + I <= Capacity
      /\ IsFiniteSet(Fetching) /\ IsFiniteSet(Idle)
  BY FetchingIdle
<1>b. /\ sem \in Nat /\ Len(queue) \in Nat /\ Capacity \in Nat
      /\ queue \in Seq(Work) /\ pc \in [Thread -> Position]
      /\ procedure \in [Thread -> Work \union {NoWork}]
  BY LenProperties, CapacityType DEF TypeOK
<1>c. Covered(sem, F, I, Len(queue))
  BY DEF NoLostWakeup
<1>d. SUFFICES Covered(sem', F', I', Len(queue'))
  BY DEF NoLostWakeup
<1>1. CASE terminate_set_over \/ terminate_post \/ terminate_return
  BY <1>1 DEF terminate_set_over, terminate_post, terminate_return, OverPhase
<1>2. CASE wait_for_completion \/ UNCHANGED poolVars
  <2>1. sem' = sem /\ queue' = queue /\ Fetching' = Fetching /\ Idle' = Idle
    BY <1>2 DEF wait_for_completion, poolVars, workerVars, Fetching, Idle
  <2> QED
    BY <1>c, <2>1
<1>3. ASSUME NEW w \in Work, add_work(w) PROVE Covered(sem', F', I', Len(queue'))
  <2>1. /\ Len(queue') = Len(queue) + 1
        /\ sem' = IF Len(queue') <= Capacity THEN sem + 1 ELSE sem
    BY <1>3, <1>b, AppendProperties DEF add_work
  <2>2. Fetching' = Fetching /\ Idle' = Idle
    BY <1>3 DEF add_work, workerVars, Fetching, Idle
  <2>3. F' = F /\ I' = I
    BY <2>2
  <2> HIDE DEF F, I
  <2> QED
    BY <1>a, <1>b, <1>c, <2>1, <2>3
<1>4. ASSUME NEW t \in Thread, semaphore_wait(t)
      PROVE  Covered(sem', F', I', Len(queue'))
  <2>1. /\ t \in Idle /\ t \notin Fetching
        /\ Fetching' = Fetching \union {t}
        /\ Idle' = Idle \ {t}
        /\ sem' = sem - 1 /\ queue' = queue
    BY <1>4, <1>b DEF semaphore_wait, Goto, Fetching, Idle
  <2>2. F' = F + 1 /\ I' = I - 1
    BY <1>a, <2>1, FS_AddElement, FS_RemoveElement
  <2> HIDE DEF F, I
  <2> QED
    BY <1>a, <1>b, <1>c, <2>1, <2>2
<1>5. ASSUME NEW t \in Thread,
             \/ get_work_over(t, "get1_over", "get1_queue", "loop")
             \/ get_work_over(t, "get2_over", "get2_queue", "wait")
             \/ check_over(t)
      PROVE  Covered(sem', F', I', Len(queue'))
  <2>1. Fetching' = Fetching /\ Idle' = Idle /\ sem' = sem /\ queue' = queue
    BY <1>5, <1>b DEF get_work_over, check_over, Goto, Fetching, Idle
  <2> QED
    BY <1>c, <2>1
<1>6. ASSUME NEW t \in Thread, call_work(t)
      PROVE  Covered(sem', F', I', Len(queue'))
  <2>1. /\ Fetching' = Fetching \union {t}
        /\ Idle' = Idle /\ sem' = sem /\ queue' = queue
    BY <1>6, <1>b DEF call_work, Goto, Fetching, Idle
  <2>2. F' \in {F, F + 1} /\ I' = I
    BY <1>a, <2>1, FS_AddElement
  <2> HIDE DEF F, I
  <2> QED
    BY <1>a, <1>b, <1>c, <2>1, <2>2
<1>7. ASSUME NEW t \in Thread,
             \/ get_work_queue(t, "get1_queue", "loop")
             \/ get_work_queue(t, "get2_queue", "wait")
      PROVE  Covered(sem', F', I', Len(queue'))
  <2>1. CASE queue # <<>>
    <3>1. /\ sem' = sem
          /\ Len(queue') = Len(queue) - 1
          /\ Head(queue) # NoWork
      BY <1>7, <1>b, <2>1, HeadTailProperties DEF get_work_queue
    <3>2. /\ t \in Fetching
          /\ Fetching' = Fetching \ {t}
          /\ Idle' = Idle
      BY <1>7, <1>b, <2>1, <3>1 DEF get_work_queue, Goto, Fetching, Idle
    <3>3. F' = F - 1 /\ I' = I
      BY <1>a, <3>2, FS_RemoveElement
    <3> HIDE DEF F, I
    <3> QED
      BY <1>a, <1>b, <1>c, <3>1, <3>3
  <2>2. CASE queue = <<>>
    <3>1. sem' = sem /\ Len(queue') = 0
      BY <1>7, <2>2, EmptySeq DEF get_work_queue
    <3>2. Fetching' \subseteq Thread
      BY DEF Fetching
    <3>3. F' \in Nat
      BY <3>2, FS_Subset, FS_CardinalityType
    <3>4. \A m, n \in Nat : m + n >= 0
      OBVIOUS
    <3>5. sem' \in Nat
      BY <1>b, <3>1
    <3> QED
      BY <3>1, <3>3, <3>4, <3>5
  <2> QED
    BY <2>1, <2>2
<1>8. ASSUME NEW t \in Thread, thread_terminated(t)
      PROVE  Covered(sem', F', I', Len(queue'))
  BY <1>8 DEF thread_terminated, OverPhase
<1> HIDE DEF F, I, Covered
<1> QED
  BY <1>1, <1>2, <1>3, <1>4, <1>5, <1>6, <1>7, <1>8, NextCases

\* While the pool is not over, no thread sleeps beside work that it was not
\* told about, for any number of threads and any schedule.
THEOREM NoWakeupIsLost == Spec => []NoLostWakeup
BY WakeupInit, WakeupStep, CountingInvariant, PTL DEF Spec

-----------------------------------------------------------------------------
(* The pool implements the abstract work queue.                            *)

\* The item that each thread runs, before and after a step of thread t.
LEMMA RunByStep ==
  ASSUME TypeOK, NEW t \in Thread, NEW p \in Position,
         NEW w \in Work \union {NoWork},
         pc' = [pc EXCEPT ![t] = p], procedure' = [procedure EXCEPT ![t] = w]
  PROVE  RunBy' = [RunBy EXCEPT ![t] = IF p = "loop" THEN w ELSE NoWork]
BY DEF RunBy, Running, TypeOK

LEMMA RunByUnchanged ==
  ASSUME UNCHANGED <<pc, procedure>> PROVE RunBy' = RunBy
BY DEF RunBy, Running

LEMMA AbstractInit == Init => WQ!Init
<1> SUFFICES ASSUME Init PROVE WQ!Init
  OBVIOUS
<1>1. RunBy = [t \in Thread |-> NoWork]
  BY DEF Init, RunBy, Running
<1> QED
  BY <1>1 DEF Init, WQ!Init, Phase

LEMMA AbstractStep ==
  ASSUME Counting, EachWorkOnce, [Next]_poolVars
  PROVE  [WQ!Next]_WQ!queueVars
<1> USE DEF Counting
<1> SUFFICES ASSUME ~UNCHANGED <<queue, RunBy, finished, Phase>>
             PROVE  WQ!Next
  BY DEF WQ!queueVars
<1>1. CASE UNCHANGED poolVars
  BY <1>1, RunByUnchanged DEF poolVars, Phase
<1>2. ASSUME NEW w \in Work, add_work(w) PROVE WQ!Next
  BY <1>2, RunByUnchanged DEF add_work, workerVars, WQ!Next, WQ!Submit, Phase
<1>3. CASE terminate_set_over
  BY <1>3, RunByUnchanged
  DEF terminate_set_over, workerVars, WQ!Next, WQ!Close, Phase
<1>4. CASE terminate_post
  BY <1>4, RunByUnchanged DEF terminate_post, workerVars, Phase
<1>5. CASE terminate_return
  <2>1. TerminateJoins' /\ RunBy' = RunBy
    BY <1>5, CountingStep, RunByUnchanged DEF terminate_return, workerVars
  <2>2. \A t \in Thread : RunBy[t] = NoWork
    BY <1>5, <2>1 DEF terminate_return, workerVars, TerminateJoins, RunBy,
       Running
  <2> QED
    BY <1>5, <2>1, <2>2
    DEF terminate_return, workerVars, WQ!Next, WQ!Closed, Phase
<1>6. CASE wait_for_completion
  BY <1>6, RunByUnchanged DEF wait_for_completion, workerVars, Phase
<1>7. ASSUME NEW t \in Thread,
             \/ semaphore_wait(t)
             \/ check_over(t)
             \/ thread_terminated(t)
      PROVE  WQ!Next
  <2>1. /\ RunBy[t] = NoWork
        /\ UNCHANGED <<queue, procedure, finished, owner>>
    BY <1>7 DEF RunBy, Running, semaphore_wait, check_over, thread_terminated
  <2>2. PICK p \in Position \ {"loop"} : pc' = [pc EXCEPT ![t] = p]
    BY <1>7 DEF semaphore_wait, check_over, thread_terminated, Goto, Position
  <2>3. RunBy' = RunBy
    BY <2>1, <2>2 DEF RunBy, Running, TypeOK
  <2> QED
    BY <2>1, <2>3 DEF Phase
<1>8. ASSUME NEW t \in Thread,
             \/ get_work_over(t, "get1_over", "get1_queue", "loop")
             \/ get_work_over(t, "get2_over", "get2_queue", "wait")
      PROVE  WQ!Next
  <2>1. UNCHANGED <<queue, finished, owner>>
    BY <1>8 DEF get_work_over
  <2>2. RunBy' = RunBy
    BY <1>8 DEF get_work_over, Goto, RunBy, Running, TypeOK
  <2> QED
    BY <2>1, <2>2 DEF Phase
<1>9. ASSUME NEW t \in Thread,
             \/ get_work_queue(t, "get1_queue", "loop")
             \/ get_work_queue(t, "get2_queue", "wait")
      PROVE  WQ!Next
  <2>1. RunBy[t] = NoWork /\ UNCHANGED <<finished, owner>>
    BY <1>9 DEF RunBy, Running, get_work_queue
  <2>2. CASE queue = <<>>
    <3>1. RunBy' = RunBy /\ queue' = queue
      BY <1>9, <2>2 DEF get_work_queue, Goto, RunBy, Running, TypeOK
    <3> QED
      BY <2>1, <3>1 DEF Phase
  <2>3. CASE queue # <<>>
    <3>1. /\ queue' = Tail(queue)
          /\ pc' = [pc EXCEPT ![t] = "loop"]
          /\ procedure' = [procedure EXCEPT ![t] = Head(queue)]
          /\ Head(queue) \in Work
      BY <1>9, <2>3, HeadTailProperties DEF get_work_queue, Goto, TypeOK
    <3>2. Head(queue) \in Range(queue)
      BY <2>3, RemoveItem DEF TypeOK, EachWorkOnce
    <3>3. /\ Head(queue) \notin finished
          /\ \A u \in Thread : RunBy[u] # Head(queue)
      BY <3>1, <3>2 DEF EachWorkOnce, RunBy
    <3>4. RunBy' = [RunBy EXCEPT ![t] = Head(queue)]
      BY <3>1, RunByStep DEF Position
    <3>5. Phase # "closed" /\ Phase' = Phase
      BY <1>9, <2>1 DEF Phase, TerminateJoins, get_work_queue, TypeOK
    <3> QED
      BY <2>1, <2>3, <3>1, <3>3, <3>4, <3>5 DEF WQ!Next, WQ!Start
  <2> QED
    BY <2>2, <2>3
<1>10. ASSUME NEW t \in Thread, call_work(t) PROVE WQ!Next
  <2>1. /\ pc[t] = "loop"
        /\ pc' = [pc EXCEPT ![t] = "check"]
        /\ UNCHANGED <<queue, owner, procedure>>
    BY <1>10 DEF call_work, Goto
  <2>2. /\ RunBy[t] = procedure[t]
        /\ RunBy' = [RunBy EXCEPT ![t] = NoWork]
    BY <2>1 DEF RunBy, Running, TypeOK
  <2>3. CASE procedure[t] = NoWork
    <3>1. finished' = finished /\ RunBy' = RunBy
      BY <1>10, <2>2, <2>3 DEF call_work, RunBy
    <3> QED
      BY <2>1, <3>1 DEF Phase
  <2>4. CASE procedure[t] # NoWork
    <3>1. finished' = finished \union {RunBy[t]}
      BY <1>10, <2>2, <2>4 DEF call_work
    <3> QED
      BY <2>1, <2>2, <2>4, <3>1 DEF WQ!Next, WQ!Finish, Phase
  <2> QED
    BY <2>3, <2>4
<1> QED
  BY <1>1, <1>2, <1>3, <1>4, <1>5, <1>6, <1>7, <1>8, <1>9, <1>10, NextCases

\* THREAD_POOL and POOLED_THREAD together implement the first-in first-out
\* work queue of WorkQueue.
THEOREM PoolIsWorkQueue == Spec => ImplementsWorkQueue
BY AbstractInit, AbstractStep, CountingInvariant, WorkIsRunOnce, PTL
DEF Spec, ImplementsWorkQueue, WQ!Spec
=============================================================================

----------------------------- MODULE SessionProofs -----------------------------
(***************************************************************************)
(* Proofs about Session, for every number of requests, of sessions and of  *)
(* faults.                                                                 *)
(***************************************************************************)
EXTENDS Session, FiniteSetTheorems, TLAPS

USE SessionAssumption

FileValue == {Absent, Torn} \cup {Whole(d) : d \in SUBSET Item}

LEMMA FileFacts ==
  /\ Absent # Torn
  /\ \A d : /\ Whole(d) # Absent /\ Whole(d) # Torn
            /\ Whole(d).state = "whole" /\ Whole(d).data = d
  /\ Absent.state = "absent" /\ Torn.state = "torn"
  /\ Absent.data = {} /\ Torn.data = {}
BY DEF Absent, Torn, Whole

LEMMA IdFacts == MaxSession \in Nat /\ MaxSession >= 1
BY FS_CardinalityType

--------------------------------------------------------------------------------
(* Types, and which identifiers exist.                                     *)

Types ==
  /\ file \in [Id -> FileValue]
  /\ intended \in [Id -> FileValue \ {Torn}]
  /\ generated \in 1 .. MaxSession
  /\ pc \in [Request -> Position]
  /\ cookie \in [Request -> Id \cup {NoId}]
  /\ uuid \in [Request -> Id \cup {NoId}]
  /\ data \in [Request -> SUBSET Item]
  /\ is_pending \in [Request -> BOOLEAN]
  /\ is_destroyed \in [Request -> BOOLEAN]
  /\ linked \in [Request -> BOOLEAN]
  /\ edited \in [Request -> BOOLEAN]
  /\ vanished \in [Request -> BOOLEAN]
  /\ jar \subseteq Id \cup {NoId}
  /\ faults \in 0 .. MaxFault
  /\ disturbed \subseteq Id

\* No file and no request has an identifier that was not given out, and no file
\* has one that a client invented.
Known ==
  /\ \A i \in Id : i = Foreign \/ i > generated => file[i] = Absent
  /\ \A i \in jar : i <= generated
  /\ \A r \in Request :
       /\ cookie[r] <= generated
       /\ pc[r] \in Loading \cup Saving \cup {"app"} => uuid[r] \in 1 .. generated

\* The application touches a session only once it has been created.
Untouched ==
  \A r \in Request :
    pc[r] \in {"new", "make"} \cup Loading \cup Saving
      => ~edited[r] /\ ~is_destroyed[r]

\* A file that is missing while it is loaded was deleted meanwhile.
MissingVanished ==
  \A r \in Request :
    pc[r] \in Loading /\ file[uuid[r]] = Absent => vanished[r]

--------------------------------------------------------------------------------
(* A session that is used by one request at a time.                        *)

\* The one request that uses an undisturbed session knows what is in its file.
Sound(r, i) ==
  /\ pc[r] \in {"make", "app"} \cup Loading => file[i] = intended[i]
  /\ pc[r] \in Loading => file[i] # Absent
  /\ pc[r] \in Saving => intended[i] = Whole(data[r])
  /\ pc[r] = "store" => linked[r]
  /\ pc[r] = "app" => IF is_destroyed[r] THEN intended[i] = Absent
                      ELSE edited[r] \/ intended[i] = Whole(data[r])

Kept(i) ==
  /\ \A r, q \in Request : Uses(r, i) /\ Uses(q, i) => r = q
  /\ (\A r \in Request : ~Uses(r, i)) => file[i] = intended[i]
  /\ \A r \in Request : Uses(r, i) => Sound(r, i)

Base == Types /\ Known /\ Untouched

KeptAll == \A i \in Id \ disturbed : Kept(i)

--------------------------------------------------------------------------------

\* A step is a step of one request, or a crash.
RequestStep(r) ==
  \/ start(r)
  \/ make_existing(r) \/ make_new(r) \/ load(r)
  \/ session_data_exists(r) \/ session_data(r)
  \/ save_session_create(r) \/ save_session_store(r) \/ save_session_rescue(r)
  \/ \E v \in Item : remember(r, v) \/ forget(r, v)
  \/ commit(r) \/ commit_destroyed(r) \/ destroy(r) \/ delete_session_rescue(r)
  \/ apply_to(r)

LEMMA NextCases ==
  ASSUME [Next]_vars
  PROVE  (\E r \in Request : RequestStep(r)) \/ crash \/ UNCHANGED vars
BY DEF Next, Step, App, RequestStep

LEMMA BaseInit == Init => Base /\ MissingVanished
<1> SUFFICES ASSUME Init PROVE Base /\ MissingVanished
  OBVIOUS
<1>1. PICK d \in SUBSET Item :
        file = [i \in Id |-> IF i = 1 THEN Whole(d) ELSE Absent]
  BY DEF Init
<1>2. Whole(d) \in FileValue \ {Torn} /\ Absent \in FileValue \ {Torn}
  BY FileFacts DEF FileValue
<1>3. 1 \in Id /\ 0 \in Id /\ generated \in 1 .. MaxSession
  BY IdFacts DEF Init, Id
<1>4. Types
  <2>1. file \in [Id -> FileValue] /\ intended \in [Id -> FileValue \ {Torn}]
    BY <1>1, <1>2 DEF Init
  <2>2. jar \subseteq Id \cup {NoId} /\ faults \in 0 .. MaxFault
    BY <1>3 DEF Init, Foreign
  <2> QED
    BY <1>3, <2>1, <2>2 DEF Init, Types, Position
<1>5. Known
  BY <1>1 DEF Init, Known, Foreign, NoId, Id, Loading, Saving
<1>6. Untouched /\ MissingVanished
  BY DEF Init, Untouched, MissingVanished, Loading
<1> QED
  BY <1>4, <1>5, <1>6 DEF Base

\* A fresh identifier.
LEMMA BuildIsFresh ==
  ASSUME Base, NEW r \in Request, build(r)
  PROVE  /\ generated' = generated + 1
         /\ generated' \in 1 .. MaxSession
         /\ generated' \in Id
         /\ Whole({}) \in FileValue \ {Torn}
BY FileFacts, IdFacts DEF Base, Types, build, Id, FileValue

LEMMA TypesStep == ASSUME Base, [Next]_vars PROVE Types'
<1> USE DEF sessionVars, historyVars, Base
<1>1. CASE UNCHANGED vars
  BY <1>1 DEF vars, Types
<1>2. CASE crash
  BY <1>2 DEF crash, Types, Position
<1>3. ASSUME NEW r \in Request, RequestStep(r) PROVE Types'
  <2>0. Absent \in FileValue \ {Torn} /\ Torn \in FileValue
         /\ \A d \in SUBSET Item : Whole(d) \in FileValue \ {Torn}
    BY FileFacts DEF FileValue
  <2>1. CASE start(r)
    BY <2>1 DEF start, Types, Position
  <2>2. CASE make_existing(r)
    BY <2>2 DEF make_existing, exists, Types, Position
  <2>3. CASE make_new(r)
    <3>1. build(r)
      BY <2>3 DEF make_new
    <3>2. /\ generated' \in 1 .. MaxSession
          /\ intended' \in [Id -> FileValue \ {Torn}]
      BY <3>1, BuildIsFresh DEF build, Types
    <3>3. /\ uuid' \in [Request -> Id \cup {NoId}]
          /\ data' \in [Request -> SUBSET Item]
          /\ pc' \in [Request -> Position]
      BY <3>1, BuildIsFresh DEF build, Types, Position
    <3> QED
      BY <2>3, <3>2, <3>3 DEF make_new, Types
  <2>4. CASE load(r)
    <3>1. CASE exists(uuid[r])
      BY <2>4, <3>1 DEF load, Types, Position
    <3>2. CASE ~exists(uuid[r])
      <4>1. build(r)
        BY <2>4, <3>2 DEF load
      <4> QED
        BY <2>4, <4>1, BuildIsFresh DEF load, build, Types, Position
    <3> QED
      BY <3>1, <3>2
  <2>5. CASE session_data_exists(r)
    BY <2>5 DEF session_data_exists, init_data, Types, Position
  <2>6. CASE session_data(r)
    <3>1. uuid[r] \in Id
      BY <2>6 DEF session_data, Known, Types, Loading, Id
    <3>2. file[uuid[r]].data \in SUBSET Item
      BY <3>1, FileFacts DEF Types, FileValue
    <3>3. /\ data' \in [Request -> SUBSET Item]
          /\ pc' \in [Request -> Position]
      BY <2>6, <3>2 DEF session_data, init_data, Types, Position
    <3> QED
      BY <2>6, <3>3 DEF session_data, Types
  <2>7. CASE save_session_create(r)
    BY <2>0, <2>7 DEF save_session_create, Types, Position
  <2>8. CASE save_session_store(r)
    BY <2>0, <2>8 DEF save_session_store, Types, Position
  <2>9. CASE save_session_rescue(r)
    <3>1. uuid[r] \in Id
      BY <2>9 DEF save_session_rescue, Known, Types, Saving, Id
    <3> QED
      BY <2>9, <3>1 DEF save_session_rescue, Types, Position
  <2>10. ASSUME NEW v \in Item, remember(r, v) \/ forget(r, v) PROVE Types'
    <3>1. \/ data' = [data EXCEPT ![r] = data[r] \cup {v}]
          \/ data' = [data EXCEPT ![r] = data[r] \ {v}]
      BY <2>10 DEF remember, forget
    <3>2. data' \in [Request -> SUBSET Item]
      <4>1. data[r] \cup {v} \in SUBSET Item /\ data[r] \ {v} \in SUBSET Item
        BY DEF Types
      <4> QED
        BY <3>1, <4>1 DEF Types
    <3> QED
      BY <2>10, <3>2 DEF remember, forget, Types
  <2>11. CASE commit(r)
    BY <2>0, <2>11 DEF commit, Types, Position
  <2>12. ASSUME delete_session(r)
         PROVE  /\ file' \in [Id -> FileValue]
                /\ linked' \in [Request -> BOOLEAN]
                /\ vanished' \in [Request -> BOOLEAN]
    BY <2>0, <2>12 DEF delete_session, Types
  <2>13. CASE commit_destroyed(r)
    BY <2>12, <2>13 DEF commit_destroyed, Types
  <2>14. CASE destroy(r)
    <3>1. intended' \in [Id -> FileValue \ {Torn}]
      BY <2>0, <2>14 DEF destroy, Types
    <3> QED
      BY <2>12, <2>14, <3>1 DEF destroy, Types
  <2>15. CASE apply_to(r)
    <3>1. uuid[r] \in Id
      BY <2>15 DEF apply_to, Known, Types, Id
    <3> QED
      BY <2>15, <3>1 DEF apply_to, Types, Position
  <2>16. CASE delete_session_rescue(r)
    <3>1. uuid[r] \in Id
      BY <2>16 DEF delete_session_rescue, exists
    <3>2. intended' \in [Id -> FileValue \ {Torn}] /\ data' \in [Request -> SUBSET Item]
      BY <2>0, <2>16 DEF delete_session_rescue, Types
    <3> QED
      BY <2>16, <3>1, <3>2 DEF delete_session_rescue, Types
  <2> QED
    BY <1>3, <2>1, <2>2, <2>3, <2>4, <2>5, <2>6, <2>7, <2>8, <2>9, <2>10,
       <2>11, <2>13, <2>14, <2>15, <2>16
    DEF RequestStep
<1> QED
  BY <1>1, <1>2, <1>3, NextCases

LEMMA KnownStep == ASSUME Base, [Next]_vars PROVE Known'
<1> USE DEF sessionVars, historyVars, Base, Foreign, NoId
<1>0. generated \in Nat /\ \A i \in Id : i \in Int
  BY DEF Types, Id
<1>1. CASE UNCHANGED vars
  BY <1>1 DEF vars, Known
<1>2. CASE crash
  BY <1>2 DEF crash, Known, Types, Active, Loading, Saving, Ended
<1>3. ASSUME NEW r \in Request, RequestStep(r) PROVE Known'
  <2>1. ASSUME generated' \in Int, generated' >= generated,
               \A i \in Id : i = 0 \/ i > generated' => file'[i] = Absent,
               \A i \in jar' : i <= generated',
               cookie'[r] <= generated',
               pc'[r] \in Loading \cup Saving \cup {"app"}
                 => uuid'[r] \in 1 .. generated',
               \A q \in Request \ {r} :
                 pc'[q] = pc[q] /\ uuid'[q] = uuid[q] /\ cookie'[q] = cookie[q]
        PROVE  Known'
    <3>1. ASSUME NEW q \in Request
          PROVE  /\ cookie'[q] <= generated'
                 /\ pc'[q] \in Loading \cup Saving \cup {"app"}
                      => uuid'[q] \in 1 .. generated'
      <4>1. CASE q = r
        BY <2>1, <4>1
      <4>2. CASE q # r
        <5>1. /\ cookie'[q] \in Int /\ cookie'[q] <= generated
              /\ pc'[q] \in Loading \cup Saving \cup {"app"}
                   => uuid'[q] \in 1 .. generated
          BY <2>1, <4>2, <1>0 DEF Known, Types
        <5> QED
          BY <1>0, <2>1, <5>1
      <4> QED
        BY <4>1, <4>2
    <3> QED
      BY <2>1, <3>1 DEF Known
  <2>2. CASE start(r)
    BY <1>0, <2>1, <2>2 DEF start, Types, Known, Loading, Saving
  <2>3. CASE make_existing(r)
    <3>1. cookie[r] \in 1 .. generated
      BY <1>0, <2>3 DEF make_existing, exists, Known, Types, Id
    <3> QED
      BY <1>0, <2>1, <2>3, <3>1 DEF make_existing, Types, Known
  <2>4. ASSUME build(r), file' = file, jar' = jar, cookie' = cookie PROVE Known'
    <3>1. generated' = generated + 1 /\ uuid'[r] = generated + 1
      BY <2>4 DEF build, Types
    <3>2. \A i \in Id : i = 0 \/ i > generated' => file'[i] = Absent
      BY <1>0, <2>4, <3>1 DEF Known
    <3>3. \A i \in jar' : i <= generated'
      BY <1>0, <2>4, <3>1 DEF Known, Types
    <3>4. cookie'[r] <= generated'
      BY <1>0, <2>4, <3>1 DEF Known, Types
    <3>5. \A q \in Request \ {r} :
            pc'[q] = pc[q] /\ uuid'[q] = uuid[q] /\ cookie'[q] = cookie[q]
      BY <2>4 DEF build, Types
    <3> QED
      BY <1>0, <2>1, <3>1, <3>2, <3>3, <3>4, <3>5
  <2>5. CASE make_new(r)
    BY <2>4, <2>5 DEF make_new
  <2>6. CASE load(r)
    <3>1. CASE exists(uuid[r])
      BY <1>0, <2>1, <2>6, <3>1 DEF load, Types, Known, Loading
    <3>2. CASE ~exists(uuid[r])
      BY <2>4, <2>6, <3>2 DEF load
    <3> QED
      BY <3>1, <3>2
  <2>7. CASE session_data_exists(r)
    BY <1>0, <2>1, <2>7
    DEF session_data_exists, init_data, Types, Known, Loading
  <2>8. CASE session_data(r)
    BY <1>0, <2>1, <2>8 DEF session_data, init_data, Types, Known, Loading
  <2>9. CASE save_session_create(r) \/ save_session_store(r)
               \/ save_session_rescue(r)
    BY <1>0, <2>1, <2>9
    DEF save_session_create, save_session_store, save_session_rescue, Types,
        Known, Saving
  <2>10. ASSUME NEW v \in Item, remember(r, v) \/ forget(r, v) PROVE Known'
    BY <1>0, <2>1, <2>10 DEF remember, forget, Types, Known
  <2>11. CASE commit(r)
    BY <1>0, <2>1, <2>11 DEF commit, Types, Known
  <2>12. CASE commit_destroyed(r) \/ destroy(r)
    <3>1. file' = [file EXCEPT ![uuid[r]] = Absent]
      BY <2>12 DEF commit_destroyed, destroy, delete_session
    <3>2. \A i \in Id : i = 0 \/ i > generated => file'[i] = Absent
      BY <3>1 DEF Known, Types
    <3>3. /\ generated' = generated /\ jar' = jar /\ cookie' = cookie
          /\ uuid' = uuid /\ pc' = pc
      BY <2>12 DEF commit_destroyed, destroy
    <3> QED
      BY <1>0, <2>1, <3>2, <3>3 DEF Known
  <2>13. CASE apply_to(r)
    <3>1. uuid[r] \in 1 .. generated
      BY <2>13 DEF apply_to, Known
    <3> QED
      BY <1>0, <2>1, <2>13, <3>1
      DEF apply_to, Types, Known, Loading, Saving
  <2>14. CASE delete_session_rescue(r)
    BY <2>14 DEF delete_session_rescue, Known
  <2> QED
    BY <1>3, <2>2, <2>3, <2>5, <2>6, <2>7, <2>8, <2>9, <2>10, <2>11, <2>12,
       <2>13, <2>14
    DEF RequestStep
<1> QED
  BY <1>1, <1>2, <1>3, NextCases

LEMMA UntouchedStep == ASSUME Base, [Next]_vars PROVE Untouched'
<1> USE DEF sessionVars, historyVars, Base, Loading, Saving
<1>1. CASE UNCHANGED vars
  BY <1>1 DEF vars, Untouched
<1>2. CASE crash
  BY <1>2 DEF crash, Untouched, Types
<1>3. ASSUME NEW r \in Request, RequestStep(r) PROVE Untouched'
  <2>1. CASE \/ start(r) \/ make_existing(r) \/ make_new(r) \/ load(r)
             \/ session_data_exists(r)
    BY <2>1
    DEF start, make_existing, make_new, load, session_data_exists, build,
        init_data, Untouched, Types
  <2>2. CASE session_data(r)
    BY <2>2 DEF session_data, init_data, Untouched, Types
  <2>3. CASE \/ save_session_create(r) \/ save_session_store(r)
             \/ save_session_rescue(r) \/ apply_to(r)
    BY <2>3
    DEF save_session_create, save_session_store, save_session_rescue, apply_to,
        Untouched, Types
  <2>4. ASSUME NEW v \in Item, remember(r, v) \/ forget(r, v) PROVE Untouched'
    BY <2>4 DEF remember, forget, Untouched, Types
  <2>5. CASE commit(r) \/ commit_destroyed(r) \/ destroy(r) \/ delete_session_rescue(r)
    BY <2>5
    DEF commit, commit_destroyed, destroy, delete_session_rescue, Untouched, Types
  <2> QED
    BY <1>3, <2>1, <2>2, <2>3, <2>4, <2>5 DEF RequestStep
<1> QED
  BY <1>1, <1>2, <1>3, NextCases

LEMMA BaseInvariant == Spec => []Base
<1>1. Base /\ [Next]_vars => Base'
  BY TypesStep, KnownStep, UntouchedStep DEF Base
<1> QED
  BY <1>1, BaseInit, PTL DEF Spec

\* Every variable of the sessions keeps its type: the files hold an absent, a
\* truncated or a whole session, and only a whole one has entries.
THEOREM TypeCorrect == Spec => []TypeOK
<1>1. Base => TypeOK
  <2> SUFFICES ASSUME Base PROVE TypeOK
    OBVIOUS
  <2>1. \A f \in FileValue :
          /\ f \in [state: {"absent", "torn", "whole"}, data: SUBSET Item]
          /\ f.state # "whole" => f.data = {}
    BY DEF FileValue, Absent, Torn, Whole
  <2>2. /\ file \in [Id -> [state: {"absent", "torn", "whole"}, data: SUBSET Item]]
        /\ \A i \in Id : file[i].state # "whole" => file[i].data = {}
    BY <2>1 DEF Base, Types
  <2> QED
    BY <2>2 DEF Base, Types, TypeOK
<1> QED
  BY <1>1, BaseInvariant, PTL

--------------------------------------------------------------------------------
(* A request fails only when the file vanished under it.                   *)

LEMMA VanishedStep ==
  ASSUME Base, MissingVanished, FailsOnlyIfVanished, [Next]_vars
  PROVE  MissingVanished' /\ FailsOnlyIfVanished'
<1> USE DEF sessionVars, historyVars, Base, Loading, Saving
<1> DEFINE Good(q) ==
      /\ pc[q] \in Loading /\ file[uuid[q]] = Absent => vanished[q]
      /\ pc[q] = "failed" => vanished[q]
<1>0. \A q \in Request : Good(q)
  BY DEF MissingVanished, FailsOnlyIfVanished
<1>q. SUFFICES ASSUME NEW q \in Request PROVE Good(q)'
  BY DEF MissingVanished, FailsOnlyIfVanished
<1>1. CASE UNCHANGED vars
  BY <1>0, <1>1 DEF vars
<1>2. CASE crash
  BY <1>0, <1>2 DEF crash, Types
<1>3. ASSUME NEW r \in Request, RequestStep(r) PROVE Good(q)'
  <2>1. CASE start(r) \/ make_new(r)
    BY <1>0, <2>1 DEF start, make_new, build, Types
  <2>2. CASE make_existing(r)
    BY <1>0, <2>2 DEF make_existing, exists, Types
  <2>3. CASE load(r)
    BY <1>0, <2>3 DEF load, build, exists, Types
  <2>4. CASE session_data_exists(r)
    BY <1>0, <2>4 DEF session_data_exists, init_data, exists, Types
  <2>5. CASE session_data(r)
    <3>1. uuid[r] \in Id
      BY <2>5 DEF session_data, Known, Types, Id
    <3>2. file[uuid[r]].state \notin {"whole", "torn"} => file[uuid[r]] = Absent
      BY <3>1, FileFacts DEF Types, FileValue
    <3>3. /\ pc'[r] \in {"app", "truncate", "failed"}
          /\ pc'[r] = "failed" => file[uuid[r]] = Absent /\ pc[r] \in Loading
      BY <2>5, <3>2 DEF session_data, init_data, Types
    <3>4. \A p \in Request \ {r} : pc'[p] = pc[p]
      BY <2>5 DEF session_data, init_data, Types
    <3>5. file' = file /\ uuid' = uuid /\ vanished' = vanished
      BY <2>5 DEF session_data
    <3>6. CASE q = r
      BY <1>0, <3>3, <3>5, <3>6
    <3>7. CASE q # r
      BY <1>0, <3>4, <3>5, <3>7
    <3> QED
      BY <3>6, <3>7
  <2>6. CASE save_session_create(r)
    BY <1>0, <2>6, FileFacts DEF save_session_create, Types, Known, Id
  <2>7. CASE save_session_store(r)
    BY <1>0, <2>7, FileFacts DEF save_session_store, Types, Known, Id
  <2>8. CASE \/ save_session_rescue(r) \/ delete_session_rescue(r) \/ apply_to(r)
             \/ commit(r)
    BY <1>0, <2>8
    DEF save_session_rescue, delete_session_rescue, apply_to, commit, Types
  <2>9. ASSUME NEW v \in Item, remember(r, v) \/ forget(r, v) PROVE Good(q)'
    BY <1>0, <2>9 DEF remember, forget
  <2>10. CASE commit_destroyed(r) \/ destroy(r)
    <3>1. delete_session(r) /\ pc' = pc /\ uuid' = uuid
      BY <2>10 DEF commit_destroyed, destroy
    <3>2. vanished'[q] = (vanished[q] \/ (pc[q] \in Loading /\ uuid[q] = uuid[r]))
      BY <3>1 DEF delete_session
    <3>3. pc[q] \in Loading => uuid[q] \in Id
      BY DEF Known, Types, Id
    <3>4. pc[q] \in Loading /\ uuid[q] # uuid[r] => file'[uuid[q]] = file[uuid[q]]
      BY <3>1, <3>3 DEF delete_session, Types
    <3> QED
      BY <1>0, <3>1, <3>2, <3>4
  <2> QED
    BY <1>3, <2>1, <2>2, <2>3, <2>4, <2>5, <2>6, <2>7, <2>8, <2>9, <2>10
    DEF RequestStep
<1> QED
  BY <1>1, <1>2, <1>3, NextCases

\* Creating a session raises only when the file was deleted by another request
\* between the tests of make, load and session_data and open_read: a damaged
\* file is rescued to Void and never ends a request.
THEOREM OnlyVanishedFails == Spec => []FailsOnlyIfVanished
<1>1. Init => FailsOnlyIfVanished
  BY DEF Init, FailsOnlyIfVanished
<1>2. /\ Base /\ MissingVanished /\ FailsOnlyIfVanished /\ [Next]_vars
      => MissingVanished' /\ FailsOnlyIfVanished'
  BY VanishedStep
<1> QED
  BY <1>1, <1>2, BaseInit, BaseInvariant, PTL DEF Spec

--------------------------------------------------------------------------------
(* Truncated files.                                                        *)

LEMMA TornStep ==
  ASSUME Base, TornIsTransient, [Next]_vars
  PROVE  TornIsTransient'
<1> USE DEF sessionVars, historyVars, Base, Loading, Saving
<1> DEFINE Writes(q, i) == pc[q] = "store" /\ uuid[q] = i /\ linked[q]
<1>q. SUFFICES ASSUME NEW i \in Id, file'[i] = Torn
               PROVE  faults' > 0 \/ \E q \in Request : Writes(q, i)'
  BY DEF TornIsTransient
<1>0. file[i] = Torn => faults > 0 \/ \E q \in Request : Writes(q, i)
  BY DEF TornIsTransient
<1>1. CASE UNCHANGED vars
  BY <1>0, <1>1, <1>q DEF vars
<1>2. CASE crash \/ \E r \in Request : save_session_rescue(r) \/ delete_session_rescue(r)
  <2>1. faults \in 0 .. MaxFault
    BY DEF Types
  <2>2. CASE crash
    BY <2>1, <2>2 DEF crash
  <2>3. ASSUME NEW r \in Request, save_session_rescue(r) PROVE faults' > 0
    BY <2>1, <2>3 DEF save_session_rescue
  <2>4. ASSUME NEW r \in Request, delete_session_rescue(r) PROVE faults' > 0
    BY <2>1, <2>4 DEF delete_session_rescue
  <2> QED
    BY <1>2, <2>2, <2>3, <2>4
<1>3. ASSUME NEW r \in Request, RequestStep(r), ~save_session_rescue(r),
             ~delete_session_rescue(r)
      PROVE  faults' > 0 \/ \E q \in Request : Writes(q, i)'
  <2>0. faults' = faults
    BY <1>3
    DEF RequestStep, start, make_existing, make_new, load, session_data_exists,
        session_data, save_session_create, save_session_store, remember, forget,
        commit, commit_destroyed, destroy, apply_to
  <2>1. ASSUME file'[i] = file[i],
               \A q \in Request : Writes(q, i) => Writes(q, i)'
        PROVE  faults' > 0 \/ \E q \in Request : Writes(q, i)'
    BY <1>0, <1>q, <2>0, <2>1
  <2>2. ASSUME file' = file, linked' = linked, pc[r] # "store",
               \A q \in Request \ {r} : pc'[q] = pc[q] /\ uuid'[q] = uuid[q]
        PROVE  faults' > 0 \/ \E q \in Request : Writes(q, i)'
    BY <2>1, <2>2
  <2>3. CASE start(r) \/ make_existing(r) \/ make_new(r) \/ load(r)
    BY <2>2, <2>3 DEF start, make_existing, make_new, load, build, Types
  <2>4. CASE session_data_exists(r)
    BY <2>2, <2>4 DEF session_data_exists, init_data, Types
  <2>5. CASE session_data(r)
    BY <2>2, <2>5 DEF session_data, init_data, Types
  <2>6. CASE save_session_create(r)
    <3>1. CASE uuid[r] = i
      BY <2>6, <3>1 DEF save_session_create, Types
    <3>2. CASE uuid[r] # i
      BY <2>1, <2>6, <3>2 DEF save_session_create, Types
    <3> QED
      BY <3>1, <3>2
  <2>7. CASE save_session_store(r)
    <3>1. CASE linked[r] /\ uuid[r] = i
      BY <1>q, <2>7, <3>1, FileFacts DEF save_session_store, Types
    <3>2. CASE ~(linked[r] /\ uuid[r] = i)
      BY <2>1, <2>7, <3>2 DEF save_session_store, Types
    <3> QED
      BY <3>1, <3>2
  <2>8. CASE commit(r) \/ apply_to(r)
    BY <2>2, <2>8 DEF commit, apply_to, Types
  <2>9. ASSUME NEW v \in Item, remember(r, v) \/ forget(r, v)
        PROVE  faults' > 0 \/ \E q \in Request : Writes(q, i)'
    BY <2>2, <2>9 DEF remember, forget
  <2>10. CASE commit_destroyed(r) \/ destroy(r)
    <3>1. delete_session(r) /\ pc' = pc /\ uuid' = uuid
      BY <2>10 DEF commit_destroyed, destroy
    <3>2. uuid[r] # i
      BY <1>q, <3>1, FileFacts DEF delete_session, Types
    <3>3. file'[i] = file[i]
      BY <3>1, <3>2 DEF delete_session, Types
    <3>4. \A q \in Request : Writes(q, i) => Writes(q, i)'
      BY <3>1, <3>2 DEF delete_session, Uses, Types
    <3> QED
      BY <2>1, <3>3, <3>4
  <2> QED
    BY <1>3, <2>3, <2>4, <2>5, <2>6, <2>7, <2>8, <2>9, <2>10 DEF RequestStep
<1> QED
  BY <1>1, <1>2, <1>3, NextCases

\* However the saves and deletes of requests interleave, a file is found
\* truncated only while a request that will complete it holds it open, unless a
\* store failed or the server crashed.
THEOREM TruncationIsTransient == Spec => []TornIsTransient
<1>1. Init => TornIsTransient
  BY FileFacts DEF Init, TornIsTransient
<1>2. Base /\ TornIsTransient /\ [Next]_vars => TornIsTransient'
  BY TornStep
<1> QED
  BY <1>1, <1>2, BaseInvariant, PTL DEF Spec

--------------------------------------------------------------------------------
(* Dead identifiers.                                                       *)

LEMMA DeadStep ==
  ASSUME Base, [Next]_vars, NEW i \in Id, Dead(i)
  PROVE  Dead(i)'
<1> USE DEF sessionVars, historyVars, Base, Loading, Saving, Ended
<1>0. i \in Int /\ generated \in Int /\ i <= generated /\ file[i] = Absent
  BY DEF Id, Types, Dead
<1>u. \A q \in Request : Uses(q, i) => pc[q] = "make"
  BY DEF Dead
<1>1. CASE UNCHANGED vars
  BY <1>1 DEF vars, Dead, Uses, Active
<1>2. CASE crash
  BY <1>0, <1>u, <1>2 DEF crash, Dead, Uses, Active, Types
<1>3. ASSUME NEW r \in Request, RequestStep(r) PROVE Dead(i)'
  <2>1. ASSUME generated' \in Int, generated' >= generated, file'[i] = Absent,
               Uses(r, i)' => pc'[r] = "make",
               \A q \in Request \ {r} :
                 pc'[q] = pc[q] /\ cookie'[q] = cookie[q] /\ uuid'[q] = uuid[q]
        PROVE  Dead(i)'
    <3>1. \A q \in Request : Uses(q, i)' => pc'[q] = "make"
      BY <1>u, <2>1 DEF Uses, Active
    <3> QED
      BY <1>0, <2>1, <3>1 DEF Dead
  <2>2. pc[r] \in Loading \cup Saving \cup {"app"} => uuid[r] # i
    BY <1>u DEF Uses, Active
  <2>3. CASE start(r)
    BY <1>0, <2>1, <2>3 DEF start, Types
  <2>4. CASE make_existing(r)
    <3>1. cookie[r] # i
      BY <1>0, <2>4 DEF make_existing, exists
    <3> QED
      BY <1>0, <2>1, <2>4, <3>1 DEF make_existing, Uses, Types
  <2>5. ASSUME build(r), file' = file, cookie' = cookie PROVE Dead(i)'
    <3>1. uuid'[r] # i /\ generated' = generated + 1 /\ pc'[r] = "truncate"
      BY <1>0, <2>5 DEF build, Types
    <3>2. \A q \in Request \ {r} : pc'[q] = pc[q] /\ uuid'[q] = uuid[q]
      BY <2>5 DEF build, Types
    <3> QED
      BY <1>0, <2>1, <2>5, <3>1, <3>2 DEF Uses
  <2>6. CASE make_new(r)
    BY <2>5, <2>6 DEF make_new
  <2>7. CASE load(r)
    <3>1. CASE exists(uuid[r])
      BY <1>0, <2>1, <2>2, <2>7, <3>1 DEF load, Uses, Types
    <3>2. CASE ~exists(uuid[r])
      BY <2>5, <2>7, <3>2 DEF load
    <3> QED
      BY <3>1, <3>2
  <2>8. CASE session_data_exists(r)
    <3>1. /\ pc'[r] # "make"
          /\ \A q \in Request \ {r} : pc'[q] = pc[q]
      BY <2>8 DEF session_data_exists, init_data, Types
    <3> QED
      BY <1>0, <2>1, <2>2, <2>8, <3>1 DEF session_data_exists, Uses
  <2>9. CASE session_data(r)
    <3>1. /\ pc'[r] # "make"
          /\ \A q \in Request \ {r} : pc'[q] = pc[q]
      BY <2>9 DEF session_data, init_data, Types
    <3> QED
      BY <1>0, <2>1, <2>2, <2>9, <3>1 DEF session_data, Uses
  <2>10. CASE save_session_create(r)
    BY <1>0, <2>1, <2>2, <2>10 DEF save_session_create, Uses, Types
  <2>11. CASE save_session_store(r)
    <3>1. file'[i] = Absent
      BY <1>0, <2>2, <2>11 DEF save_session_store, Types
    <3>2. \A q \in Request \ {r} : pc'[q] = pc[q]
      BY <2>11 DEF save_session_store, Types
    <3> QED
      BY <1>0, <2>1, <2>2, <2>11, <3>1, <3>2 DEF save_session_store, Uses
  <2>12. CASE save_session_rescue(r) \/ commit(r)
    BY <1>0, <2>1, <2>2, <2>12 DEF save_session_rescue, commit, Uses, Types
  <2>16. CASE delete_session_rescue(r)
    BY <1>0, <2>1, <2>2, <2>16 DEF delete_session_rescue, Uses
  <2>13. CASE apply_to(r)
    BY <1>0, <2>1, <2>2, <2>13 DEF apply_to, Uses, Types
  <2>14. ASSUME NEW v \in Item, remember(r, v) \/ forget(r, v) PROVE Dead(i)'
    BY <1>0, <2>1, <2>2, <2>14 DEF remember, forget, Uses
  <2>15. CASE commit_destroyed(r) \/ destroy(r)
    <3>1. /\ delete_session(r) /\ pc[r] = "app"
          /\ pc' = pc /\ uuid' = uuid /\ cookie' = cookie /\ generated' = generated
      BY <2>15 DEF commit_destroyed, destroy
    <3>2. file'[i] = Absent
      BY <1>0, <2>2, <3>1 DEF delete_session, Types
    <3> QED
      BY <1>0, <2>1, <2>2, <3>1, <3>2 DEF Uses
  <2> QED
    BY <1>3, <2>3, <2>4, <2>6, <2>7, <2>8, <2>9, <2>10, <2>11, <2>12, <2>13,
       <2>14, <2>15, <2>16
    DEF RequestStep
<1> QED
  BY <1>1, <1>2, <1>3, NextCases

\* Once an identifier is dead (invented by a client, or its session destroyed,
\* and held by nobody) no sequence of requests brings a session under it back.
THEOREM DeadStaysDead == Spec => NotAdopted
<1>1. Base /\ [Next]_vars => \A i \in Id : Dead(i) => Dead(i)'
  BY DeadStep
<1> QED
  BY <1>1, BaseInvariant, PTL DEF Spec, NotAdopted

--------------------------------------------------------------------------------
(* A session used by one request at a time keeps what was committed.       *)

\* What one request does to another and to an identifier.
OthersSame(r, i) ==
  \A q \in Request \ {r} :
    /\ pc'[q] = pc[q] /\ cookie'[q] = cookie[q] /\ uuid'[q] = uuid[q]
    /\ data'[q] = data[q] /\ edited'[q] = edited[q]
    /\ is_destroyed'[q] = is_destroyed[q]
    /\ Uses(q, i) => linked'[q] = linked[q]

IdSame(i) == file'[i] = file[i] /\ intended'[i] = intended[i]

LEMMA KeptFrame ==
  ASSUME NEW r \in Request, NEW i \in Id, Kept(i), OthersSame(r, i),
         (\E q \in Request \ {r} : Uses(q, i)) => ~Uses(r, i)',
         Uses(r, i)' => Sound(r, i)',
         ~Uses(r, i) /\ ~Uses(r, i)' => IdSame(i),
         Uses(r, i) /\ ~Uses(r, i)' => file'[i] = intended'[i]
  PROVE  Kept(i)'
<1>1. \A q \in Request \ {r} : Uses(q, i)' = Uses(q, i)
  BY DEF OthersSame, Uses, Active
<1>2. \A p, q \in Request : Uses(p, i)' /\ Uses(q, i)' => p = q
  BY <1>1 DEF Kept
<1>3. (\A q \in Request : ~Uses(q, i)') => file'[i] = intended'[i]
  BY <1>1 DEF Kept, IdSame
<1>4. ASSUME NEW q \in Request, Uses(q, i)', q # r PROVE Sound(q, i)'
  <2>1. Uses(q, i) /\ ~Uses(r, i) /\ ~Uses(r, i)'
    BY <1>1, <1>4 DEF Kept
  <2>2. Sound(q, i) /\ IdSame(i)
    BY <2>1 DEF Kept
  <2> QED
    BY <1>4, <2>1, <2>2 DEF Sound, IdSame, OthersSame
<1> QED
  BY <1>2, <1>3, <1>4 DEF Kept

\* The same for a request that keeps its identifier.
LEMMA KeptWhileUsed ==
  ASSUME NEW r \in Request, NEW i \in Id, Kept(i), OthersSame(r, i),
         Uses(r, i)' = Uses(r, i),
         Uses(r, i) => Sound(r, i)',
         ~Uses(r, i) => IdSame(i)
  PROVE  Kept(i)'
BY KeptFrame DEF Kept

LEMMA KeptStep ==
  ASSUME Base, [Next]_vars, NEW i \in Id, i \notin disturbed', Kept(i)
  PROVE  Kept(i)'
<1> USE DEF sessionVars, historyVars, Base, Loading, Saving
<1>i. i \in Int /\ generated \in Int /\ file[i] \in FileValue
      /\ intended[i] \in FileValue \ {Torn}
  BY DEF Id, Types
<1>1. CASE UNCHANGED vars
  BY <1>1 DEF vars, Kept, Sound, Uses, Active
<1>2. CASE crash
  <2>1. \A q \in Request : ~Uses(q, i)
    BY <1>2 DEF crash
  <2>2. \A q \in Request : ~Uses(q, i)'
    BY <1>2, <2>1 DEF crash, Uses, Active, Ended, Types
  <2>3. IdSame(i)
    BY <1>2 DEF crash, IdSame
  <2> QED
    BY <2>1, <2>2, <2>3 DEF Kept, IdSame
<1>3. ASSUME NEW r \in Request, RequestStep(r) PROVE Kept(i)'
  <2> DEFINE Mid == Loading \cup Saving \cup {"app"}
  <2>0. /\ pc[r] \in Mid => Uses(r, i) = (uuid[r] = i)
        /\ pc[r] = "make" => Uses(r, i) = (cookie[r] = i)
        /\ pc[r] = "new" => ~Uses(r, i)
    BY DEF Uses, Active, Ended
  <2>1. Uses(r, i) => Sound(r, i)
    BY DEF Kept
  <2>2. ASSUME pc'[r] \in Mid, pc[r] \in Mid, uuid'[r] = uuid[r]
        PROVE  Uses(r, i)' = Uses(r, i)
    BY <2>2 DEF Uses, Active, Ended
  <2>3. CASE start(r)
    <3>1. PICK c \in jar :
            /\ cookie' = [cookie EXCEPT ![r] = c]
            /\ disturbed' = disturbed \cup
                 {j \in Id : j = c /\ \E q \in Request : Uses(q, j)}
      BY <2>3 DEF start
    <3>2. OthersSame(r, i) /\ IdSame(i)
      BY <2>3 DEF start, OthersSame, IdSame, Types
    <3>3. Uses(r, i)' = (c = i) /\ pc'[r] = "make"
      BY <2>3, <3>1 DEF start, Uses, Active, Ended, Types
    <3>4. c = i => \A q \in Request : ~Uses(q, i)
      BY <3>1
    <3>5. ~Uses(r, i)
      BY <2>0, <2>3 DEF start
    <3>6. Uses(r, i)' => Sound(r, i)'
      BY <3>2, <3>3, <3>4 DEF Kept, Sound, IdSame
    <3> QED
      BY <3>2, <3>3, <3>4, <3>5, <3>6, KeptFrame
  <2>4. CASE make_existing(r)
    <3>1. OthersSame(r, i) /\ IdSame(i)
      BY <2>4 DEF make_existing, OthersSame, IdSame, Types
    <3>2. pc'[r] = "load" /\ uuid'[r] = cookie[r] /\ pc[r] = "make"
          /\ exists(cookie[r])
      BY <2>4 DEF make_existing, Types
    <3>3. Uses(r, i)' = Uses(r, i)
      BY <2>0, <3>2 DEF Uses, Active, Ended
    <3>4. Uses(r, i) => Sound(r, i)'
      BY <2>0, <2>1, <3>1, <3>2 DEF Sound, IdSame, exists
    <3> QED
      BY <3>1, <3>3, <3>4, KeptWhileUsed
  <2>5. ASSUME build(r), cookie' = cookie, file' = file, linked' = linked,
               edited' = edited, is_destroyed' = is_destroyed,
               Uses(r, i) => file[i] = intended[i]
        PROVE  Kept(i)'
    <3>1. /\ pc'[r] = "truncate" /\ uuid'[r] = generated + 1 /\ data'[r] = {}
          /\ OthersSame(r, i)
      BY <2>5 DEF build, OthersSame, Types
    <3>2. Uses(r, i)' = (i = generated + 1)
      BY <3>1 DEF Uses, Active, Ended
    <3>3. i = generated + 1 => \A q \in Request : ~Uses(q, i)
      BY <1>i DEF Known, Uses, Active, Ended, Types, Position
    <3>4. i = generated + 1 => intended'[i] = Whole({})
      BY <2>5 DEF build, Types
    <3>5. i # generated + 1 => IdSame(i)
      BY <2>5 DEF build, IdSame, Types
    <3>6. Uses(r, i)' => Sound(r, i)'
      BY <3>1, <3>2, <3>4 DEF Sound
    <3>7. Uses(r, i) /\ ~Uses(r, i)' => file'[i] = intended'[i]
      BY <2>5, <3>2, <3>5 DEF IdSame
    <3> QED
      BY <3>1, <3>2, <3>3, <3>5, <3>6, <3>7, KeptFrame
  <2>6. CASE make_new(r)
    <3>1. Uses(r, i) => file[i] = intended[i]
      BY <2>1, <2>6 DEF make_new, Sound
    <3> QED
      BY <2>5, <2>6, <3>1 DEF make_new
  <2>7. CASE load(r)
    <3>1. CASE exists(uuid[r])
      <4>1. /\ OthersSame(r, i) /\ IdSame(i) /\ pc'[r] = "exists"
            /\ pc[r] = "load" /\ uuid'[r] = uuid[r]
        BY <2>7, <3>1 DEF load, OthersSame, IdSame, Types
      <4>2. Uses(r, i)' = Uses(r, i)
        BY <2>2, <4>1
      <4>3. Uses(r, i) => Sound(r, i)'
        BY <2>1, <4>1 DEF Sound, IdSame
      <4> QED
        BY <4>1, <4>2, <4>3, KeptWhileUsed
    <3>2. CASE ~exists(uuid[r])
      <4>1. ~Uses(r, i)
        BY <2>0, <2>1, <2>7, <3>2 DEF load, Sound, exists
      <4> QED
        BY <2>5, <2>7, <3>2, <4>1 DEF load
    <3> QED
      BY <3>1, <3>2
  <2>8. CASE session_data_exists(r)
    <3>1. /\ OthersSame(r, i) /\ IdSame(i) /\ pc[r] = "exists"
          /\ uuid'[r] = uuid[r] /\ pc'[r] \in {"retrieve", "truncate"}
          /\ exists(uuid[r]) => pc'[r] = "retrieve"
      BY <2>8 DEF session_data_exists, init_data, OthersSame, IdSame, Types
    <3>2. Uses(r, i)' = Uses(r, i)
      BY <2>2, <3>1
    <3>3. Uses(r, i) => Sound(r, i)'
      BY <2>0, <2>1, <3>1 DEF Sound, IdSame, exists
    <3> QED
      BY <3>1, <3>2, <3>3, KeptWhileUsed
  <2>9. CASE session_data(r)
    <3>0. Uses(r, i) => \E d \in SUBSET Item : file[i] = Whole(d)
      BY <1>i, <2>1, <2>9 DEF session_data, Sound, FileValue
    <3>1. OthersSame(r, i)
      BY <2>9 DEF session_data, init_data, OthersSame, Types
    <3>2. /\ IdSame(i) /\ pc[r] = "retrieve" /\ uuid'[r] = uuid[r]
          /\ edited' = edited /\ is_destroyed' = is_destroyed
      BY <2>9 DEF session_data, IdSame
    <3>3. CASE Uses(r, i)
      <4>1. PICK d \in SUBSET Item : file[i] = Whole(d)
        BY <3>0, <3>3
      <4>2. pc'[r] = "app" /\ data'[r] = d
        <5>1. file[uuid[r]].state = "whole" /\ file[uuid[r]].data = d
          <6>1. uuid[r] = i
            BY <2>0, <3>2, <3>3
          <6> QED
            BY <4>1, <6>1 DEF Whole
        <5>2. /\ data' = [data EXCEPT ![r] = file[uuid[r]].data]
              /\ pc' = [pc EXCEPT ![r] = "app"]
          BY <2>9, <5>1 DEF session_data
        <5> QED
          BY <5>1, <5>2 DEF Types
      <4>3. Uses(r, i)' = Uses(r, i)
        BY <2>2, <3>2, <4>2
      <4>4. Sound(r, i)'
        BY <2>1, <3>2, <3>3, <4>1, <4>2 DEF Sound, IdSame, Untouched
      <4> QED
        BY <3>1, <3>3, <4>3, <4>4, KeptWhileUsed
    <3>4. CASE ~Uses(r, i)
      <4>1. pc'[r] \in {"app", "truncate", "failed"}
        BY <2>9 DEF session_data, init_data, Types
      <4>2. ~Uses(r, i)'
        BY <2>0, <3>2, <3>4, <4>1 DEF Uses
      <4> QED
        BY <3>1, <3>2, <3>4, <4>2, KeptFrame
    <3> QED
      BY <3>3, <3>4
  <2>10. CASE save_session_create(r)
    <3>1. /\ OthersSame(r, i) /\ pc[r] = "truncate" /\ uuid'[r] = uuid[r]
          /\ pc'[r] = "store" /\ data'[r] = data[r] /\ linked'[r]
      BY <2>10 DEF save_session_create, OthersSame, Types
    <3>2. intended'[i] = intended[i] /\ (uuid[r] # i => IdSame(i))
      BY <2>10 DEF save_session_create, IdSame, Types
    <3>3. Uses(r, i)' = Uses(r, i)
      BY <2>2, <3>1
    <3>4. Uses(r, i) => Sound(r, i)'
      BY <2>1, <3>1, <3>2 DEF Sound
    <3> QED
      BY <2>0, <3>1, <3>2, <3>3, <3>4, KeptWhileUsed
  <2>11. CASE save_session_store(r)
    <3>1. /\ OthersSame(r, i) /\ pc[r] = "store" /\ uuid'[r] = uuid[r]
          /\ pc'[r] = "app" /\ data'[r] = data[r]
          /\ is_destroyed'[r] = is_destroyed[r] /\ edited'[r] = edited[r]
      BY <2>11 DEF save_session_store, OthersSame, Types
    <3>2. /\ intended'[i] = intended[i]
          /\ uuid[r] = i /\ linked[r] => file'[i] = Whole(data[r])
          /\ uuid[r] # i => IdSame(i)
      BY <2>11 DEF save_session_store, IdSame, Types
    <3>3. Uses(r, i)' = Uses(r, i)
      BY <2>2, <3>1
    <3>4. Uses(r, i) => Sound(r, i)'
      BY <2>0, <2>1, <3>1, <3>2 DEF Sound, Untouched
    <3> QED
      BY <2>0, <3>1, <3>2, <3>3, <3>4, KeptWhileUsed
  <2>12. CASE save_session_rescue(r)
    <3>1. /\ OthersSame(r, i) /\ IdSame(i) /\ pc[r] \in Saving
          /\ pc'[r] = "app" /\ uuid'[r] = uuid[r] /\ uuid[r] # i
      BY <2>12 DEF save_session_rescue, OthersSame, IdSame, Types
    <3>2. Uses(r, i)' = Uses(r, i) /\ ~Uses(r, i)
      BY <2>0, <2>2, <3>1
    <3> QED
      BY <3>1, <3>2, KeptWhileUsed
  <2>13. ASSUME NEW v \in Item, remember(r, v) \/ forget(r, v) PROVE Kept(i)'
    <3>1. /\ OthersSame(r, i) /\ IdSame(i) /\ pc[r] = "app" /\ pc'[r] = "app"
          /\ uuid'[r] = uuid[r] /\ edited'[r]
          /\ is_destroyed'[r] = is_destroyed[r]
      BY <2>13 DEF remember, forget, OthersSame, IdSame, Types
    <3>2. Uses(r, i)' = Uses(r, i)
      BY <2>2, <3>1
    <3>3. Uses(r, i) => Sound(r, i)'
      BY <2>1, <3>1 DEF Sound, IdSame
    <3> QED
      BY <3>1, <3>2, <3>3, KeptWhileUsed
  <2>14. CASE commit(r)
    <3>1. /\ OthersSame(r, i) /\ pc[r] = "app" /\ pc'[r] = "truncate"
          /\ uuid'[r] = uuid[r] /\ data'[r] = data[r]
      BY <2>14 DEF commit, OthersSame, Types
    <3>2. /\ uuid[r] = i => intended'[i] = Whole(data[r])
          /\ uuid[r] # i => IdSame(i)
      BY <2>14 DEF commit, IdSame, Types
    <3>3. Uses(r, i)' = Uses(r, i)
      BY <2>2, <3>1
    <3>4. Uses(r, i) => Sound(r, i)'
      BY <2>0, <3>1, <3>2 DEF Sound
    <3> QED
      BY <2>0, <3>1, <3>2, <3>3, <3>4, KeptWhileUsed
  <2>15. CASE commit_destroyed(r) \/ destroy(r)
    <3>1. /\ pc[r] = "app" /\ pc'[r] = "app" /\ uuid'[r] = uuid[r]
          /\ delete_session(r) /\ is_destroyed'[r]
      BY <2>15 DEF commit_destroyed, destroy, Types
    <3>2. Uses(r, i)' = Uses(r, i)
      BY <2>2, <3>1
    <3>3. \A q \in Request \ {r} : Uses(q, i) => ~Uses(q, uuid[r])
      BY <2>0, <3>1 DEF Kept, Uses
    <3>4. \A q \in Request \ {r} : Uses(q, i) => linked'[q] = linked[q]
      BY <3>1, <3>3 DEF delete_session, Types
    <3>5. OthersSame(r, i)
      BY <2>15, <3>4 DEF commit_destroyed, destroy, OthersSame, Types
    <3>6. /\ uuid[r] = i => file'[i] = Absent
          /\ uuid[r] # i => file'[i] = file[i]
      BY <3>1 DEF delete_session, Types
    <3>7. uuid[r] # i => IdSame(i)
      BY <2>15, <3>6 DEF commit_destroyed, destroy, IdSame, Types
    <3>8. uuid[r] = i => intended'[i] = Absent
      <4>1. CASE commit_destroyed(r)
        BY <2>0, <2>1, <3>1, <4>1 DEF commit_destroyed, Sound
      <4>2. CASE destroy(r)
        BY <4>2 DEF destroy, Types
      <4> QED
        BY <2>15, <4>1, <4>2
    <3>9. Uses(r, i) => Sound(r, i)'
      BY <2>0, <3>1, <3>6, <3>8 DEF Sound
    <3> QED
      BY <2>0, <3>1, <3>2, <3>5, <3>7, <3>9, KeptWhileUsed
  <2>16. CASE apply_to(r)
    <3>1. /\ OthersSame(r, i) /\ IdSame(i) /\ pc[r] = "app" /\ pc'[r] = "done"
      BY <2>16 DEF apply_to, OthersSame, IdSame, Types
    <3>2. ~Uses(r, i)'
      BY <3>1 DEF Uses, Active, Ended
    <3>3. Uses(r, i) => file'[i] = intended'[i]
      BY <2>1, <3>1 DEF Sound, IdSame
    <3> QED
      BY <3>1, <3>2, <3>3, KeptFrame
  <2>17. CASE delete_session_rescue(r)
    <3>1. /\ pc[r] = "app" /\ pc'[r] = "app" /\ uuid'[r] = uuid[r] /\ uuid[r] # i
          /\ OthersSame(r, i) /\ IdSame(i)
      BY <2>17 DEF delete_session_rescue, OthersSame, IdSame, Types
    <3>2. Uses(r, i)' = Uses(r, i) /\ ~Uses(r, i)
      BY <2>0, <2>2, <3>1
    <3> QED
      BY <3>1, <3>2, KeptWhileUsed
  <2> QED
    BY <1>3, <2>3, <2>4, <2>6, <2>7, <2>8, <2>9, <2>10, <2>11, <2>12, <2>13,
       <2>14, <2>15, <2>16, <2>17
    DEF RequestStep
<1> QED
  BY <1>1, <1>2, <1>3, NextCases

\* A session whose requests do not overlap and whose stores and deletes work holds
\* what was last committed to it, or stays deleted; the next request loads
\* exactly that, for every number of requests and every interleaving with
\* requests to other sessions.
THEOREM CommittedSessionIsKept == Spec => []SessionKept
<1>1. Init => KeptAll
  BY DEF Init, KeptAll, Kept, Uses, Active, Ended
<1>2. Base /\ KeptAll /\ [Next]_vars => KeptAll'
  <2> SUFFICES ASSUME Base, KeptAll, [Next]_vars, NEW i \in Id \ disturbed'
               PROVE  Kept(i)'
    BY DEF KeptAll
  <2>1. i \notin disturbed
    <3>1. disturbed \subseteq disturbed'
      BY NextCases
      DEF vars, sessionVars, historyVars, crash, RequestStep, start, make_existing,
          make_new, load, session_data_exists, session_data, save_session_create,
          save_session_store, save_session_rescue, remember, forget, commit,
          commit_destroyed, destroy, delete_session_rescue, apply_to
    <3> QED
      BY <3>1
  <2> QED
    BY <2>1, KeptStep DEF KeptAll
<1>3. KeptAll => SessionKept
  BY DEF KeptAll, Kept, Sound, SessionKept
<1> QED
  BY <1>1, <1>2, <1>3, BaseInvariant, PTL DEF Spec
================================================================================

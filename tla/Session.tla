-------------------------------- MODULE Session --------------------------------
(***************************************************************************)
(* Sessions kept in files: WSF_COOKIE_SESSION over WSF_FS_SESSION_MANAGER. *)
(* Requests that carry the same cookie run at the same time, in threads or *)
(* processes that share nothing but the files, and no lock protects a      *)
(* file: every test for existence, the truncation by create_read_write and *)
(* general_store are steps of their own.  A store may fail half-way, a     *)
(* delete may fail, and the server may crash at any step.                  *)
(*                                                                         *)
(* The entries of a session are a set of items; its expiration, loaded and *)
(* saved with them, counts as one more.                                    *)
(***************************************************************************)
EXTENDS Integers, FiniteSets

CONSTANTS
  Request,     \* the requests
  Item,        \* what may be remembered in a session
  MaxSession,  \* bound: identifiers the uuid generator gives out
  MaxFault     \* bound: failed stores, failed deletes and crashes

ASSUME SessionAssumption ==
  /\ IsFiniteSet(Request) /\ MaxFault \in Nat
  /\ MaxSession \in Nat /\ Cardinality(Request) < MaxSession

NoId == -1                  \* no cookie and no query parameter
Foreign == 0                \* an identifier no session ever had
Id == 0 .. MaxSession

VARIABLES
  file,       \* id -> the session file: "absent", "torn" (truncated) or "whole"
  generated,  \* identifiers generated so far
  pc,         \* position of each request
  cookie,     \* the identifier it came with
  uuid,       \* its session's identifier
  data,       \* its session's entries
  is_pending,
  is_destroyed,
  linked,     \* the file it has open still has its name
  jar,        \* the identifiers clients hold
  faults,
  intended,   \* history: what the application last asked to keep under an id
  disturbed,  \* history: ids used by two requests at once or hit by a fault
  vanished,   \* history: the session file was deleted while being loaded
  edited      \* history: the application changed its data since load or commit

sessionVars == <<cookie, uuid, data, is_pending, is_destroyed>>
historyVars == <<intended, disturbed, vanished, edited>>
vars == <<file, generated, pc, sessionVars, linked, jar, faults, historyVars>>

\* Positions of a request.
\*   make              session_exists of make
\*   load              session_exists of load
\*   exists            f.exists of session_data
\*   retrieve          open_read and retrieved
\*   truncate, store   save_session
\*   app               the application has the session
\*   done              answered
\*   failed, crashed   ended by an exception, or with the server
Position == {"new", "make", "load", "exists", "retrieve", "truncate", "store",
             "app", "done", "failed", "crashed"}
Loading == {"load", "exists", "retrieve"}
Saving == {"truncate", "store"}

Absent == [state |-> "absent", data |-> {}]
Torn == [state |-> "torn", data |-> {}]
Whole(d) == [state |-> "whole", data |-> d]

exists(i) == i \in Id /\ file[i] # Absent

Ended == {"done", "failed", "crashed"}
Active(r) == pc[r] \notin Ended \cup {"new"}
Uses(r, i) == Active(r) /\ i = IF pc[r] = "make" THEN cookie[r] ELSE uuid[r]

\* One session is there already, from requests before these.
Init ==
  /\ \E d \in SUBSET Item : file = [i \in Id |-> IF i = 1 THEN Whole(d) ELSE Absent]
  /\ generated = 1
  /\ pc = [r \in Request |-> "new"]
  /\ cookie = [r \in Request |-> NoId]
  /\ uuid = [r \in Request |-> NoId]
  /\ data = [r \in Request |-> {}]
  /\ is_pending = [r \in Request |-> FALSE]
  /\ is_destroyed = [r \in Request |-> FALSE]
  /\ linked = [r \in Request |-> FALSE]
  /\ jar = {NoId, Foreign, 1}
  /\ faults = 0
  /\ intended = file
  /\ disturbed = {}
  /\ vanished = [r \in Request |-> FALSE]
  /\ edited = [r \in Request |-> FALSE]

--------------------------------------------------------------------------------
(* The creation of the session                                             *)

\* A request comes, with the cookie or query parameter of a session or none.
start(r) ==
  /\ pc[r] = "new"
  /\ \E i \in jar :
       /\ cookie' = [cookie EXCEPT ![r] = i]
       /\ disturbed' = disturbed \cup
            {j \in Id : j = i /\ \E q \in Request : Uses(q, j)}
  /\ pc' = [pc EXCEPT ![r] = "make"]
  /\ UNCHANGED <<file, generated, uuid, data, is_pending, is_destroyed, linked,
                 jar, faults, intended, vanished, edited>>

\* build, up to its save: a fresh identifier and no data.
build(r) ==
  /\ generated < MaxSession
  /\ generated' = generated + 1
  /\ uuid' = [uuid EXCEPT ![r] = generated + 1]
  /\ data' = [data EXCEPT ![r] = {}]
  /\ intended' = [intended EXCEPT ![generated + 1] = Whole({})]
  /\ pc' = [pc EXCEPT ![r] = "truncate"]

make_existing(r) ==
  /\ pc[r] = "make"
  /\ exists(cookie[r])
  /\ uuid' = [uuid EXCEPT ![r] = cookie[r]]
  /\ pc' = [pc EXCEPT ![r] = "load"]
  /\ UNCHANGED <<file, generated, cookie, data, is_pending, is_destroyed, linked,
                 jar, faults, historyVars>>

\* Fault: the identifier of the cookie is kept for the new session.
make_new_adopts(r) ==
  /\ pc[r] = "make"
  /\ ~exists(cookie[r]) /\ cookie[r] # NoId
  /\ uuid' = [uuid EXCEPT ![r] = cookie[r]]
  /\ pc' = [pc EXCEPT ![r] = "truncate"]
  /\ UNCHANGED <<file, generated, cookie, data, is_pending, is_destroyed, linked, jar,
                 faults, historyVars>>

make_new(r) ==
  /\ pc[r] = "make"
  /\ ~exists(cookie[r])
  /\ is_pending' = [is_pending EXCEPT ![r] = TRUE]
  /\ build(r)
  /\ UNCHANGED <<file, cookie, is_destroyed, linked, jar, faults, disturbed,
                 vanished, edited>>

\* The second test, of load: a session that vanished is built anew, but is not
\* pending.
load(r) ==
  /\ pc[r] = "load"
  /\ IF exists(uuid[r])
     THEN /\ pc' = [pc EXCEPT ![r] = "exists"]
          /\ UNCHANGED <<generated, uuid, data, intended>>
     ELSE build(r)
  /\ UNCHANGED <<file, cookie, is_pending, is_destroyed, linked, jar, faults,
                 disturbed, vanished, edited>>

\* Void from session_data: init_data, then save under the same identifier.
init_data(r) ==
  /\ data' = [data EXCEPT ![r] = {}]
  /\ pc' = [pc EXCEPT ![r] = "truncate"]

\* The third test, of session_data.
session_data_exists(r) ==
  /\ pc[r] = "exists"
  /\ IF exists(uuid[r])
     THEN pc' = [pc EXCEPT ![r] = "retrieve"] /\ UNCHANGED data
     ELSE init_data(r)
  /\ UNCHANGED <<file, generated, cookie, uuid, is_pending, is_destroyed, linked,
                 jar, faults, historyVars>>

\* Fault: data_from_file lets the exception of retrieved through.
session_data_raises(r) ==
  /\ pc[r] = "retrieve"
  /\ IF file[uuid[r]].state = "whole"
     THEN /\ data' = [data EXCEPT ![r] = file[uuid[r]].data]
          /\ pc' = [pc EXCEPT ![r] = "app"]
     ELSE pc' = [pc EXCEPT ![r] = "failed"] /\ UNCHANGED data
  /\ UNCHANGED <<file, generated, cookie, uuid, is_pending, is_destroyed, linked,
                 jar, faults, historyVars>>

\* Fault: a file that is not whole is read again and again.
session_data_retries(r) ==
  /\ pc[r] = "retrieve" /\ file[uuid[r]].state = "whole"
  /\ data' = [data EXCEPT ![r] = file[uuid[r]].data]
  /\ pc' = [pc EXCEPT ![r] = "app"]
  /\ UNCHANGED <<file, generated, cookie, uuid, is_pending, is_destroyed, linked,
                 jar, faults, historyVars>>

\* open_read and data_from_file: what is not a whole object is rescued to Void;
\* open_read of a file that is gone raises, and nothing retries.
session_data(r) ==
  /\ pc[r] = "retrieve"
  /\ CASE file[uuid[r]].state = "whole" ->
            /\ data' = [data EXCEPT ![r] = file[uuid[r]].data]
            /\ pc' = [pc EXCEPT ![r] = "app"]
       [] file[uuid[r]].state = "torn" -> init_data(r)
       [] OTHER -> pc' = [pc EXCEPT ![r] = "failed"] /\ UNCHANGED data
  /\ UNCHANGED <<file, generated, cookie, uuid, is_pending, is_destroyed, linked,
                 jar, faults, historyVars>>

--------------------------------------------------------------------------------
(* The manager's writes                                                    *)

\* create_read_write creates the file or truncates it.
save_session_create(r) ==
  /\ pc[r] = "truncate"
  /\ file' = [file EXCEPT ![uuid[r]] = Torn]
  /\ linked' = [linked EXCEPT ![r] = TRUE]
  /\ pc' = [pc EXCEPT ![r] = "store"]
  /\ UNCHANGED <<generated, sessionVars, jar, faults, historyVars>>

\* Fault: a session without entries is not stored.
save_session_store_unless_empty(r) ==
  /\ pc[r] = "store"
  /\ file' = IF linked[r] /\ data[r] # {} THEN [file EXCEPT ![uuid[r]] = Whole(data[r])]
                                          ELSE file
  /\ pc' = [pc EXCEPT ![r] = "app"]
  /\ UNCHANGED <<generated, sessionVars, linked, jar, faults, historyVars>>

\* general_store and close; a file deleted meanwhile receives it without a name.
save_session_store(r) ==
  /\ pc[r] = "store"
  /\ file' = IF linked[r] THEN [file EXCEPT ![uuid[r]] = Whole(data[r])] ELSE file
  /\ pc' = [pc EXCEPT ![r] = "app"]
  /\ UNCHANGED <<generated, sessionVars, linked, jar, faults, historyVars>>

\* One of the two raises: the rescue clause hides it.
save_session_rescue(r) ==
  /\ pc[r] \in Saving /\ faults < MaxFault
  /\ faults' = faults + 1
  /\ disturbed' = disturbed \cup {uuid[r]}
  /\ pc' = [pc EXCEPT ![r] = "app"]
  /\ UNCHANGED <<file, generated, sessionVars, linked, jar, intended, vanished, edited>>

\* The file loses its name; descriptors open on it keep the nameless file.
delete_session(r) ==
  /\ file' = [file EXCEPT ![uuid[r]] = Absent]
  /\ linked' = [q \in Request |-> linked[q] /\ ~Uses(q, uuid[r])]
  /\ vanished' = [q \in Request |->
                    vanished[q] \/ (pc[q] \in Loading /\ uuid[q] = uuid[r])]

--------------------------------------------------------------------------------
(* The application                                                         *)

remember(r, v) ==
  /\ pc[r] = "app" /\ v \notin data[r]
  /\ data' = [data EXCEPT ![r] = @ \cup {v}]
  /\ edited' = [edited EXCEPT ![r] = TRUE]
  /\ UNCHANGED <<file, generated, pc, cookie, uuid, is_pending, is_destroyed, linked,
                 jar, faults, intended, disturbed, vanished>>

forget(r, v) ==
  /\ pc[r] = "app" /\ v \in data[r]
  /\ data' = [data EXCEPT ![r] = @ \ {v}]
  /\ edited' = [edited EXCEPT ![r] = TRUE]
  /\ UNCHANGED <<file, generated, pc, cookie, uuid, is_pending, is_destroyed, linked,
                 jar, faults, intended, disturbed, vanished>>

\* Fault: save_session does not look at is_destroyed.
commit_any(r) ==
  /\ pc[r] = "app"
  /\ pc' = [pc EXCEPT ![r] = "truncate"]
  /\ intended' = IF is_destroyed[r] THEN intended
                 ELSE [intended EXCEPT ![uuid[r]] = Whole(data[r])]
  /\ edited' = [edited EXCEPT ![r] = FALSE]
  /\ UNCHANGED <<file, generated, sessionVars, linked, jar, faults, disturbed, vanished>>

commit(r) ==
  /\ pc[r] = "app" /\ ~is_destroyed[r]
  /\ pc' = [pc EXCEPT ![r] = "truncate"]
  /\ intended' = [intended EXCEPT ![uuid[r]] = Whole(data[r])]
  /\ edited' = [edited EXCEPT ![r] = FALSE]
  /\ UNCHANGED <<file, generated, sessionVars, linked, jar, faults, disturbed, vanished>>

\* save_session of a destroyed session deletes it once more.
commit_destroyed(r) ==
  /\ pc[r] = "app" /\ is_destroyed[r] /\ exists(uuid[r])
  /\ delete_session(r)
  /\ UNCHANGED <<generated, pc, sessionVars, jar, faults, intended, disturbed, edited>>

destroy(r) ==
  /\ pc[r] = "app" /\ ~is_destroyed[r]
  /\ is_destroyed' = [is_destroyed EXCEPT ![r] = TRUE]
  /\ data' = [data EXCEPT ![r] = {}]
  /\ delete_session(r)
  /\ intended' = [intended EXCEPT ![uuid[r]] = Absent]
  /\ UNCHANGED <<generated, pc, cookie, uuid, is_pending, jar, faults, disturbed, edited>>

\* The delete of destroy raises: the rescue clause hides it, and the file stays.
delete_session_rescue(r) ==
  /\ pc[r] = "app" /\ ~is_destroyed[r] /\ exists(uuid[r]) /\ faults < MaxFault
  /\ is_destroyed' = [is_destroyed EXCEPT ![r] = TRUE]
  /\ data' = [data EXCEPT ![r] = {}]
  /\ intended' = [intended EXCEPT ![uuid[r]] = Absent]
  /\ faults' = faults + 1
  /\ disturbed' = disturbed \cup {uuid[r]}
  /\ UNCHANGED <<file, generated, pc, cookie, uuid, is_pending, linked, jar, vanished,
                 edited>>

\* apply_to and the response: the client holds the identifier, or drops it.
apply_to(r) ==
  /\ pc[r] = "app"
  /\ jar' = IF is_destroyed[r] THEN jar ELSE jar \cup {uuid[r]}
  /\ pc' = [pc EXCEPT ![r] = "done"]
  /\ UNCHANGED <<file, generated, sessionVars, linked, faults, historyVars>>

--------------------------------------------------------------------------------
\* The server dies with its requests; the files stay as they are.
crash ==
  /\ faults < MaxFault /\ \E r \in Request : Active(r)
  /\ faults' = faults + 1
  /\ disturbed' = disturbed \cup {i \in Id : \E r \in Request : Uses(r, i)}
  /\ pc' = [r \in Request |-> IF Active(r) THEN "crashed" ELSE pc[r]]
  /\ UNCHANGED <<file, generated, sessionVars, linked, jar, intended, vanished, edited>>

Step(r) ==
  \/ make_existing(r) \/ make_new(r) \/ load(r)
  \/ session_data_exists(r) \/ session_data(r)
  \/ save_session_create(r) \/ save_session_store(r)

App(r) ==
  \/ \E v \in Item : remember(r, v) \/ forget(r, v)
  \/ commit(r) \/ commit_destroyed(r) \/ destroy(r)

Next ==
  \/ \E r \in Request : start(r) \/ Step(r) \/ App(r) \/ apply_to(r)
                          \/ save_session_rescue(r) \/ delete_session_rescue(r)
  \/ crash

Spec == Init /\ [][Next]_vars

FairSpec == Spec /\ \A r \in Request : WF_vars(Step(r)) /\ SF_vars(apply_to(r))

--------------------------------------------------------------------------------
(* Properties                                                              *)

TypeOK ==
  /\ file \in [Id -> [state: {"absent", "torn", "whole"}, data: SUBSET Item]]
  /\ \A i \in Id : file[i].state # "whole" => file[i].data = {}
  /\ generated \in 0 .. MaxSession
  /\ pc \in [Request -> Position]
  /\ cookie \in [Request -> Id \cup {NoId}] /\ uuid \in [Request -> Id \cup {NoId}]
  /\ data \in [Request -> SUBSET Item]
  /\ is_pending \in [Request -> BOOLEAN] /\ is_destroyed \in [Request -> BOOLEAN]
  /\ linked \in [Request -> BOOLEAN]
  /\ jar \subseteq Id \cup {NoId}
  /\ faults \in 0 .. MaxFault
  /\ disturbed \subseteq Id

\* As long as requests to a session do not overlap and no store or delete fails, it holds
\* what the application last committed, or is gone for ever once destroyed, also
\* when the destroyed session is committed again; and the next request loads
\* exactly that.
SessionKept ==
  \A i \in Id \ disturbed :
    /\ (\A r \in Request : ~Uses(r, i)) => file[i] = intended[i]
    /\ \A r \in Request :
         Uses(r, i) /\ pc[r] = "app" /\ ~edited[r] /\ ~is_destroyed[r]
           => Whole(data[r]) = intended[i]

\* Requests that overlap never leave a truncated file behind: however their
\* saves and deletes interleave, some save that will complete it is under way.
TornIsTransient ==
  \A i \in Id : file[i] = Torn =>
    \/ faults > 0
    \/ \E r \in Request : pc[r] = "store" /\ uuid[r] = i /\ linked[r]

\* A damaged file never fails a request: creating the session raises only when
\* another request deleted the file between the tests and open_read.
FailsOnlyIfVanished == \A r \in Request : pc[r] = "failed" => vanished[r]

\* An identifier that was invented by a client, or whose session was destroyed,
\* and that no request holds but those that still have to test for the file.
Dead(i) ==
  /\ i <= generated /\ file[i] = Absent
  /\ \A r \in Request : Uses(r, i) => pc[r] = "make"

\* Such an identifier stays dead: no request that comes with it adopts it for
\* its new session, and the files never get its name back.
NotAdopted == [][\A i \in Id : Dead(i) => Dead(i)']_vars

\* Every request is answered, ends by an exception, or dies with the server.
Answered == \A r \in Request : (pc[r] = "make") ~> (pc[r] \in Ended)
================================================================================

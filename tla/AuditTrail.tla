----------------------------- MODULE AuditTrail -----------------------------
(***************************************************************************)
(* governance/audit.py: AuditTrailService over aiosqlite, with the         *)
(* db_path=":memory:" that governance/app.py gives it, so that every       *)
(* connection is a database of its own.                                    *)
(*                                                                         *)
(* A connection runs its statements in its own thread in the order in      *)
(* which they were issued.  Nothing else sees the database, so a statement *)
(* takes effect here when it is issued; the request resumes later, when    *)
(* other requests may have moved self._db to another connection.           *)
(***************************************************************************)
EXTENDS FiniteSets

CONSTANTS
  Writers,    \* requests that call log_event, each with an event of its own
  Readers     \* requests that call query

VARIABLES
  db,         \* self._db: who opened the connection, or "none"
  conns,      \* the database behind each connection
  req         \* where each request is suspended

vars == <<db, conns, req>>

Requests == Writers \cup Readers

ASSUME RequestsAssumption ==
  /\ Writers \cap Readers = {}
  /\ {"none", "startup"} \cap Requests = {}

\* "startup" is the connection of a request that ended before these arrived.
Connections == Requests \cup {"startup"}

\* What _ensure_db creates.
Schema ==
  {"audit_logs", "idx_audit_logs_event_type", "audit_log_no_update", "audit_log_no_delete"}

\* The awaits of _ensure_db after the connection, and of log_event and query.
SetUpPoints == Schema \cup {"schema_commit"}
Points == {"idle", "connect", "insert", "commit", "select", "done"} \cup SetUpPoints

\* A request remembers the connection _ensure_db returned, and a query its rows.
Request == [at : Points, on : Connections \cup {"none"}, rows : SUBSET Writers]

Database == [schema : SUBSET Schema, rows : SUBSET Writers]

TypeOK ==
  /\ db \in Connections \cup {"none"}
  /\ conns \in [Connections -> Database]
  /\ req \in [Requests -> Request]

-----------------------------------------------------------------------------
\* Request r issues the creation of s, if s is one, on connection d.
Create(r, d, s) ==
  /\ req' = [req EXCEPT ![r].at = s]
  /\ conns' = [conns EXCEPT ![d].schema = @ \cup (Schema \cap {s})]

\* The bodies of log_event and query on the connection _ensure_db returned.
Insert(r, d) ==
  /\ r \in Writers
  /\ req' = [req EXCEPT ![r].at = "insert", ![r].on = d]
  /\ conns' = [conns EXCEPT ![d].rows = @ \cup {r}]

Select(r, d) ==
  /\ r \in Readers
  /\ req' = [req EXCEPT ![r].at = "select", ![r].on = d, ![r].rows = conns[d].rows]
  /\ UNCHANGED conns

Work(r, d) == Insert(r, d) \/ Select(r, d)

Connect(r) ==
  /\ req' = [req EXCEPT ![r].at = "connect"]
  /\ UNCHANGED conns

\* Bug: _ensure_db has lost its test of self._db.
ArriveReconnecting(r) ==
  /\ req[r].at = "idle"
  /\ Connect(r)
  /\ UNCHANGED db

Arrive(r) ==
  /\ req[r].at = "idle"
  /\ \/ db = "none" /\ Connect(r)
     \/ db # "none" /\ Work(r, db)
  /\ UNCHANGED db

\* Bug: whoever connects second trusts the first to have created the schema.
ConnectedSecond(r) ==
  /\ req[r].at = "connect"
  /\ db' = r
  /\ \/ db = "none" /\ Create(r, r, "audit_logs")
     \/ db # "none" /\ Work(r, r)

\* Bug: the second connection is dropped, and its request with it.
ConnectedFirst(r) ==
  /\ req[r].at = "connect"
  /\ db = "none"
  /\ db' = r
  /\ Create(r, r, "audit_logs")

\* aiosqlite.connect returned: self._db is overwritten whatever it is by now.
Connected(r) ==
  /\ req[r].at = "connect"
  /\ db' = r
  /\ Create(r, r, "audit_logs")

\* The awaits of _ensure_db, in their order.
Following(s) ==
  CASE s = "audit_logs"                -> "idx_audit_logs_event_type"
    [] s = "idx_audit_logs_event_type" -> "audit_log_no_update"
    [] s = "audit_log_no_update"       -> "audit_log_no_delete"
    [] s = "audit_log_no_delete"       -> "schema_commit"

\* Every statement of _ensure_db reads self._db again.
SetUp(r) ==
  /\ req[r].at \in Schema
  /\ Create(r, db, Following(req[r].at))
  /\ UNCHANGED db

\* Bug: self._db is assigned last, when the schema is there.
ReadyAssigning(r) ==
  /\ req[r].at = "schema_commit"
  /\ Work(r, r)
  /\ db' = r

Ready(r) ==
  /\ req[r].at = "schema_commit"
  /\ Work(r, db)
  /\ UNCHANGED db

Inserted(r) ==
  /\ req[r].at = "insert"
  /\ req' = [req EXCEPT ![r].at = "commit"]
  /\ UNCHANGED <<db, conns>>

Answered(r) ==
  /\ req[r].at \in {"commit", "select"}
  /\ req' = [req EXCEPT ![r].at = "done"]
  /\ UNCHANGED <<db, conns>>

-----------------------------------------------------------------------------
Init ==
  /\ db \in {"none", "startup"}    \* a new process, or one that has been asked before
  /\ conns = [d \in Connections |-> [schema |-> IF d = db THEN Schema ELSE {}, rows |-> {}]]
  /\ req = [r \in Requests |-> [at |-> "idle", on |-> "none", rows |-> {}]]

Next ==
  \E r \in Requests :
    \/ Arrive(r) \/ Connected(r) \/ SetUp(r) \/ Ready(r) \/ Inserted(r) \/ Answered(r)

Proceed(r) == Connected(r) \/ SetUp(r) \/ Ready(r) \/ Inserted(r) \/ Answered(r)

\* Every statement returns; nobody has to send a request.
Spec == Init /\ [][Next]_vars /\ \A r \in Requests : WF_vars(Proceed(r))

-----------------------------------------------------------------------------
(* Properties *)

Acknowledged == {w \in Writers : req[w].at = "done"}

MissesNothing ==
  \A r \in Readers :
    req[r].at # "select" /\ req'[r].at = "select" => Acknowledged \subseteq req'[r].rows

\* "Immutable SQLite-backed audit trail with append-only enforcement": a query
\* returns every event whose log_event had returned when the rows were read.
QueriesMissNothing == [][MissesNothing]_vars

\* The same of a service that has been asked before: no request connects again.
OpenedBefore == conns["startup"].schema = Schema

OpenedTrailMissesNothing == [][OpenedBefore => MissesNothing]_vars

\* Events only leave the trail when a request that found no connection opens a
\* second one: otherwise self._db stays what it is and its rows are kept.
OnlyAppends ==
  db # "none" /\ (\A r \in Requests : req[r].at # "connect") =>
    db' = db /\ conns[db].rows \subseteq conns'[db].rows

AppendOnly == [][OnlyAppends]_vars

\* However many requests race to open the database, once none of them is in
\* _ensure_db the current database has its table, its index and both triggers.
EnforcementComplete ==
  db # "none" /\ (\A r \in Requests : req[r].at \notin SetUpPoints \cup {"connect"}) =>
    conns[db].schema = Schema

\* No request writes to or reads from a database without the table, so none fails
\* with "no such table".
TableBeforeUse ==
  \A r \in Requests :
    req[r].at \in {"insert", "commit", "select"} => "audit_logs" \in conns[req[r].on].schema

\* Every request that arrived is answered.
EveryRequestServed ==
  \A r \in Requests : req[r].at # "idle" ~> req[r].at = "done"
=============================================================================

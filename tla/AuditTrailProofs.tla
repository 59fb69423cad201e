-------------------------- MODULE AuditTrailProofs --------------------------
(***************************************************************************)
(* Proofs about AuditTrail, for any number of requests.  The inductive     *)
(* invariant follows the request that opened the current connection: it    *)
(* has issued there everything up to where it is suspended.                *)
(***************************************************************************)
EXTENDS AuditTrail, TLAPS

\* What a request that is past its connection has created, at point s.
Created(s) ==
  IF s = "audit_logs" THEN {"audit_logs"}
  ELSE IF s = "idx_audit_logs_event_type" THEN {"audit_logs", "idx_audit_logs_event_type"}
  ELSE IF s = "audit_log_no_update" THEN Schema \ {"audit_log_no_delete"}
  ELSE Schema

\* Whoever opened the current connection is past connecting, and has created there
\* what its position says.
OpenerSetsUp ==
  /\ db = "startup" => conns[db].schema = Schema
  /\ db \in Requests => /\ req[db].at \notin {"idle", "connect"}
                        /\ Created(req[db].at) \subseteq conns[db].schema

\* Nobody is inside _ensure_db unless there is a connection to set up.
SetUpHasConnection ==
  \A r \in Requests : req[r].at \notin {"idle", "connect"} => db # "none"

\* A statement of a request's own went to some connection.
UsesConnection ==
  \A r \in Requests : req[r].at \in {"insert", "commit", "select"} => req[r].on \in Connections

IInv == TypeOK /\ OpenerSetsUp /\ SetUpHasConnection /\ UsesConnection /\ TableBeforeUse

-----------------------------------------------------------------------------
\* Everything a request has created includes the table.
LEMMA CreatedTable == \A s : "audit_logs" \in Created(s) /\ Created(s) \subseteq Schema
  BY DEF Created, Schema

\* The next statement of _ensure_db adds what Created says.
LEMMA CreatedFollowing ==
  ASSUME NEW s \in Schema
  PROVE  /\ Following(s) \in SetUpPoints \ {"audit_logs"}
         /\ Created(Following(s)) = Created(s) \cup (Schema \cap {Following(s)})
  <1>1. CASE s = "audit_logs"
    BY <1>1 DEF Following, Created, Schema, SetUpPoints
  <1>2. CASE s = "idx_audit_logs_event_type"
    BY <1>2 DEF Following, Created, Schema, SetUpPoints
  <1>3. CASE s = "audit_log_no_update"
    BY <1>3 DEF Following, Created, Schema, SetUpPoints
  <1>4. CASE s = "audit_log_no_delete"
    BY <1>4 DEF Following, Created, Schema, SetUpPoints
  <1>5. QED
    BY <1>1, <1>2, <1>3, <1>4 DEF Schema

\* The first request finds nothing wrong.
LEMMA InitInv == Init => IInv
  BY RequestsAssumption
  DEF Init, IInv, TypeOK, OpenerSetsUp, SetUpHasConnection, UsesConnection, TableBeforeUse, Connections,
      Requests, Database, Request, Points

\* A request that goes on to its own statement on the current connection.
LEMMA WorkInv ==
  ASSUME IInv, NEW r \in Requests, Work(r, db), db' = db, db # "none",
         db = r => conns[db].schema = Schema
  PROVE  IInv'
  <1> USE RequestsAssumption DEF IInv
  <1>1. db \in Connections
    BY DEF TypeOK
  <1>2. /\ conns' \in [Connections -> Database]
        /\ \A d \in Connections : conns'[d].schema = conns[d].schema
    <2>1. CASE Insert(r, db)
      BY <1>1, <2>1 DEF TypeOK, Insert, Database
    <2>2. CASE Select(r, db)
      BY <2>2 DEF TypeOK, Select
    <2>3. QED
      BY <2>1, <2>2 DEF Work
  <1>3. /\ req' \in [Requests -> Request]
        /\ req'[r].at \in {"insert", "select"} /\ req'[r].on = db
        /\ \A q \in Requests \ {r} : req'[q] = req[q]
    <2>1. CASE Insert(r, db)
      BY <1>1, <2>1 DEF TypeOK, Insert, Request, Points
    <2>2. CASE Select(r, db)
      <3>1. conns[db].rows \in SUBSET Writers
        BY <1>1 DEF TypeOK, Database
      <3>2. QED
        BY <1>1, <2>2, <3>1 DEF TypeOK, Select, Request, Points
    <2>3. QED
      BY <2>1, <2>2 DEF Work
  <1>4. TypeOK'
    BY <1>1, <1>2, <1>3 DEF TypeOK
  <1>5. OpenerSetsUp'
    <2>1. db = "startup" => conns'[db].schema = Schema
      BY <1>1, <1>2 DEF OpenerSetsUp
    <2>2. ASSUME db \in Requests
          PROVE  req'[db].at \notin {"idle", "connect"} /\ Created(req'[db].at) \subseteq conns'[db].schema
      <3>1. CASE db = r
        BY <1>1, <1>2, <1>3, <3>1 DEF Created
      <3>2. CASE db # r
        BY <1>1, <1>2, <1>3, <2>2, <3>2 DEF OpenerSetsUp
      <3>3. QED
        BY <3>1, <3>2
    <2>3. QED
      BY <2>1, <2>2 DEF OpenerSetsUp
  <1>6. SetUpHasConnection'
    BY <1>3 DEF SetUpHasConnection
  <1>7. "audit_logs" \in conns[db].schema
    BY <1>1, CreatedTable DEF OpenerSetsUp, Connections, Schema
  <1>8. TableBeforeUse'
    <2> SUFFICES ASSUME NEW q \in Requests, req'[q].at \in {"insert", "commit", "select"}
                 PROVE  "audit_logs" \in conns'[req'[q].on].schema
      BY DEF TableBeforeUse
    <2>1. CASE q = r
      BY <1>1, <1>2, <1>3, <1>7, <2>1
    <2>2. CASE q # r
      <3>1. "audit_logs" \in conns[req[q].on].schema
        BY <1>3, <2>2 DEF TableBeforeUse
      <3>2. req[q].on \in Connections
        BY <1>3, <2>2 DEF UsesConnection
      <3>3. QED
        BY <1>2, <1>3, <2>2, <3>1, <3>2
    <2>3. QED
      BY <2>1, <2>2
  <1>9. UsesConnection'
    BY <1>1, <1>3 DEF UsesConnection
  <1>10. QED
    BY <1>4, <1>5, <1>6, <1>8, <1>9

\* A request that stays inside _ensure_db, whose statement creates s on connection d.
LEMMA CreateInv ==
  ASSUME IInv, NEW r \in Requests, NEW d \in Connections, NEW s \in SetUpPoints,
         Create(r, d, s), db' = d,
         d # "startup" => Created(req'[d].at) \subseteq conns'[d].schema,
         d = db \/ d = r
  PROVE  IInv'
  <1> USE RequestsAssumption DEF IInv
  <1>1. /\ conns' \in [Connections -> Database]
        /\ \A c \in Connections : conns[c].schema \subseteq conns'[c].schema
        /\ \A c \in Connections \ {d} : conns'[c] = conns[c]
    BY DEF TypeOK, Create, Database
  <1>2. /\ req' \in [Requests -> Request]
        /\ req'[r].at = s
        /\ \A q \in Requests \ {r} : req'[q] = req[q]
    BY DEF TypeOK, Create, Request, Points
  <1>3. TypeOK'
    BY <1>1, <1>2 DEF TypeOK
  <1>4. s \notin {"idle", "connect", "insert", "commit", "select"}
    BY DEF SetUpPoints, Schema
  <1>5. OpenerSetsUp'
    <2>1. d = "startup" => conns'[d].schema = Schema
      <3> SUFFICES ASSUME d = "startup"
                   PROVE  conns'[d].schema = Schema
        OBVIOUS
      <3>1. conns[d].schema = Schema
        BY DEF OpenerSetsUp, Requests
      <3>2. conns'[d].schema \subseteq Schema
        BY <1>1 DEF Database
      <3>3. QED
        BY <1>1, <3>1, <3>2
    <2>2. d \in Requests => req'[d].at \notin {"idle", "connect"}
      BY <1>2, <1>4 DEF OpenerSetsUp
    <2>3. "startup" \notin Requests
      BY DEF Requests
    <2>4. QED
      BY <2>1, <2>2, <2>3 DEF OpenerSetsUp
  <1>6. SetUpHasConnection'
    BY DEF SetUpHasConnection, Connections
  <1>7. TableBeforeUse'
    <2> SUFFICES ASSUME NEW q \in Requests, req'[q].at \in {"insert", "commit", "select"}
                 PROVE  "audit_logs" \in conns'[req'[q].on].schema
      BY DEF TableBeforeUse
    <2>1. q # r
      BY <1>2, <1>4
    <2>2. "audit_logs" \in conns[req[q].on].schema
      BY <1>2, <2>1 DEF TableBeforeUse
    <2>3. req[q].on \in Connections
      BY <1>2, <2>1 DEF UsesConnection
    <2>4. QED
      BY <1>1, <1>2, <2>1, <2>2, <2>3
  <1>8. UsesConnection'
    BY <1>2, <1>4 DEF UsesConnection
  <1>9. QED
    BY <1>3, <1>5, <1>6, <1>7, <1>8

\* A request that changes nothing but where it is suspended, and not to a statement.
LEMMA MoveInv ==
  ASSUME IInv, NEW r \in Requests, NEW s \in {"connect", "commit", "done"},
         req' = [req EXCEPT ![r].at = s], UNCHANGED <<db, conns>>,
         s = "connect" => req[r].at = "idle",
         s = "commit" => req[r].at = "insert",
         s = "done" => req[r].at \in {"commit", "select"}
  PROVE  IInv'
  <1> USE RequestsAssumption DEF IInv
  <1>1. /\ req' \in [Requests -> Request]
        /\ req'[r].at = s /\ req'[r].on = req[r].on
        /\ \A q \in Requests \ {r} : req'[q] = req[q]
    BY DEF TypeOK, Request, Points
  <1>2. TypeOK'
    BY <1>1 DEF TypeOK
  <1>3. OpenerSetsUp'
    <2>1. db = r => s # "connect" /\ Created(req[r].at) = Schema /\ Created(s) = Schema
      BY DEF OpenerSetsUp, Created
    <2>2. QED
      BY <1>1, <2>1 DEF OpenerSetsUp
  <1>4. SetUpHasConnection'
    BY <1>1 DEF SetUpHasConnection
  <1>5. UsesConnection'
    BY <1>1 DEF UsesConnection
  <1>6. TableBeforeUse'
    BY <1>1 DEF TableBeforeUse
  <1>7. QED
    BY <1>2, <1>3, <1>4, <1>5, <1>6

\* Every step preserves the invariant.
LEMMA NextInv == IInv /\ [Next]_vars => IInv'
  <1> SUFFICES ASSUME IInv, [Next]_vars
               PROVE  IInv'
    OBVIOUS
  <1> USE RequestsAssumption
  <1>1. CASE UNCHANGED vars
    BY <1>1 DEF vars, IInv, TypeOK, OpenerSetsUp, SetUpHasConnection, UsesConnection, TableBeforeUse
  <1>2. ASSUME NEW r \in Requests, Arrive(r)
        PROVE  IInv'
    <2>1. CASE db = "none"
      BY <1>2, <2>1, MoveInv DEF Arrive, Connect
    <2>2. CASE db # "none"
      <3>1. db # r
        BY <1>2 DEF Arrive, IInv, OpenerSetsUp
      <3>2. QED
        BY <1>2, <2>2, <3>1, WorkInv DEF Arrive
    <2>3. QED
      BY <2>1, <2>2
  <1>3. ASSUME NEW r \in Requests, Connected(r)
        PROVE  IInv'
    <2>1. r \in Connections /\ "audit_logs" \in SetUpPoints
      BY DEF Connections, SetUpPoints, Schema
    <2>2. /\ req'[r].at = "audit_logs"
          /\ "audit_logs" \in conns'[r].schema
      BY <1>3, <2>1 DEF Connected, Create, IInv, TypeOK, Request, Database, Schema
    <2>3. Created(req'[r].at) \subseteq conns'[r].schema
      BY <2>2 DEF Created
    <2>4. QED
      BY <1>3, <2>1, <2>3, CreateInv DEF Connected
  <1>4. ASSUME NEW r \in Requests, SetUp(r)
        PROVE  IInv'
    <2>1. /\ Following(req[r].at) \in SetUpPoints
          /\ Created(Following(req[r].at)) = Created(req[r].at) \cup (Schema \cap {Following(req[r].at)})
      BY <1>4, CreatedFollowing DEF SetUp
    <2>2. db \in Connections
      <3>1. req[r].at \notin {"idle", "connect"}
        BY <1>4 DEF SetUp, Schema
      <3>2. QED
        BY <3>1 DEF IInv, SetUpHasConnection, TypeOK
    <2>3. ASSUME db # "startup"
          PROVE  Created(req'[db].at) \subseteq conns'[db].schema
      <3>1. db \in Requests /\ Created(req[db].at) \subseteq conns[db].schema
        BY <2>2, <2>3 DEF IInv, OpenerSetsUp, Connections
      <3>2. conns'[db].schema = conns[db].schema \cup (Schema \cap {Following(req[r].at)})
        BY <1>4, <2>2 DEF SetUp, Create, IInv, TypeOK, Database
      <3>3. CASE db = r
        <4>1. req'[r].at = Following(req[r].at)
          BY <1>4 DEF SetUp, Create, IInv, TypeOK, Request
        <4>2. QED
          BY <2>1, <3>1, <3>2, <3>3, <4>1
      <3>4. CASE db # r
        <4>1. req'[db].at = req[db].at
          BY <1>4, <3>1, <3>4 DEF SetUp, Create, IInv, TypeOK, Request
        <4>2. QED
          BY <3>1, <3>2, <4>1
      <3>5. QED
        BY <3>3, <3>4
    <2>4. QED
      BY <1>4, <2>1, <2>2, <2>3, CreateInv DEF SetUp
  <1>5. ASSUME NEW r \in Requests, Ready(r)
        PROVE  IInv'
    <2>1. db # "none"
      BY <1>5 DEF Ready, IInv, SetUpHasConnection
    <2>2. db = r => conns[db].schema = Schema
      <3> SUFFICES ASSUME db = r
                   PROVE  conns[db].schema = Schema
        OBVIOUS
      <3>1. Created(req[db].at) = Schema
        BY <1>5 DEF Ready, Created
      <3>2. Schema \subseteq conns[db].schema
        BY <3>1 DEF IInv, OpenerSetsUp
      <3>3. conns[db].schema \subseteq Schema
        BY DEF IInv, TypeOK, Database, Connections
      <3>4. QED
        BY <3>2, <3>3
    <2>3. QED
      BY <1>5, <2>1, <2>2, WorkInv DEF Ready
  <1>6. ASSUME NEW r \in Requests, Inserted(r)
        PROVE  IInv'
    BY <1>6, MoveInv DEF Inserted
  <1>7. ASSUME NEW r \in Requests, Answered(r)
        PROVE  IInv'
    BY <1>7, MoveInv DEF Answered
  <1>8. QED
    BY <1>1, <1>2, <1>3, <1>4, <1>5, <1>6, <1>7 DEF Next

\* The invariant holds throughout.
LEMMA Invariance == Spec => []IInv
  BY InitInv, NextInv, PTL DEF Spec

\* The variables keep their types.
THEOREM AuditTypes == Spec => []TypeOK
  BY Invariance, PTL DEF IInv

\* No statement reaches a connection without the table.
THEOREM TableBeforeUseTheorem == Spec => []TableBeforeUse
  BY Invariance, PTL DEF IInv

\* Whatever the races of the first requests, the database they leave behind has
\* the triggers that make it append-only.
THEOREM EnforcementTheorem == Spec => []EnforcementComplete
  <1>1. IInv => EnforcementComplete
    <2> SUFFICES ASSUME IInv, db # "none",
                        \A r \in Requests : req[r].at \notin SetUpPoints \cup {"connect"}
                 PROVE  conns[db].schema = Schema
      BY DEF EnforcementComplete
    <2>1. CASE db = "startup"
      BY <2>1 DEF IInv, OpenerSetsUp
    <2>2. CASE db \in Requests
      <3>1. Created(req[db].at) = Schema
        BY <2>2 DEF Created, SetUpPoints, Schema
      <3>2. Created(req[db].at) \subseteq conns[db].schema
        BY <2>2 DEF IInv, OpenerSetsUp
      <3>3. conns[db].schema \subseteq Schema
        BY <2>2 DEF IInv, TypeOK, Database, Connections
      <3>4. QED
        BY <3>1, <3>2, <3>3
    <2>3. QED
      BY <2>1, <2>2 DEF IInv, TypeOK, Connections
  <1>2. QED
    BY <1>1, Invariance, PTL

\* Only a request that found no connection can replace the trail; every other step
\* keeps its rows.
THEOREM AppendOnlyTheorem == Spec => AppendOnly
  <1>1. IInv /\ [Next]_vars => OnlyAppends
    <2> SUFFICES ASSUME IInv, [Next]_vars, db # "none",
                        \A r \in Requests : req[r].at # "connect"
                 PROVE  db' = db /\ conns[db].rows \subseteq conns'[db].rows
      BY DEF OnlyAppends
    <2>1. db \in Connections
      BY DEF IInv, TypeOK
    <2>2. CASE UNCHANGED vars
      BY <2>2 DEF vars
    <2>3. ASSUME NEW r \in Requests, Work(r, db), db' = db
          PROVE  conns[db].rows \subseteq conns'[db].rows
      BY <2>1, <2>3 DEF Work, Insert, Select, IInv, TypeOK, Database
    <2>4. ASSUME NEW r \in Requests, SetUp(r)
          PROVE  conns[db].rows \subseteq conns'[db].rows
      BY <2>1, <2>4 DEF SetUp, Create, IInv, TypeOK, Database
    <2>5. QED
      BY <2>2, <2>3, <2>4
      DEF Next, Arrive, Connected, SetUp, Ready, Inserted, Answered
  <1>2. IInv /\ [Next]_vars => [OnlyAppends]_vars
    BY <1>1
  <1>3. QED
    BY <1>2, Invariance, PTL DEF Spec, AppendOnly

-----------------------------------------------------------------------------
\* With a database that is open already, every request stays on it, and what has
\* been acknowledged is there.
OneTrail ==
  /\ db = "startup"
  /\ \A r \in Requests : req[r].at \notin SetUpPoints \cup {"connect"}
  /\ \A w \in Writers : /\ req[w].at # "select"
                        /\ req[w].at \in {"insert", "commit", "done"} => w \in conns["startup"].rows

LEMMA OneTrailStep == IInv /\ OneTrail /\ [Next]_vars => OneTrail' /\ MissesNothing
  <1> SUFFICES ASSUME IInv, OneTrail, [Next]_vars
               PROVE  OneTrail' /\ MissesNothing
    OBVIOUS
  <1> USE RequestsAssumption
  <1>0. "startup" \in Connections
    BY DEF Connections
  <1>1. CASE UNCHANGED vars
    BY <1>1 DEF vars, OneTrail, MissesNothing
  <1>2. ASSUME NEW r \in Requests, Insert(r, "startup"), db' = db
        PROVE  OneTrail' /\ MissesNothing
    <2>1. conns'["startup"].rows = conns["startup"].rows \cup {r}
      BY <1>0, <1>2 DEF Insert, IInv, TypeOK, Database
    <2>2. req'[r].at = "insert" /\ \A q \in Requests \ {r} : req'[q] = req[q]
      BY <1>2 DEF Insert, IInv, TypeOK, Request
    <2>3. QED
      BY <1>2, <2>1, <2>2 DEF OneTrail, MissesNothing, Insert, Requests, SetUpPoints, Schema
  <1>3. ASSUME NEW r \in Requests, Select(r, "startup"), db' = db
        PROVE  OneTrail' /\ MissesNothing
    <2>1. /\ req'[r].at = "select" /\ req'[r].rows = conns["startup"].rows
          /\ \A q \in Requests \ {r} : req'[q] = req[q]
      BY <1>3 DEF Select, IInv, TypeOK, Request
    <2>2. Acknowledged \subseteq conns["startup"].rows
      BY DEF Acknowledged, OneTrail
    <2>3. QED
      BY <1>3, <2>1, <2>2 DEF OneTrail, MissesNothing, Select, Requests, SetUpPoints, Schema
  <1>4. ASSUME NEW r \in Requests, Inserted(r) \/ Answered(r)
        PROVE  OneTrail' /\ MissesNothing
    <2>1. /\ UNCHANGED <<db, conns>>
          /\ req'[r].at \in {"commit", "done"}
          /\ r \in Writers => req[r].at \in {"insert", "commit", "select"}
          /\ \A q \in Requests \ {r} : req'[q] = req[q]
      BY <1>4 DEF Inserted, Answered, IInv, TypeOK, Request
    <2>2. req[r].at = "select" => r \notin Writers
      BY DEF OneTrail
    <2>3. QED
      BY <2>1, <2>2 DEF OneTrail, MissesNothing, Requests, SetUpPoints, Schema
  <1>5. QED
    BY <1>1, <1>2, <1>3, <1>4
    DEF Next, Arrive, Connected, SetUp, Ready, Work, OneTrail, SetUpPoints

\* A database that no request has opened before stays untouched, and no request
\* goes to it.
ClosedTrail == db # "startup" /\ conns["startup"].schema = {}

LEMMA ClosedTrailStep == IInv /\ ClosedTrail /\ [Next]_vars => ClosedTrail'
  <1> SUFFICES ASSUME IInv, ClosedTrail, [Next]_vars
               PROVE  ClosedTrail'
    OBVIOUS
  <1> USE RequestsAssumption
  <1>1. CASE UNCHANGED vars
    BY <1>1 DEF vars, ClosedTrail
  <1>2. ASSUME NEW r \in Requests, NEW d \in Requests, NEW s, Create(r, d, s), db' = d
        PROVE  ClosedTrail'
    BY <1>2 DEF Create, ClosedTrail, IInv, TypeOK, Connections
  <1>3. ASSUME NEW r \in Requests, Work(r, db), db' = db
        PROVE  ClosedTrail'
    BY <1>3 DEF Work, Insert, Select, ClosedTrail, IInv, TypeOK, Connections
  <1>4. ASSUME NEW r \in Requests, SetUp(r)
        PROVE  ClosedTrail'
    <2>1. db \in Requests
      BY <1>4 DEF SetUp, Schema, ClosedTrail, IInv, SetUpHasConnection, TypeOK, Connections
    <2>2. QED
      BY <1>2, <1>4, <2>1 DEF SetUp
  <1>5. ASSUME NEW r \in Requests, UNCHANGED <<db, conns>>
        PROVE  ClosedTrail'
    BY <1>5 DEF ClosedTrail
  <1>6. QED
    BY <1>1, <1>2, <1>3, <1>4, <1>5
    DEF Next, Arrive, Connect, Connected, Ready, Inserted, Answered

\* A service that has been asked before loses no event: every query returns what
\* had been acknowledged when it read the rows.
THEOREM OpenedTrailTheorem == Spec => OpenedTrailMissesNothing
  <1>1. Init => OneTrail \/ ClosedTrail
    BY RequestsAssumption
    DEF Init, OneTrail, ClosedTrail, Requests, Connections, SetUpPoints, Schema
  <1>2. ClosedTrail => ~OpenedBefore
    BY DEF ClosedTrail, OpenedBefore, Schema
  <1>3. IInv /\ (OneTrail \/ ClosedTrail) /\ [Next]_vars =>
          (OneTrail \/ ClosedTrail)' /\ [OpenedBefore => MissesNothing]_vars
    BY <1>2, OneTrailStep, ClosedTrailStep
  <1>4. QED
    BY <1>1, <1>3, Invariance, PTL DEF Spec, OpenedTrailMissesNothing
=============================================================================

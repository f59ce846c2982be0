--------------------------- MODULE InstanceTable ----------------------------
(***************************************************************************)
(* pkg/dao under the handlers of SerialPlatform: the `instances` table by  *)
(* its columns, which the four statements address by position, and the     *)
(* pool of database/sql, of which a goroutine takes a connection for every *)
(* statement and waits while there is none.                                *)
(***************************************************************************)
EXTENDS SerialPlatform

CONSTANTS
  Columns,      \* the columns of `instances`, in the order of db.sql
  InsertNames,  \* the columns _insertSQL names
  MysqlActive,  \* --mysql-active-connections; 0 is no limit
  Null          \* what a column holds that no statement has set

VARIABLES
  table,  \* key -> column -> value, or NoRow
  conn,   \* w holds a connection
  inUse   \* connections the pool has handed out

tvars == <<vars, table, conn, inUse>>

-----------------------------------------------------------------------------
(* The columns.  db.sql and pkg/dao differ (run insert); where they have to *)
(* agree for the statements to be taken, Columns and InsertNames are what   *)
(* they mean.                                                               *)

ColumnsOfDbSql == <<"instance_id", "instance_name", "service_id", "service_name",
                    "plan_id", "namesapce", "organization_guid", "space_guid",
                    "parameters", "yaml", "created_at", "updated_at">>

\* The namespace spelt as pkg/dao spells it.
ColumnsMeant   == <<"instance_id", "instance_name", "service_id", "service_name",
                    "plan_id", "namespace", "organization_guid", "space_guid",
                    "parameters", "yaml", "created_at", "updated_at">>

InsertOfDao == <<"instance_id", "service_id", "service_name", "plan_id", "namespace",
                 "organization_guid", "space_guid", "parameters", "yaml",
                 "created_at", "updated_at">>

\* With the column _insertSQL lacks where its argument is.
InsertMeant == <<"instance_id", "service_id", "instance_name", "service_name", "plan_id",
                 "namespace", "organization_guid", "space_guid", "parameters", "yaml",
                 "created_at", "updated_at">>

-----------------------------------------------------------------------------
(* The statements.  Parameters are bound, and results scanned, by position. *)

\* The fields of Instance bound to the placeholders of _insertSQL.
InsertArgs == <<"InstanceID", "ServiceID", "InstanceName", "ServiceName", "PlanID",
                "Namespace", "OrganizationGUID", "SpaceGUID", "Parameters", "Yaml",
                "Now", "Now">>

\* What _updateSQL sets.
UpdateArgs == [plan_id |-> "PlanID", parameters |-> "Parameters", yaml |-> "Yaml",
               updated_at |-> "Now"]

\* Variant with a fault: the namespace is scanned one column late.
ScanShifted == <<"InstanceID", "ServiceID", "InstanceName", "ServiceName", "PlanID",
                 "OrganizationGUID", "Namespace", "SpaceGUID", "Parameters", "Yaml",
                 "CreatedAt", "UpdatedAt">>

\* The fields SelectInstance scans a row of SELECT * into.
ScanTargets == <<"InstanceID", "ServiceID", "InstanceName", "ServiceName", "PlanID",
                 "Namespace", "OrganizationGUID", "SpaceGUID", "Parameters", "Yaml",
                 "CreatedAt", "UpdatedAt">>

\* created_at and updated_at may be NULL.
Elements(s) == {s[i] : i \in DOMAIN s}
NotNull     == Elements(Columns) \ {"created_at", "updated_at"}

\* MySQL checks the statement against the table before it looks at any value.
Accepted ==
  /\ Len(InsertNames) = Len(InsertArgs)
  /\ NotNull \subseteq Elements(InsertNames)
  /\ Elements(InsertNames) \subseteq Elements(Columns)

ASSUME ColumnsAssumption == InsertNames \in Seq(STRING) /\ Columns \in Seq(STRING)
ASSUME AcceptAssumption  == InsertAccepted = Accepted
ASSUME ActiveAssumption  == MysqlActive \in Nat

\* Instance as Provision fills it; fields that no handler reads back are their
\* own names.
Instance(r, yaml) ==
  [f \in Elements(InsertArgs) |->
     CASE f = "InstanceID" -> r.id   [] f = "Namespace" -> NamespaceOf[r.name]
       [] f = "PlanID"     -> r.plan [] f = "Yaml"      -> yaml
       [] OTHER -> f]

\* What a statement may bind to a column; no row made of it is the sentinel.
Values == Elements(InsertArgs) \cup Ids \cup Plans \cup
          {NamespaceOf[n] : n \in Names} \cup [name: Names, label: Labels]

StoredRow == [Elements(Columns) -> Values \cup {Null}]

ASSUME StoredAssumption == NoRow \notin StoredRow /\ Null \notin Values

Position(s, x) == CHOOSE i \in DOMAIN s : s[i] = x

\* A column that the statement does not name is left NULL.
Inserted(i) ==
  [c \in Elements(Columns) |->
     IF c \in Elements(InsertNames) THEN i[InsertArgs[Position(InsertNames, c)]]
                                    ELSE Null]

Updated(t, i) ==
  [c \in Elements(Columns) |-> IF c \in DOMAIN UpdateArgs THEN i[UpdateArgs[c]] ELSE t[c]]

Scanned(t) ==
  [f \in Elements(ScanTargets) |-> t[Columns[Position(ScanTargets, f)]]]

\* What w's statement writes, when it takes effect.
Stored(w) ==
  LET i == Instance(req[w], Rendered(w)) IN
  CASE pc[w] = "insert"     -> Inserted(i)
    [] pc[w] = "update_row" -> Updated(table[KeyOf[req[w].id]], i)
    [] pc[w] = "delete_row" -> NoRow

Execute(w) ==
  table' = IF rows' = rows THEN table
           ELSE [table EXCEPT ![KeyOf[req[w].id]] = Stored(w)]

-----------------------------------------------------------------------------
(* The pool *)

Statements == {"select", "insert", "delete_row", "update_row"}

\* DB.conn: an idle connection, a new one, or none while all are in use.
Connect(w) ==
  /\ pc[w] \in Statements /\ ~conn[w]
  /\ MysqlActive = 0 \/ inUse < MysqlActive
  /\ conn'  = [conn EXCEPT ![w] = TRUE]
  /\ inUse' = inUse + 1
  /\ UNCHANGED <<vars, table>>

\* Scan cannot put a NULL into a string.
ScanFails(w) ==
  LET t == table[KeyOf[req[w].id]] IN
  pc[w] = "select" /\ t # NoRow /\ \E c \in DOMAIN t : t[c] = Null

\* Variant with a fault: SelectInstance returns from its loop at the first row.
ReleaseUnlessFound(w) ==
  /\ conn'  = [conn EXCEPT ![w] = FALSE]
  /\ inUse' = IF pc[w] = "select" /\ RowOf(w) # NoRow THEN inUse
              ELSE inUse - (IF conn[w] THEN 1 ELSE 0)

\* Exec gives its connection back when it returns, Query when Next has returned
\* false, which is where the loop of SelectInstance ends; its return from the
\* loop, when Scan fails, leaves the rows open and the connection in use.
Release(w) ==
  /\ conn'  = [conn EXCEPT ![w] = FALSE]
  /\ inUse' = IF conn[w] /\ ~ScanFails(w) THEN inUse - 1 ELSE inUse

\* A step A of w's handler: a statement needs a connection, and a row that does
\* not scan is an error of the SELECT.
With(w, A) ==
  /\ pc[w] \in Statements => conn[w]
  /\ IF ScanFails(w) THEN SelectFails(w) ELSE A
  /\ Execute(w) /\ Release(w)

Receive(w, r) == SerialArrive(w, r) /\ UNCHANGED <<table, conn, inUse>>

\* The process starts again with a pool of its own.
Restart ==
  /\ Crash /\ UNCHANGED table
  /\ conn' = [w \in Workers |-> FALSE] /\ inUse' = 0

TableInit ==
  /\ Init
  /\ table = [k \in Keys |-> NoRow]
  /\ conn = [w \in Workers |-> FALSE] /\ inUse = 0

TableNext ==
  \/ \E w \in Workers, r \in Requests : Receive(w, r)
  \/ \E w \in Workers : Connect(w) \/ With(w, Handle(w))
  \/ Restart

TableSpec == TableInit /\ [][TableNext]_tvars

\* Every goroutine is scheduled, every call returns, with an error or not, and
\* who waits for a connection gets one as long as some are given back;
\* the platform retries a Deprovision for as long as it is not answered 200
\* or 410; a call made again and again succeeds again and again, though it
\* may fail, and the process exit, any number of times in between.
Succeeds(r, A(_)) == \E w \in Workers : req[w] = r /\ ~ScanFails(w) /\ With(w, A(w))

Fairness ==
  /\ \A w \in Workers : WF_tvars(With(w, Handle(w))) /\ SF_tvars(Connect(w))
  /\ \A r \in {q \in Requests : q.op = "deprovision"} :
       /\ SF_tvars(\E w \in Workers : Receive(w, r))
       /\ SF_tvars(Succeeds(r, DeprovisionSelect))
       /\ \A i \in Slots :
            SF_tvars(Succeeds(r, LAMBDA w : DeleteObject(w) /\ i \in todo[w]
                                            /\ i \notin todo'[w]))
       /\ SF_tvars(Succeeds(r, ObjectsDeleted))
       /\ SF_tvars(Succeeds(r, DeleteRow))

FairSpec == TableSpec /\ Fairness /\ <>[][~Restart]_tvars

-----------------------------------------------------------------------------
(* Properties *)

\* What a handler or a plugin gets when it reads a row back is what the last
\* statement about it was given, though INSERT, UPDATE, Scan and the table
\* each have an order of columns of their own: in the fields that the handlers
\* read (InstanceName and ServiceID are exchanged by Scan, and read by none).
ReadsBack ==
  \A k \in Keys :
    /\ (table[k] = NoRow) <=> (rows[k] = NoRow)
    /\ rows[k] # NoRow =>
         LET i == Scanned(table[k]) IN
           /\ i["InstanceID"] = rows[k].id /\ i["Namespace"] = rows[k].ns
           /\ i["PlanID"] = rows[k].plan   /\ i["Yaml"] = rows[k].yaml
           /\ i["ServiceName"] = "ServiceName"

\* Every request is answered or cut off by an exit, however few connections
\* there are: no goroutine waits for one while it keeps another.
Answered ==
  \A w \in Workers : pc[w] \notin {"idle", "done"} ~> pc[w] \in {"idle", "done"}

\* Deprovision converges: however often it fails midway or is killed, retries
\* bring a recorded instance to where neither row nor object is left.
EventuallyReleased ==
  \A k \in Keys, n \in Names :
    (rows[k] # NoRow /\ rows[k].yaml.name = n)
      ~> (rows[k] = NoRow /\ \A i \in Slots : ~Live(<<n, i>>))
=============================================================================

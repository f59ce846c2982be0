------------------------- MODULE InstanceTableProofs ------------------------
(***************************************************************************)
(* Proofs about InstanceTable, for every value of its constants: that the  *)
(* handlers on the real table and pool are those of SerialPlatform, what   *)
(* the columns mean to a reader, and that every row can be read.           *)
(***************************************************************************)
EXTENDS InstanceTable, BrokerProofs

-----------------------------------------------------------------------------
(* The table and the pool add no step to those of SerialPlatform. *)

LEMMA WithHandles ==
  ASSUME NEW w, With(w, Handle(w)) PROVE Handle(w) /\ Execute(w)
BY DEF With, Handle

LEMMA TableStep == [TableNext]_tvars => [SerialNext]_vars
BY WithHandles DEF TableNext, tvars, Receive, Connect, Restart, SerialNext

\* What is proved of SerialSpec holds of the broker on its table.
THEOREM TableImplementsSerial == TableSpec => SerialSpec
<1>1. TableInit => Init
  BY DEF TableInit
<1> QED
  BY <1>1, TableStep, PTL DEF TableSpec, SerialSpec

LEMMA SerialIsNext == [SerialNext]_vars => [Next]_vars
BY DEF SerialNext, SerialArrive, Next

\* So do its types, and what each goroutine knows of its request.
THEOREM TableTypes == TableSpec => []Inv
BY TableImplementsSerial, SerialIsNext, InvInit, InvNext, PTL DEF SerialSpec

-----------------------------------------------------------------------------
(* The columns *)

\* The column that Scan reads field f from, and the field that INSERT binds to
\* that column.
Source(f) == Columns[Position(ScanTargets, f)]
Shows(f)  == InsertArgs[Position(InsertNames, Source(f))]

UpdateFields == {"PlanID", "Yaml"}

\* INSERT sets the column that f is read from, and UPDATE means the same by it.
Settled(f) ==
  /\ Source(f) \in Elements(Columns) \cap Elements(InsertNames)
  /\ Position(InsertNames, Source(f)) \in DOMAIN InsertArgs
  /\ Source(f) \in DOMAIN UpdateArgs => UpdateArgs[Source(f)] = Shows(f)
  /\ Shows(f) \in UpdateFields => Source(f) \in DOMAIN UpdateArgs

\* Row r as the fields of Instance that were bound for it.
Fields(r) ==
  [f \in Elements(InsertArgs) |->
     CASE f = "InstanceID" -> r.id   [] f = "Namespace" -> r.ns
       [] f = "PlanID"     -> r.plan [] f = "Yaml"      -> r.yaml
       [] OTHER -> f]

\* A reader of t gets, as each settled field, what was bound as the field shown.
Stores(t, r) ==
  \A f \in Elements(ScanTargets) : Settled(f) => Scanned(t)[f] = Fields(r)[Shows(f)]

LEMMA ScanReads ==
  ASSUME NEW t, NEW f \in Elements(ScanTargets) PROVE Scanned(t)[f] = t[Source(f)]
BY DEF Scanned, Source

\* The fields that Provision and Update bind are those of the row they write.
LEMMA InstanceFields ==
  ASSUME NEW q, NEW r, q.id = r.id, NamespaceOf[q.name] = r.ns, q.plan = r.plan
  PROVE  Instance(q, r.yaml) = Fields(r)
BY DEF Instance, Fields

\* A reader of an inserted row gets what was bound, ...
LEMMA InsertedReads ==
  ASSUME NEW q, NEW r, Instance(q, r.yaml) = Fields(r)
  PROVE  Stores(Inserted(Instance(q, r.yaml)), r)
<1> SUFFICES ASSUME NEW f \in Elements(ScanTargets), Settled(f)
             PROVE  Scanned(Inserted(Fields(r)))[f] = Fields(r)[Shows(f)]
  BY DEF Stores
<1>1. Source(f) \in Elements(Columns) /\ Source(f) \in Elements(InsertNames)
  BY DEF Settled
<1>2. Inserted(Fields(r))[Source(f)] = Fields(r)[Shows(f)]
  BY <1>1 DEF Inserted, Shows
<1> QED
  BY <1>2, ScanReads

ArgFields == {"PlanID", "Parameters", "Yaml", "Now"}

LEMMA ArgsAreFields ==
  /\ ArgFields \subseteq Elements(InsertArgs)
  /\ \A c \in DOMAIN UpdateArgs : UpdateArgs[c] \in ArgFields
<1>1. DOMAIN InsertArgs = 1..12
  BY DEF InsertArgs
<1>2. \A i \in 1..12 : InsertArgs[i] \in Elements(InsertArgs)
  BY <1>1 DEF Elements
<1> QED
  BY <1>2 DEF InsertArgs, UpdateArgs, ArgFields

\* ... and of an updated one, the new plan and yaml, and the rest as before.
LEMMA UpdatedReads ==
  ASSUME NEW q, NEW t, NEW r, Stores(t, r),
         NEW v, v.id = r.id, v.ns = r.ns, v.plan = q.plan
  PROVE  Stores(Updated(t, Instance(q, v.yaml)), v)
<1> DEFINE i == Instance(q, v.yaml)
<1> SUFFICES ASSUME NEW f \in Elements(ScanTargets), Settled(f)
             PROVE  Scanned(Updated(t, i))[f] = Fields(v)[Shows(f)]
  BY DEF Stores
<1>1. /\ Scanned(Updated(t, i))[f] = Updated(t, i)[Source(f)]
      /\ Scanned(t)[f] = t[Source(f)]
  BY ScanReads
<1>2. Source(f) \in Elements(Columns) /\ Shows(f) \in Elements(InsertArgs)
  BY DEF Settled, Shows, Elements
<1>3. CASE Source(f) \in DOMAIN UpdateArgs
  <2>1. Updated(t, i)[Source(f)] = i[Shows(f)] /\ Shows(f) \in ArgFields
    BY <1>2, <1>3, ArgsAreFields DEF Updated, Settled
  <2>2. i[Shows(f)] = Fields(v)[Shows(f)]
    BY <1>2, <2>1 DEF Instance, Fields, ArgFields
  <2> QED
    BY <1>1, <2>1, <2>2
<1>4. CASE Source(f) \notin DOMAIN UpdateArgs
  <2>1. Updated(t, i)[Source(f)] = t[Source(f)] /\ Shows(f) \notin UpdateFields
    BY <1>2, <1>4 DEF Updated, Settled
  <2>2. Fields(v)[Shows(f)] = Fields(r)[Shows(f)]
    BY <1>2, <2>1 DEF Fields, UpdateFields
  <2> QED
    BY <1>1, <2>1, <2>2 DEF Stores
<1> QED
  BY <1>3, <1>4

LEMMA InstanceValues ==
  ASSUME NEW r \in Request, r.name \in Names, r.plan \in Plans,
         NEW y \in [name: Names, label: Labels]
  PROVE  Instance(r, y) \in [Elements(InsertArgs) -> Values]
<1>1. r.id \in Values /\ r.plan \in Values /\ y \in Values /\ NamespaceOf[r.name] \in Values
  BY DEF Values, Request
<1>2. Elements(InsertArgs) \subseteq Values
  BY DEF Values
<1> QED
  BY <1>1, <1>2 DEF Instance

\* What INSERT stores is a row over the columns, so not the sentinel, and NULL
\* only in columns that it does not name.
LEMMA InsertedRow ==
  ASSUME Accepted, NEW i \in [Elements(InsertArgs) -> Values]
  PROVE  /\ Inserted(i) \in StoredRow
         /\ \A c \in Elements(Columns) \cap Elements(InsertNames) : Inserted(i)[c] \in Values
<1>1. ASSUME NEW c \in Elements(InsertNames)
      PROVE  i[InsertArgs[Position(InsertNames, c)]] \in Values
  <2>1. Position(InsertNames, c) \in DOMAIN InsertNames
    BY DEF Position, Elements
  <2>2. DOMAIN InsertNames = DOMAIN InsertArgs
    BY ColumnsAssumption DEF Accepted, InsertArgs
  <2> QED
    BY <2>1, <2>2 DEF Elements
<1> QED
  BY <1>1 DEF Inserted, StoredRow

\* UPDATE makes no column NULL.
LEMMA UpdatedRow ==
  ASSUME NEW i \in [Elements(InsertArgs) -> Values], NEW t \in StoredRow
  PROVE  /\ Updated(t, i) \in StoredRow
         /\ \A c \in Elements(Columns) : Updated(t, i)[c] \in Values \cup {t[c]}
BY ArgsAreFields DEF Updated, StoredRow

TableOK ==
  /\ table \in [Keys -> StoredRow \cup {NoRow}]
  /\ \A k \in Keys : IF rows[k] = NoRow THEN table[k] = NoRow
                     ELSE table[k] # NoRow /\ Stores(table[k], rows[k])

\* The columns that may be NULL; _insertSQL names them, as it is and as it is
\* meant.
Times == {"created_at", "updated_at"}

Filled ==
  \A k \in Keys : table[k] # NoRow => \A c \in Elements(Columns) : table[k][c] # Null

\* A statement that changes the row of a key changes the stored row with it.
LEMMA TableKeeps ==
  ASSUME NEW w \in Workers, Inv, TableOK, With(w, Handle(w))
  PROVE  TableOK' /\ (Times \subseteq Elements(InsertNames) /\ Filled => Filled')
<1>0. Handle(w) /\ Execute(w)
  BY WithHandles
<1>1. CASE rows' = rows
  BY <1>0, <1>1 DEF Execute, TableOK, Filled
<1>2. CASE rows' # rows
  <2>1. PICK k \in Keys : k = KeyOf[req[w].id] /\ req[w] \in Request
    BY <1>0, <1>2, RowsStep DEF Inv, KnowsRequest, Request, Keys
  <2>2. PICK i : i = Instance(req[w], Rendered(w))
    OBVIOUS
  <2>3. table' = [table EXCEPT ![k] = Stored(w)]
    BY <1>0, <1>2, <2>1 DEF Execute
  <2>4. ASSUME pc[w] \in {"insert", "update_row"}
        PROVE  i \in [Elements(InsertArgs) -> Values]
    <3>1. req[w].name \in Names /\ req[w].plan \in Plans
      BY <2>4 DEF Inv, KnowsRequest, AtProvision, AtUpdate, Valid
    <3>2. Rendered(w) \in [name: Names, label: Labels]
      BY <3>1, LabelType DEF Rendered
    <3> QED
      BY <2>1, <2>2, <3>1, <3>2, InstanceValues
  <2>5. CASE pc[w] = "insert" /\ Insertable(w) /\ Insert(w)
    <3>1. Stored(w) = Inserted(i)
      BY <2>2, <2>5 DEF Stored
    <3>2. Accepted
      BY <2>5, AcceptAssumption DEF Insertable
    <3>3. /\ Inserted(i) \in StoredRow /\ Inserted(i) # NoRow
          /\ \A c \in Elements(Columns) \cap Elements(InsertNames) : Inserted(i)[c] # Null
      BY <2>4, <2>5, <3>2, InsertedRow, StoredAssumption
    <3>4. rows' = [rows EXCEPT ![k] = NewRow(w)] /\ NewRow(w) # NoRow
      <4>1. NewRow(w) \in Row
        BY <2>1, <2>5, LabelType DEF NewRow, Row, Rendered, Inv, KnowsRequest, AtProvision, Valid, Request
      <4> QED
        BY <2>1, <2>5, <4>1, SentinelAssumption DEF Insert
    <3>5. Stores(Inserted(i), NewRow(w))
      BY <2>2, InstanceFields, InsertedReads DEF NewRow
    <3>6. TableOK'
      BY <2>3, <3>1, <3>3, <3>4, <3>5 DEF TableOK, Inv, TypeOK
    <3>7. Times \subseteq Elements(InsertNames) => Elements(Columns) \subseteq Elements(InsertNames)
      BY <3>2 DEF Accepted, NotNull, Times
    <3>8. Times \subseteq Elements(InsertNames) /\ Filled => Filled'
      BY <2>3, <3>1, <3>3, <3>7 DEF Filled, TableOK
    <3> QED
      BY <3>6, <3>8
  <2>6. CASE pc[w] = "delete_row" /\ Remove(w)
    <3>1. Stored(w) = NoRow
      BY <2>6 DEF Stored
    <3> QED
      BY <2>1, <2>3, <2>6, <3>1 DEF TableOK, Filled, Remove, Inv, TypeOK
  <2>7. CASE pc[w] = "update_row" /\ Revise(w)
    <3>1. PICK r : r = [rows[k] EXCEPT !.plan = req[w].plan, !.yaml = Rendered(w)]
      OBVIOUS
    <3>2. rows[k] # NoRow /\ rows[k] \in Row /\ rows' = [rows EXCEPT ![k] = r]
      BY <1>2, <2>1, <2>7, <3>1 DEF Revise, RowOf, Inv, TypeOK
    <3>3. table[k] # NoRow /\ table[k] \in StoredRow /\ Stores(table[k], rows[k])
      BY <3>2 DEF TableOK
    <3>4. Stored(w) = Updated(table[k], i)
      BY <2>1, <2>2, <2>7 DEF Stored
    <3>5. /\ Updated(table[k], i) \in StoredRow /\ Updated(table[k], i) # NoRow
          /\ \A c \in Elements(Columns) : Updated(table[k], i)[c] \in Values \cup {table[k][c]}
      BY <2>4, <2>7, <3>3, UpdatedRow, StoredAssumption
    <3>6. /\ r.id = rows[k].id /\ r.ns = rows[k].ns
          /\ r.plan = req[w].plan /\ r.yaml = Rendered(w)
          /\ r # NoRow
      <4>1. r \in Row
        BY <2>1, <2>7, <3>1, <3>2, LabelType DEF Row, Rendered, Inv, KnowsRequest, AtUpdate, Valid, Request
      <4> QED
        BY <3>1, <3>2, <4>1, SentinelAssumption DEF Row
    <3>7. Stores(Updated(table[k], i), r)
      BY <2>2, <3>3, <3>6, UpdatedReads
    <3>8. TableOK'
      BY <2>3, <3>2, <3>4, <3>5, <3>6, <3>7 DEF TableOK, Inv, TypeOK
    <3>9. Filled => Filled'
      BY <2>3, <3>3, <3>4, <3>5, StoredAssumption DEF Filled, TableOK
    <3> QED
      BY <3>8, <3>9
  <2> QED
    BY <1>0, <1>2, <2>5, <2>6, <2>7, RowsStep
<1> QED
  BY <1>1, <1>2

LEMMA TableOKNext ==
  Inv /\ TableOK /\ [TableNext]_tvars =>
    TableOK' /\ (Times \subseteq Elements(InsertNames) /\ Filled => Filled')
<1> SUFFICES ASSUME Inv, TableOK, [TableNext]_tvars
             PROVE  TableOK' /\ (Times \subseteq Elements(InsertNames) /\ Filled => Filled')
  OBVIOUS
<1>1. CASE \E w \in Workers : With(w, Handle(w))
  BY <1>1, TableKeeps
<1>2. CASE UNCHANGED <<rows, table>>
  BY <1>2 DEF TableOK, Filled
<1> QED
  BY <1>1, <1>2 DEF TableNext, Receive, SerialArrive, Arrive, Connect, Restart, Crash, tvars, vars

LEMMA TableInitOK == TableInit => TableOK /\ Filled
BY DEF TableInit, Init, TableOK, Filled

LEMMA TableIsOK == TableSpec => []TableOK
BY TableInitOK, TableOKNext, TableTypes, PTL DEF TableSpec

\* Whatever the orders of the table's columns, of the INSERT and of its
\* arguments, of Scan's targets and of the UPDATE: a row is stored exactly when
\* one is recorded, and who reads it back gets, as each field that they settle,
\* what the last statement about the row bound as the field that Scan shows.
THEOREM ScanShowsWhatWasBound ==
  TableSpec => [](\A k \in Keys : IF rows[k] = NoRow THEN table[k] = NoRow
                                  ELSE table[k] # NoRow /\ Stores(table[k], rows[k]))
BY TableIsOK, PTL DEF TableOK

ReadFields == {"InstanceID", "Namespace", "PlanID", "Yaml", "ServiceName"}

LEMMA PositionIs ==
  ASSUME NEW s, NEW i \in DOMAIN s, \A j \in DOMAIN s : s[j] = s[i] => j = i
  PROVE  Position(s, s[i]) = i
BY DEF Position

Exchanged == [ServiceID |-> "InstanceName", InstanceName |-> "ServiceID"]

\* With the columns that db.sql and _insertSQL mean, the fields that handlers
\* read are settled and show themselves; two others show each other.
LEMMA MeantSettles ==
  ASSUME Columns = ColumnsMeant, InsertNames = InsertMeant
  PROVE  /\ \A f \in ReadFields : f \in Elements(ScanTargets) /\ Settled(f) /\ Shows(f) = f
         /\ \A f \in DOMAIN Exchanged : /\ f \in Elements(ScanTargets) /\ Settled(f)
                                        /\ Shows(f) = Exchanged[f]
<1> DEFINE At == {1, 2, 3, 4, 5, 6, 10}
<1>1. DOMAIN ScanTargets = 1..12 /\ DOMAIN InsertMeant = 1..12 /\ DOMAIN InsertArgs = 1..12
      /\ DOMAIN ColumnsMeant = 1..12
  BY DEF ScanTargets, InsertMeant, InsertArgs, ColumnsMeant
<1>2. ASSUME NEW i \in At, NEW j \in 1..12
      PROVE  /\ ScanTargets[j] = ScanTargets[i] => j = i
             /\ InsertMeant[j] = InsertMeant[i] => j = i
  <2>1. ScanTargets[j] = ScanTargets[i] => j = i
    BY DEF ScanTargets
  <2>2. InsertMeant[j] = InsertMeant[i] => j = i
    BY DEF InsertMeant
  <2> QED
    BY <2>1, <2>2
<1>3. ASSUME NEW i \in At
      PROVE  /\ Position(ScanTargets, ScanTargets[i]) = i
             /\ Position(InsertMeant, InsertMeant[i]) = i
             /\ ScanTargets[i] \in Elements(ScanTargets)
             /\ ColumnsMeant[i] \in Elements(ColumnsMeant)
             /\ InsertMeant[i] \in Elements(InsertMeant)
  BY <1>1, <1>2, PositionIs DEF Elements
<1> DEFINE Settles(f, c, i, j) == /\ ScanTargets[i] = f /\ ColumnsMeant[i] = c
                                  /\ InsertMeant[j] = c
                                  /\ c \in DOMAIN UpdateArgs => UpdateArgs[c] = InsertArgs[j]
                                  /\ InsertArgs[j] \in UpdateFields => c \in DOMAIN UpdateArgs
<1>4. ASSUME NEW f, NEW c, NEW i \in At, NEW j \in At, Settles(f, c, i, j)
      PROVE  f \in Elements(ScanTargets) /\ Settled(f) /\ Shows(f) = InsertArgs[j]
  <2>1. Source(f) = c /\ Position(InsertNames, c) = j
    BY <1>3, <1>4 DEF Source
  <2> QED
    BY <1>1, <1>3, <1>4, <2>1 DEF Settled, Shows
<1>5. /\ Settles("InstanceID",   "instance_id",   1, 1)
      /\ Settles("ServiceID",    "instance_name", 2, 3)
      /\ Settles("InstanceName", "service_id",    3, 2)
      /\ Settles("ServiceName",  "service_name",  4, 4)
      /\ Settles("PlanID",       "plan_id",       5, 5)
      /\ Settles("Namespace",    "namespace",     6, 6)
      /\ Settles("Yaml",         "yaml",         10, 10)
  BY DEF ScanTargets, ColumnsMeant, InsertMeant, InsertArgs, UpdateArgs, UpdateFields
<1> HIDE DEF Settles
<1>6. /\ InsertArgs[1] = "InstanceID"  /\ InsertArgs[3] = "InstanceName"
      /\ InsertArgs[2] = "ServiceID"   /\ InsertArgs[4] = "ServiceName"
      /\ InsertArgs[5] = "PlanID"      /\ InsertArgs[6] = "Namespace"
      /\ InsertArgs[10] = "Yaml"
  BY DEF InsertArgs
<1> QED
  BY <1>4, <1>5, <1>6 DEF ReadFields, Exchanged

ReadsExchanged ==
  \A k \in Keys : rows[k] # NoRow => /\ Scanned(table[k])["ServiceID"] = "InstanceName"
                                     /\ Scanned(table[k])["InstanceName"] = "ServiceID"

LEMMA MeantReads ==
  ASSUME Columns = ColumnsMeant, InsertNames = InsertMeant, TableOK
  PROVE  ReadsBack /\ ReadsExchanged
<1>1. ReadFields \cup DOMAIN Exchanged \subseteq Elements(InsertArgs)
  <2>1. DOMAIN InsertArgs = 1..12
    BY DEF InsertArgs
  <2>2. \A i \in 1..12 : InsertArgs[i] \in Elements(InsertArgs)
    BY <2>1 DEF Elements
  <2> QED
    BY <2>2 DEF InsertArgs, ReadFields, Exchanged
<1>2. ASSUME NEW k \in Keys, rows[k] # NoRow
      PROVE  /\ \A f \in ReadFields : Scanned(table[k])[f] = Fields(rows[k])[f]
             /\ \A f \in DOMAIN Exchanged : Scanned(table[k])[f] = Fields(rows[k])[Exchanged[f]]
  BY <1>2, MeantSettles DEF TableOK, Stores
<1>3. ASSUME NEW r
      PROVE  /\ Fields(r)["InstanceID"] = r.id /\ Fields(r)["Namespace"] = r.ns
             /\ Fields(r)["PlanID"] = r.plan   /\ Fields(r)["Yaml"] = r.yaml
             /\ \A f \in {"ServiceName", "ServiceID", "InstanceName"} : Fields(r)[f] = f
  BY <1>1 DEF Fields, ReadFields, Exchanged
<1>4. ReadsBack
  BY <1>2, <1>3 DEF ReadsBack, ReadFields, TableOK
<1>5. ReadsExchanged
  BY <1>2, <1>3 DEF ReadsExchanged, Exchanged
<1> QED
  BY <1>4, <1>5

\* With these columns, who reads a row back gets the id, namespace, plan, yaml and
\* service name it was given, and the service id and instance name exchanged.
THEOREM MeantColumnsReadBack ==
  Columns = ColumnsMeant /\ InsertNames = InsertMeant =>
    (TableSpec => [](ReadsBack /\ ReadsExchanged))
<1>1. CASE Columns = ColumnsMeant /\ InsertNames = InsertMeant
  <2>1. TableOK => ReadsBack /\ ReadsExchanged
    BY <1>1, MeantReads
  <2> QED
    BY <2>1, TableIsOK, PTL
<1> QED
  BY <1>1

\* As long as _insertSQL names the two columns that may be NULL, as it does, each
\* row that is recorded can be scanned: the return of SelectInstance that keeps
\* its connection is never taken for a row that the broker wrote.
THEOREM RecordedRowsScan ==
  Times \subseteq Elements(InsertNames) => (TableSpec => [](\A w \in Workers : ~ScanFails(w)))
<1> SUFFICES ASSUME Times \subseteq Elements(InsertNames)
             PROVE  TableSpec => [](\A w \in Workers : ~ScanFails(w))
  OBVIOUS
<1>1. TableInit => TableOK /\ Filled
  BY TableInitOK
<1>2. Inv /\ (TableOK /\ Filled) /\ [TableNext]_tvars => (TableOK /\ Filled)'
  BY TableOKNext
<1>3. Inv /\ TableOK /\ Filled => \A w \in Workers : ~ScanFails(w)
  <2> SUFFICES ASSUME Inv, TableOK, Filled, NEW w \in Workers, ScanFails(w) PROVE FALSE
    OBVIOUS
  <2>1. PICK k \in Keys : k = KeyOf[req[w].id]
    BY DEF ScanFails, Inv, KnowsRequest, Request, Keys
  <2>2. table[k] # NoRow /\ \E c \in DOMAIN table[k] : table[k][c] = Null
    BY <2>1 DEF ScanFails
  <2>3. DOMAIN table[k] = Elements(Columns)
    BY <2>2 DEF TableOK, StoredRow
  <2> QED
    BY <2>2, <2>3 DEF Filled
<1> QED
  BY <1>1, <1>2, <1>3, TableTypes, PTL DEF TableSpec

-----------------------------------------------------------------------------
(* The columns as they are *)

\* MySQL refuses the statement, ...
LEMMA InsertRefused ==
  Columns = ColumnsOfDbSql /\ InsertNames = InsertOfDao => ~InsertAccepted
<1> SUFFICES ASSUME InsertNames = InsertOfDao PROVE ~Accepted
  BY AcceptAssumption
<1>1. Len(InsertOfDao) = 11 /\ Len(InsertArgs) = 12
  BY DEF InsertOfDao, InsertArgs
<1> QED
  BY <1>1 DEF Accepted

\* ... so that a broker on the table of db.sql, with pkg/dao as it is, never
\* records an instance, however often Provision is called.
THEOREM AsBuiltRecordsNothing ==
  Columns = ColumnsOfDbSql /\ InsertNames = InsertOfDao =>
    (TableSpec => [](\A k \in Keys : rows[k] = NoRow))
<1> SUFFICES ASSUME ~InsertAccepted PROVE TableSpec => [](\A k \in Keys : rows[k] = NoRow)
  BY InsertRefused
<1> DEFINE Bare == \A k \in Keys : rows[k] = NoRow
<1>1. TableInit => Bare
  BY DEF TableInit, Init
<1>2. Inv /\ Bare /\ [TableNext]_tvars => Bare'
  <2> SUFFICES ASSUME Inv, Bare, [TableNext]_tvars PROVE Bare'
    OBVIOUS
  <2>1. ASSUME NEW w \in Workers, With(w, Handle(w)) PROVE Bare'
    <3>1. UNCHANGED rows \/ Remove(w) \/ Revise(w)
      BY <2>1, WithHandles, RowsStep DEF Insertable
    <3> QED
      BY <3>1 DEF Remove, Revise, RowOf, Inv, TypeOK
  <2>2. CASE UNCHANGED rows
    BY <2>2
  <2> QED
    BY <2>1, <2>2 DEF TableNext, Receive, SerialArrive, Arrive, Connect, Restart, Crash, tvars, vars
<1> QED
  BY <1>1, <1>2, TableTypes, PTL DEF TableSpec
=============================================================================

SPECIFICATION TableSpec
CONSTANTS
  w1 = w1
  w2 = w2
  a = a
  b = b
  n1 = n1
  n2 = n2
  ns1 = ns1
  p = p
  Workers = {w1, w2}
  Ids = {a}
  KeyOf <- OwnKey
  Names = {n1}
  NamespaceOf <- OneNamespace
  Plans = {p}
  Template <- Workload
  Requests <- OneInstance
  Registered = TRUE
  InsertAccepted = FALSE
  Columns <- ColumnsOfDbSql
  InsertNames <- InsertOfDao
  MysqlActive = 1
  Null = Null
  Flaky = FALSE
  Crashes = FALSE
  NoId = NoId
  NoName = NoName
  NoPlan = NoPlan
  UnknownPlan = UnknownPlan
  NoRow = NoRow
  NoReq = NoReq
SYMMETRY Symmetry
PROPERTY InsertRecords

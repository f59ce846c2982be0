SPECIFICATION FairSpec
CONSTANTS
  w1 = w1
  w2 = w2
  a = a
  b = b
  n1 = n1
  n2 = n2
  ns1 = ns1
  p = p
  Workers = {w1, w2}
  Ids = {a, b}
  KeyOf <- OwnKey
  Names = {n1}
  NamespaceOf <- OneNamespace
  Plans = {p}
  Template <- Exposed
  Requests <- Contended
  Registered = TRUE
  InsertAccepted = TRUE
  Columns <- ColumnsMeant
  InsertNames <- InsertMeant
  MysqlActive = 1
  Null = Null
  Flaky = TRUE
  Crashes = TRUE
  NoId = NoId
  NoName = NoName
  NoPlan = NoPlan
  UnknownPlan = UnknownPlan
  NoRow = NoRow
  NoReq = NoReq
INVARIANT ReadsBack
PROPERTIES EventuallyReleased Answered

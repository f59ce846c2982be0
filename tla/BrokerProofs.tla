---------------------------- MODULE BrokerProofs ----------------------------
(***************************************************************************)
(* Proofs about Broker, for every value of its constants: its types, that  *)
(* rows describe complete deployments, and that orphans stay.              *)
(***************************************************************************)
EXTENDS Broker, TLAPS

(* What a goroutine knows of its request at each call: the checks it made  *)
(* before the first external effect still hold.                            *)

AtProvision == {"create_service", "create_instance", "insert"}
AtUpdate    == {"update_service", "update_instance", "update_row"}

KnowsRequest(w) ==
  /\ pc[w] # "idle" => req[w] \in Request
  /\ pc[w] \in AtProvision => req[w].op = "provision" /\ Valid(req[w])
  /\ pc[w] \in AtUpdate    => req[w].op = "update" /\ Valid(req[w])
  /\ pc[w] = "delete"      => req[w].op = "deprovision" /\ seen[w] \in Row

Inv == TypeOK /\ \A w \in Workers : KnowsRequest(w)

SharedOK ==
  /\ rows \in [Keys -> Row \cup {NoRow}]
  /\ objs \in [Objects -> Object]
  /\ link \in [Workers -> {"none", "found", "missing", "stale"}]

-----------------------------------------------------------------------------
(* The building blocks preserve the types of what they touch. *)

LEMMA QuietShared ==
  ASSUME Inv, NEW w \in Workers, Quiet(w), rows' \in [Keys -> Row \cup {NoRow}]
  PROVE  SharedOK'
BY DEF Inv, TypeOK, Quiet, SharedOK

LEMMA WriteShared ==
  ASSUME Inv, NEW w \in Workers, NEW v \in Object, Write(w, v), UNCHANGED rows
  PROVE  SharedOK'
BY DEF Inv, TypeOK, Write, SharedOK

LEMMA LabelType ==
  ASSUME Inv, NEW w \in Workers
  PROVE  /\ RowId(seen[w]) \in Labels
         /\ Created(w) \in Object
         /\ Deleted \in Object
BY DEF Inv, TypeOK, RowId, Row, Labels, Created, Rendered, Deleted, Object

\* A goroutine that replies.
LEMMA ReplyStep ==
  ASSUME Inv, NEW w \in Workers, NEW code \in Replies, Reply(w, code),
         UNCHANGED <<req, seen>>, SharedOK', pc[w] # "idle"
  PROVE  Inv'
BY DEF Inv, TypeOK, KnowsRequest, Reply, SharedOK, Steps, AtProvision, AtUpdate, Valid

\* A goroutine that goes on, with what it knows at its next call.
LEMMA GotoStep ==
  ASSUME Inv, NEW w \in Workers, NEW l \in Steps, NEW S \in SUBSET Slots,
         Goto(w, l, S), UNCHANGED req, SharedOK',
         seen' \in [Workers -> Row \cup {NoRow}],
         \A x \in Workers \ {w} : seen'[x] = seen[x],
         KnowsRequest(w)'
  PROVE  Inv'
BY DEF Inv, TypeOK, KnowsRequest, Goto, SharedOK, AtProvision, AtUpdate, Valid

-----------------------------------------------------------------------------
(* Every action preserves Inv. *)

\* A handler refuses, or a hook, a read or a list fails.
LEMMA RefuseStep ==
  ASSUME Inv, NEW w \in Workers, NEW code \in Replies, pc[w] # "idle",
         Reply(w, code), Quiet(w), Keep(w)
  PROVE  Inv'
<1>1. rows' \in [Keys -> Row \cup {NoRow}]
  BY DEF Inv, TypeOK, Keep
<1>2. SharedOK'
  BY <1>1, QuietShared
<1> QED
  BY <1>2, ReplyStep DEF Keep

\* The row a goroutine read is a row of the table.
LEMMA RowOfType ==
  ASSUME Inv, NEW w \in Workers, req[w] \in Request
  PROVE  KeyOf[req[w].id] \in Keys /\ RowOf(w) \in Row \cup {NoRow}
BY DEF Inv, TypeOK, RowOf, Keys, Request

\* A handler goes on to its first call.
LEMMA AcceptStep ==
  ASSUME Inv, NEW w \in Workers, NEW l \in Steps, NEW S \in SUBSET Slots,
         Accept(w, l, S), req[w] \in Request, KnowsRequest(w)'
  PROVE  Inv'
<1>1. rows' \in [Keys -> Row \cup {NoRow}]
  BY DEF Inv, TypeOK, Accept
<1>2. SharedOK'
  BY <1>1, QuietShared DEF Accept
<1>3. /\ seen' \in [Workers -> Row \cup {NoRow}]
      /\ \A x \in Workers \ {w} : seen'[x] = seen[x]
  BY RowOfType DEF Accept, Inv, TypeOK
<1> QED
  BY <1>2, <1>3, GotoStep DEF Accept

LEMMA SlotSets ==
  /\ ServiceSlots \subseteq Slots /\ InstanceSlots \subseteq Slots
  /\ UpdateSlots \subseteq InstanceSlots /\ DeleteSlots \subseteq Slots
BY DEF ServiceSlots, InstanceSlots, UpdateSlots, DeleteSlots

LEMMA SelectSteps ==
  ASSUME Inv, NEW w \in Workers,
         \/ ProvisionConflict(w) \/ ProvisionInvalid(w) \/ ProvisionSelect(w)
         \/ DeprovisionGone(w) \/ DeprovisionHook(w) \/ DeprovisionSelect(w)
         \/ LastOperationGone(w) \/ LastOperationSelect(w)
         \/ UpdateConflict(w) \/ UpdatePanic(w) \/ UpdateInvalid(w)
         \/ UpdateSelect(w) \/ SelectFails(w)
  PROVE  Inv'
<1>1. pc[w] = "select" /\ req[w] \in Request
  BY DEF ProvisionConflict, ProvisionInvalid, ProvisionSelect, DeprovisionGone,
         DeprovisionHook, DeprovisionSelect, LastOperationGone, LastOperationSelect,
         UpdateConflict, UpdatePanic, UpdateInvalid, UpdateSelect, SelectFails, Asks,
         Inv, KnowsRequest
<1>2. ASSUME NEW code \in Replies, Refuse(w, code)
      PROVE  Inv'
  BY <1>1, <1>2, RefuseStep DEF Refuse
<1>3. CASE ProvisionSelect(w)
  <2>1. KnowsRequest(w)'
    BY <1>1, <1>3 DEF ProvisionSelect, Asks, Accept, Goto, KnowsRequest, Valid,
       AtProvision, AtUpdate, Inv, TypeOK
  <2> QED
    BY <1>1, <1>3, <2>1, AcceptStep, SlotSets DEF ProvisionSelect, Steps
<1>4. CASE UpdateSelect(w)
  <2>1. KnowsRequest(w)'
    BY <1>1, <1>4 DEF UpdateSelect, Asks, Accept, Goto, KnowsRequest, Valid,
       AtProvision, AtUpdate, Inv, TypeOK
  <2> QED
    BY <1>1, <1>4, <2>1, AcceptStep, SlotSets DEF UpdateSelect, Steps
<1>5. CASE DeprovisionSelect(w)
  <2>1. KnowsRequest(w)'
    BY <1>1, <1>5, RowOfType DEF DeprovisionSelect, Asks, Accept, Goto, KnowsRequest,
       AtProvision, AtUpdate, Inv, TypeOK
  <2> QED
    BY <1>1, <1>5, <2>1, AcceptStep, SlotSets DEF DeprovisionSelect, Steps
<1>6. CASE LastOperationSelect(w)
  <2>1. KnowsRequest(w)'
    BY <1>1, <1>6 DEF LastOperationSelect, Asks, Accept, Goto, KnowsRequest,
       AtProvision, AtUpdate, Inv, TypeOK
  <2> QED
    BY <1>1, <1>6, <2>1, AcceptStep DEF LastOperationSelect, Steps
<1>7. CASE SelectFails(w)
  BY <1>1, <1>7, RefuseStep DEF SelectFails, Replies
<1> QED
  BY <1>2, <1>3, <1>4, <1>5, <1>6, <1>7
     DEF ProvisionConflict, ProvisionInvalid, DeprovisionGone, DeprovisionHook,
         LastOperationGone, UpdateConflict, UpdatePanic, UpdateInvalid, Replies

LEMMA ProvisionSteps ==
  ASSUME Inv, NEW w \in Workers,
         \/ CreateObject(w) \/ CreateFails(w) \/ ServicesCreated(w)
         \/ InstanceCreated(w) \/ HookFails(w) \/ InsertRow(w) \/ InsertFails(w)
  PROVE  Inv'
<1>1. pc[w] # "idle" /\ req[w] \in Request
  BY DEF CreateObject, CreateFails, ServicesCreated, InstanceCreated, HookFails,
         InsertRow, InsertFails, Inv, KnowsRequest
<1>2. CASE CreateObject(w)
  <2>1. CASE Live(Cursor(w))
    BY <1>1, <1>2, <2>1, RefuseStep DEF CreateObject, Replies
  <2>2. CASE ~Live(Cursor(w))
    <3>1. SharedOK'
      BY <1>2, <2>2, WriteShared, LabelType DEF CreateObject, Keep
    <3>2. KnowsRequest(w)'
      BY <1>2, <2>2 DEF CreateObject, Advance, Goto, Keep, Inv, TypeOK, KnowsRequest,
         AtProvision, AtUpdate, Valid
    <3>3. /\ Goto(w, pc[w], todo[w] \ {Least(todo[w])})
          /\ pc[w] \in Steps /\ todo[w] \ {Least(todo[w])} \in SUBSET Slots
      BY <1>2, <2>2 DEF CreateObject, Advance, Inv, TypeOK
    <3> QED
      BY <1>2, <3>1, <3>2, <3>3, GotoStep DEF CreateObject, Keep, Inv, TypeOK
  <2> QED
    BY <2>1, <2>2
<1>3. CASE CreateFails(w)
  <2>1. CASE Quiet(w)
    BY <1>1, <1>3, <2>1, RefuseStep DEF CreateFails, Lost, Replies
  <2>2. CASE Write(w, Created(w))
    <3>1. SharedOK'
      BY <1>3, <2>2, WriteShared, LabelType DEF CreateFails, Keep
    <3> QED
      BY <1>1, <1>3, <3>1, ReplyStep DEF CreateFails, Lost, Keep, Replies
  <2> QED
    BY <1>3, <2>1, <2>2 DEF CreateFails, Lost
<1>4. ASSUME NEW l \in {"create_instance", "insert"}, NEW S \in SUBSET Slots,
             pc[w] \in AtProvision, Goto(w, l, S), Quiet(w), Keep(w)
      PROVE  Inv'
  <2>1. SharedOK'
    BY <1>4, QuietShared DEF Keep, Inv, TypeOK
  <2>2. KnowsRequest(w)'
    BY <1>4 DEF Goto, Keep, Inv, TypeOK, KnowsRequest, AtProvision, AtUpdate, Valid
  <2> QED
    BY <1>4, <2>1, <2>2, GotoStep DEF Keep, Inv, TypeOK, Steps
<1>5. CASE ServicesCreated(w)
  BY <1>4, <1>5, SlotSets DEF ServicesCreated, AtProvision
<1>6. CASE InstanceCreated(w)
  BY <1>4, <1>6 DEF InstanceCreated, AtProvision
<1>7. CASE HookFails(w)
  BY <1>1, <1>7, RefuseStep DEF HookFails, Replies
<1>8. ASSUME NEW code \in Replies, pc[w] = "insert", Insert(w) \/ UNCHANGED rows,
             Reply(w, code), Quiet(w), UNCHANGED <<req, seen>>
      PROVE  Inv'
  <2>1. NewRow(w) \in Row
    BY <1>8, LabelType DEF Inv, KnowsRequest, AtProvision, Valid, Request, NewRow, Row,
       Rendered
  <2>2. rows' \in [Keys -> Row \cup {NoRow}]
    BY <1>8, <2>1 DEF Insert, Inv, TypeOK
  <2>3. SharedOK'
    BY <1>8, <2>2, QuietShared
  <2> QED
    BY <1>1, <1>8, <2>3, ReplyStep
<1>9. CASE InsertRow(w)
  BY <1>8, <1>9 DEF InsertRow, Replies
<1>10. CASE InsertFails(w)
  BY <1>8, <1>10 DEF InsertFails, Lost, Replies
<1> QED
  BY <1>2, <1>3, <1>5, <1>6, <1>7, <1>9, <1>10

LEMMA DeprovisionSteps ==
  ASSUME Inv, NEW w \in Workers,
         \/ DeleteObject(w) \/ DeleteFails(w) \/ ObjectsDeleted(w)
         \/ DeleteRow(w) \/ DeleteRowFails(w) \/ ListPods(w) \/ ListFails(w)
  PROVE  Inv'
<1>1. pc[w] # "idle" /\ req[w] \in Request
  BY DEF DeleteObject, DeleteFails, ObjectsDeleted, DeleteRow, DeleteRowFails,
         ListPods, ListFails, Inv, KnowsRequest
<1>2. ASSUME Delete(w), UNCHANGED rows
      PROVE  SharedOK'
  BY <1>2, QuietShared, WriteShared, LabelType DEF Delete, Inv, TypeOK
<1>3. CASE DeleteObject(w)
  <2>1. SharedOK'
    BY <1>2, <1>3 DEF DeleteObject, Keep
  <2>2. KnowsRequest(w)'
    BY <1>3 DEF DeleteObject, Advance, Goto, Keep, Inv, TypeOK, KnowsRequest,
       AtProvision, AtUpdate
  <2>3. /\ Goto(w, pc[w], todo[w] \ {Least(todo[w])})
        /\ pc[w] \in Steps /\ todo[w] \ {Least(todo[w])} \in SUBSET Slots
    BY <1>3 DEF DeleteObject, Advance, Inv, TypeOK
  <2> QED
    BY <1>3, <2>1, <2>2, <2>3, GotoStep DEF DeleteObject, Keep, Inv, TypeOK
<1>4. CASE DeleteFails(w)
  <2>1. CASE Quiet(w)
    BY <1>1, <1>4, <2>1, RefuseStep DEF DeleteFails, Lost, Replies
  <2>2. CASE Delete(w)
    BY <1>1, <1>2, <1>4, <2>2, ReplyStep DEF DeleteFails, Lost, Keep, Replies
  <2> QED
    BY <1>4, <2>1, <2>2 DEF DeleteFails, Lost
<1>5. CASE ObjectsDeleted(w)
  <2>1. SharedOK'
    BY <1>5, QuietShared DEF ObjectsDeleted, Keep, Inv, TypeOK
  <2>2. KnowsRequest(w)'
    BY <1>1, <1>5 DEF ObjectsDeleted, Goto, Keep, Inv, TypeOK, KnowsRequest,
       AtProvision, AtUpdate
  <2> QED
    BY <1>5, <2>1, <2>2, GotoStep DEF ObjectsDeleted, Keep, Inv, TypeOK, Steps
<1>6. ASSUME NEW code \in Replies, Remove(w) \/ UNCHANGED rows,
             Reply(w, code), Quiet(w), UNCHANGED <<req, seen>>
      PROVE  Inv'
  <2>1. rows' \in [Keys -> Row \cup {NoRow}]
    BY <1>6 DEF Remove, Inv, TypeOK
  <2>2. SharedOK'
    BY <1>6, <2>1, QuietShared
  <2> QED
    BY <1>1, <1>6, <2>2, ReplyStep
<1>7. CASE DeleteRow(w)
  BY <1>6, <1>7 DEF DeleteRow, Replies
<1>8. CASE DeleteRowFails(w)
  BY <1>6, <1>8 DEF DeleteRowFails, Lost, Replies
<1>9. CASE ListPods(w)
  BY <1>1, <1>9, RefuseStep DEF ListPods, Reports, Replies
<1>10. CASE ListFails(w)
  BY <1>1, <1>10, RefuseStep DEF ListFails, Replies
<1> QED
  BY <1>3, <1>4, <1>5, <1>7, <1>8, <1>9, <1>10

LEMMA UpdateSteps ==
  ASSUME Inv, NEW w \in Workers,
         \/ GetObject(w) \/ GetFails(w) \/ PutObject(w) \/ PutFails(w)
         \/ ServicesUpdated(w) \/ InstanceUpdated(w)
         \/ UpdateRow(w) \/ UpdateRowFails(w)
  PROVE  Inv'
<1>1. pc[w] # "idle" /\ req[w] \in Request
  BY DEF GetObject, GetFails, PutObject, PutFails, ServicesUpdated, InstanceUpdated,
         UpdateRow, UpdateRowFails, Inv, KnowsRequest
<1>2. CASE GetObject(w)
  BY <1>2 DEF GetObject, Inv, TypeOK, KnowsRequest, AtProvision, AtUpdate, Valid
<1>3. CASE GetFails(w)
  BY <1>1, <1>3, RefuseStep DEF GetFails, Replies
<1>4. CASE PutObject(w)
  <2>1. CASE Puttable(w)
    <3>1. SharedOK'
      BY <1>4, <2>1, WriteShared, LabelType DEF PutObject, Keep
    <3>2. KnowsRequest(w)'
      BY <1>4, <2>1 DEF PutObject, Advance, Goto, Keep, Inv, TypeOK, KnowsRequest,
         AtProvision, AtUpdate, Valid
    <3>3. /\ Goto(w, pc[w], todo[w] \ {Least(todo[w])})
          /\ pc[w] \in Steps /\ todo[w] \ {Least(todo[w])} \in SUBSET Slots
      BY <1>4, <2>1 DEF PutObject, Advance, Inv, TypeOK
    <3> QED
      BY <1>4, <3>1, <3>2, <3>3, GotoStep DEF PutObject, Keep, Inv, TypeOK
  <2>2. CASE ~Puttable(w)
    BY <1>1, <1>4, <2>2, RefuseStep DEF PutObject, Replies
  <2> QED
    BY <2>1, <2>2
<1>5. CASE PutFails(w)
  <2>1. CASE Quiet(w)
    BY <1>1, <1>5, <2>1, RefuseStep DEF PutFails, Lost, Replies
  <2>2. CASE Write(w, Created(w))
    <3>1. SharedOK'
      BY <1>5, <2>2, WriteShared, LabelType DEF PutFails, Keep
    <3> QED
      BY <1>1, <1>5, <3>1, ReplyStep DEF PutFails, Lost, Keep, Replies
  <2> QED
    BY <1>5, <2>1, <2>2 DEF PutFails, Lost
<1>6. ASSUME NEW l \in {"update_instance", "update_row"}, NEW S \in SUBSET Slots,
             pc[w] \in AtUpdate, Goto(w, l, S), Quiet(w), Keep(w)
      PROVE  Inv'
  <2>1. SharedOK'
    BY <1>6, QuietShared DEF Keep, Inv, TypeOK
  <2>2. KnowsRequest(w)'
    BY <1>6 DEF Goto, Keep, Inv, TypeOK, KnowsRequest, AtProvision, AtUpdate, Valid
  <2> QED
    BY <1>6, <2>1, <2>2, GotoStep DEF Keep, Inv, TypeOK, Steps
<1>7. CASE ServicesUpdated(w)
  BY <1>6, <1>7, SlotSets DEF ServicesUpdated, AtUpdate
<1>8. CASE InstanceUpdated(w)
  BY <1>6, <1>8 DEF InstanceUpdated, AtUpdate
<1>9. ASSUME NEW code \in Replies, pc[w] = "update_row", Revise(w) \/ UNCHANGED rows,
             Reply(w, code), Quiet(w), UNCHANGED <<req, seen>>
      PROVE  Inv'
  <2>1. /\ Rendered(w) \in [name : Names, label : Labels]
        /\ req[w].plan \in Plans
    BY <1>9, LabelType DEF Inv, KnowsRequest, AtUpdate, Valid, Request, Rendered
  <2>2. rows' \in [Keys -> Row \cup {NoRow}]
    <3>1. CASE RowOf(w) = NoRow \/ UNCHANGED rows
      BY <1>9, <3>1 DEF Revise, Inv, TypeOK
    <3>2. CASE RowOf(w) # NoRow /\ Revise(w)
      <4>1. [RowOf(w) EXCEPT !.plan = req[w].plan, !.yaml = Rendered(w)] \in Row
        <5>1. RowOf(w) \in Row
          BY <1>1, <3>2, RowOfType
        <5> QED
          BY <2>1, <5>1 DEF Row
      <4> QED
        BY <3>2, <4>1 DEF Revise, RowOf, Inv, TypeOK
    <3> QED
      BY <1>9, <3>1, <3>2
  <2>3. SharedOK'
    BY <1>9, <2>2, QuietShared
  <2> QED
    BY <1>1, <1>9, <2>3, ReplyStep
<1>10. CASE UpdateRow(w)
  BY <1>9, <1>10 DEF UpdateRow, Replies
<1>11. CASE UpdateRowFails(w)
  BY <1>9, <1>11 DEF UpdateRowFails, Lost, Replies
<1> QED
  BY <1>2, <1>3, <1>4, <1>5, <1>7, <1>8, <1>10, <1>11

LEMMA EdgeSteps ==
  ASSUME Inv
  PROVE  /\ \A w \in Workers, r \in Requests : Arrive(w, r) => Inv'
         /\ \A w \in Workers : Return(w) => Inv'
         /\ Crash => Inv'
         /\ UNCHANGED vars => Inv'
<1>1. ASSUME NEW w \in Workers, NEW r \in Requests, Arrive(w, r)
      PROVE  Inv'
  BY <1>1, RequestAssumption DEF Arrive, FirstCall, Inv, TypeOK, KnowsRequest, Steps,
     AtProvision, AtUpdate, Valid
<1>2. ASSUME NEW w \in Workers, Return(w)
      PROVE  Inv'
  BY <1>2 DEF Return, Inv, TypeOK, KnowsRequest, Steps, Replies, AtProvision,
     AtUpdate, Valid
<1>3. CASE Crash
  BY <1>3 DEF Crash, Inv, TypeOK, KnowsRequest, Steps, Replies, AtProvision, AtUpdate
<1>4. CASE UNCHANGED vars
  BY <1>4 DEF vars, local, Inv, TypeOK, KnowsRequest, AtProvision, AtUpdate, Valid
<1> QED
  BY <1>1, <1>2, <1>3, <1>4

LEMMA InvInit == Init => Inv
BY DEF Init, Inv, TypeOK, KnowsRequest, Steps, Replies, AtProvision, AtUpdate, Object,
       Labels

LEMMA PluginSteps ==
  ASSUME Inv, NEW w \in Workers, Bind(w) \/ Unbind(w)
  PROVE  Inv'
<1>1. PICK code \in PluginAnswers(req[w]) : Refuse(w, code)
  BY DEF Bind, Unbind, CallPlugin
<1>2. code \in Replies /\ pc[w] # "idle"
  BY DEF PluginAnswers, Replies, Bind, Unbind, CallPlugin
<1> QED
  BY <1>1, <1>2, RefuseStep DEF Refuse

LEMMA InvNext == Inv /\ [Next]_vars => Inv'
BY SelectSteps, ProvisionSteps, DeprovisionSteps, UpdateSteps, PluginSteps, EdgeSteps
   DEF Next, Handle, Provision, Deprovision, LastOperation, Update

\* At every moment the table, the cluster and the goroutines have the types
\* that TypeOK gives them, and each goroutine still satisfies the checks it
\* made before its first call with an effect.
THEOREM TypeCorrect == Spec => []TypeOK
<1>1. Inv => TypeOK
  BY DEF Inv
<1> QED
  BY <1>1, InvInit, InvNext, PTL DEF Spec

-----------------------------------------------------------------------------
(* What a step of one goroutine does to the rest of the system. *)

Others(w) == \A x \in Workers \ {w} :
  /\ pc'[x] = pc[x] /\ todo'[x] = todo[x]
  /\ req'[x] = req[x] /\ seen'[x] = seen[x]

LEMMA OthersStep ==
  ASSUME Inv, NEW w \in Workers, Handle(w) \/ \E r \in Requests : Arrive(w, r)
  PROVE  Others(w)
BY DEF Inv, TypeOK, Others, Handle, Arrive, FirstCall, Bind, Unbind,
   CallPlugin, SelectFails, HookFails, Return, Provision,
   Deprovision, LastOperation, Update, ProvisionConflict, ProvisionInvalid,
   ProvisionSelect, CreateObject, CreateFails, ServicesCreated, InstanceCreated,
   InsertRow, InsertFails, DeprovisionGone, DeprovisionHook, DeprovisionSelect,
   DeleteObject, DeleteFails, ObjectsDeleted, DeleteRow, DeleteRowFails,
   LastOperationGone, LastOperationSelect, ListPods, ListFails, UpdateConflict,
   UpdatePanic, UpdateInvalid, UpdateSelect, GetObject, GetFails, PutObject, PutFails,
   ServicesUpdated, InstanceUpdated, UpdateRow, UpdateRowFails, Refuse, Accept, Reply,
   Goto, Advance, Keep, Lost

LEMMA ObjectsStep ==
  ASSUME Inv, NEW w \in Workers, Handle(w) \/ \E r \in Requests : Arrive(w, r)
  PROVE  \/ UNCHANGED objs
         \/ Write(w, Created(w)) /\ pc[w] \in AtProvision \cup AtUpdate
         \/ Write(w, Deleted) /\ pc[w] = "delete"
BY DEF Handle, Arrive, FirstCall, Bind, Unbind,
   CallPlugin, SelectFails, HookFails, Return, Provision, AtProvision, AtUpdate,
   Deprovision, LastOperation, Update, ProvisionConflict, ProvisionInvalid,
   ProvisionSelect, CreateObject, CreateFails, ServicesCreated, InstanceCreated,
   InsertRow, InsertFails, DeprovisionGone, DeprovisionHook, DeprovisionSelect,
   DeleteObject, DeleteFails, ObjectsDeleted, DeleteRow, DeleteRowFails,
   LastOperationGone, LastOperationSelect, ListPods, ListFails, UpdateConflict,
   UpdatePanic, UpdateInvalid, UpdateSelect, GetObject, GetFails, PutObject, PutFails,
   ServicesUpdated, InstanceUpdated, UpdateRow, UpdateRowFails, Refuse, Accept, Keep,
   Lost, Delete, Quiet

LEMMA RowsStep ==
  ASSUME NEW w \in Workers, Handle(w) \/ \E r \in Requests : Arrive(w, r)
  PROVE  \/ UNCHANGED rows
         \/ pc[w] = "insert" /\ Insertable(w) /\ Insert(w) /\ UNCHANGED objs
         \/ pc[w] = "delete_row" /\ Remove(w) /\ UNCHANGED objs
         \/ pc[w] = "update_row" /\ Revise(w) /\ UNCHANGED objs
BY DEF Handle, Arrive, FirstCall, Bind, Unbind,
   CallPlugin, SelectFails, HookFails, Return, Provision,
   Deprovision, LastOperation, Update, ProvisionConflict, ProvisionInvalid,
   ProvisionSelect, CreateObject, CreateFails, ServicesCreated, InstanceCreated,
   InsertRow, InsertFails, DeprovisionGone, DeprovisionHook, DeprovisionSelect,
   DeleteObject, DeleteFails, ObjectsDeleted, DeleteRow, DeleteRowFails,
   LastOperationGone, LastOperationSelect, ListPods, ListFails, UpdateConflict,
   UpdatePanic, UpdateInvalid, UpdateSelect, GetObject, GetFails, PutObject, PutFails,
   ServicesUpdated, InstanceUpdated, UpdateRow, UpdateRowFails, Refuse, Accept, Keep,
   Lost, Quiet

-----------------------------------------------------------------------------
(* RecordedComplete: a row is written only by a goroutine that has been    *)
(* through all the objects, so the invariant has to say how far each       *)
(* goroutine has come.                                                     *)

MadeIn(o, n, S) == \A i \in S : o[<<n, i>>].st # "never"
Made(n, S) == MadeIn(objs, n, S)

Progress(w) ==
  /\ pc[w] \in {"create_service", "update_service"} =>
       Made(req[w].name, ServiceSlots \ todo[w])
  /\ pc[w] \in {"create_instance", "update_instance"} =>
       Made(req[w].name, ServiceSlots)
  /\ pc[w] = "create_instance" => Made(req[w].name, InstanceSlots \ todo[w])
  /\ pc[w] = "update_instance" => Made(req[w].name, UpdateSlots \ todo[w])
  /\ pc[w] \in {"insert", "update_row"} => Made(req[w].name, Deployed)

Complete == Inv /\ RecordedComplete /\ \A w \in Workers : Progress(w)

\* What has been made once stays made, whether it is deleted or not.
LEMMA MadeStays ==
  ASSUME Inv, [Next]_vars, NEW n \in Names, NEW S \in SUBSET Slots, Made(n, S)
  PROVE  MadeIn(objs', n, S)
<1>1. CASE UNCHANGED objs
  BY <1>1 DEF Made, MadeIn
<1>2. ASSUME NEW w \in Workers, Write(w, Created(w)) \/ Write(w, Deleted)
      PROVE  MadeIn(objs', n, S)
  BY <1>2 DEF Made, MadeIn, Write, Created, Deleted, Inv, TypeOK, Objects
<1> QED
  BY <1>1, <1>2, ObjectsStep DEF Next, Crash, vars

\* The object under the cursor is made, and the cursor moves on.
LEMMA AdvanceProgress ==
  ASSUME Complete, NEW w \in Workers, Write(w, Created(w)), Advance(w), Keep(w),
         pc[w] \in {"create_service", "create_instance", "update_service",
                    "update_instance"}
  PROVE  Progress(w)'
<1> DEFINE n == req[w].name
           c == Least(todo[w])
<1>1. n \in Names /\ Cursor(w) = <<n, c>>
  BY DEF Complete, Inv, KnowsRequest, AtProvision, AtUpdate, Valid, Cursor, Target
<1>2. /\ pc'[w] = pc[w] /\ req'[w] = req[w] /\ todo'[w] = todo[w] \ {c}
      /\ pc[w] \notin {"insert", "update_row"}
  BY DEF Advance, Goto, Keep, Complete, Inv, TypeOK
<1>3. ASSUME NEW S \in SUBSET Slots, Made(n, S \ todo[w])
      PROVE  MadeIn(objs', n, S \ (todo[w] \ {c}))
  <2> SUFFICES ASSUME NEW i \in S, i \notin todo[w] \/ i = c
               PROVE  objs'[<<n, i>>].st # "never"
    BY <1>2 DEF Made, MadeIn
  <2>1. <<n, i>> \in Objects
    BY <1>1 DEF Objects
  <2>2. CASE i = c
    BY <1>1, <2>1, <2>2 DEF Write, Created, Complete, Inv, TypeOK
  <2>3. CASE i # c
    BY <1>1, <1>3, <2>1, <2>3 DEF Write, Made, MadeIn, Complete, Inv, TypeOK
  <2> QED
    BY <2>2, <2>3
<1>4. ASSUME NEW S \in SUBSET Slots, Made(n, S)
      PROVE  MadeIn(objs', n, S)
  BY <1>1, <1>4 DEF Made, MadeIn, Write, Created, Objects, Complete, Inv, TypeOK
<1> QED
  BY <1>2, <1>3, <1>4, SlotSets DEF Progress, Complete, Made, MadeIn

\* The goroutine that takes the step.
LEMMA ActorProgress ==
  ASSUME Complete, NEW w \in Workers, Handle(w) \/ \E r \in Requests : Arrive(w, r)
  PROVE  Progress(w)'
<1>1. CASE pc'[w] \notin AtProvision \cup AtUpdate
  BY <1>1 DEF Progress, AtProvision, AtUpdate
<1>2. CASE ProvisionSelect(w) \/ UpdateSelect(w)
  BY <1>2 DEF ProvisionSelect, UpdateSelect, Accept, Goto, Progress, Made, MadeIn, Complete,
     Inv, TypeOK
<1>3. CASE (CreateObject(w) \/ PutObject(w)) /\ pc'[w] # "done"
  <2>1. Write(w, Created(w)) /\ Advance(w) /\ Keep(w)
    BY <1>3 DEF CreateObject, PutObject, Reply, Complete, Inv, TypeOK
  <2> QED
    BY <1>3, <2>1, AdvanceProgress DEF CreateObject, PutObject
<1>4. CASE ServicesCreated(w) \/ ServicesUpdated(w)
  BY <1>4 DEF ServicesCreated, ServicesUpdated, Goto, Keep, Quiet, Progress, Made, MadeIn,
     Complete, Inv, TypeOK
<1>5. CASE InstanceCreated(w) \/ InstanceUpdated(w)
  <2>1. Made(req[w].name, Deployed)
    BY <1>5 DEF InstanceCreated, InstanceUpdated, Progress, Made, MadeIn, Complete, Deployed,
       UpdateSlots, InstanceSlots
  <2> QED
    BY <1>5, <2>1 DEF InstanceCreated, InstanceUpdated, Goto, Keep, Quiet, Progress,
       Made, MadeIn, Complete, Inv, TypeOK
<1>6. CASE GetObject(w)
  BY <1>6 DEF GetObject, Progress, Made, MadeIn, Complete
<1> QED
  BY <1>1, <1>2, <1>3, <1>4, <1>5, <1>6
     DEF AtProvision, AtUpdate, Complete, Inv, TypeOK, Handle, Arrive, FirstCall, Bind, Unbind,
   CallPlugin, SelectFails,
   HookFails, Return, Provision, Deprovision, LastOperation, Update,
   ProvisionConflict, ProvisionInvalid, CreateFails, InsertRow, InsertFails,
   DeprovisionGone, DeprovisionHook, DeprovisionSelect, DeleteObject, DeleteFails,
   ObjectsDeleted, DeleteRow, DeleteRowFails, LastOperationGone, LastOperationSelect,
   ListPods, ListFails, UpdateConflict, UpdatePanic, UpdateInvalid, GetFails, PutFails,
   UpdateRow, UpdateRowFails, Refuse, Accept, Reply, Goto, Advance, Lost

LEMMA CompleteNext == Complete /\ [Next]_vars => Complete'
<1> SUFFICES ASSUME Complete, [Next]_vars
             PROVE  Complete'
  OBVIOUS
<1>1. Inv' /\ Inv
  BY InvNext DEF Complete
<1>2. ASSUME NEW w \in Workers, Handle(w) \/ \E r \in Requests : Arrive(w, r)
      PROVE  RecordedComplete' /\ \A x \in Workers : Progress(x)'
  <2>1. ASSUME NEW x \in Workers \ {w}
        PROVE  Progress(x)'
    <3>1. /\ pc'[x] = pc[x] /\ todo'[x] = todo[x] /\ req'[x] = req[x]
      BY <1>1, <1>2, OthersStep DEF Others
    <3>2. CASE pc[x] \in AtProvision \cup AtUpdate
      <4>1. req[x].name \in Names
        BY <1>1, <3>2 DEF Inv, KnowsRequest, Valid
      <4>2. ASSUME NEW S \in SUBSET Slots, Made(req[x].name, S)
            PROVE  MadeIn(objs', req[x].name, S)
        BY <1>1, <4>1, <4>2, MadeStays
      <4> QED
        BY <3>1, <4>2, SlotSets DEF Complete, Progress, Deployed, Made, MadeIn
    <3> QED
      BY <3>1, <3>2 DEF Progress, AtProvision, AtUpdate
  <2>2. RecordedComplete'
    <3> SUFFICES ASSUME NEW k \in Keys, rows'[k] # NoRow
                 PROVE  MadeIn(objs', rows'[k].yaml.name, Deployed)
      BY DEF RecordedComplete, Made, MadeIn
    <3>1. CASE rows'[k] = rows[k]
      <4>1. rows[k] \in Row /\ Made(rows[k].yaml.name, Deployed)
        BY <1>1, <3>1 DEF Complete, RecordedComplete, Made, MadeIn, Inv, TypeOK
      <4> QED
        BY <1>1, <3>1, <4>1, MadeStays, SlotSets DEF Row, Deployed
    <3>2. CASE rows'[k] # rows[k]
      <4>1. pc[w] \in {"insert", "update_row"} /\ UNCHANGED objs
        BY <1>1, <1>2, <3>2, RowsStep DEF Remove, Inv, TypeOK
      <4>2. rows'[k].yaml.name = req[w].name
        <5>1. CASE Insert(w)
          BY <1>1, <3>2, <5>1 DEF Insert, NewRow, Rendered, Inv, TypeOK
        <5>2. CASE Revise(w)
          <6>1. k = KeyOf[req[w].id] /\ RowOf(w) # NoRow
            BY <1>1, <3>2, <5>2 DEF Revise, Inv, TypeOK
          <6>2. RowOf(w) \in Row
            BY <1>1, <6>1 DEF RowOf, Inv, TypeOK
          <6> QED
            BY <1>1, <5>2, <6>1, <6>2 DEF Revise, Rendered, RowOf, Row, Inv, TypeOK
        <5> QED
          BY <1>2, <3>2, <4>1, <5>1, <5>2, RowsStep
      <4> QED
        BY <4>1, <4>2 DEF Complete, Progress, Made, MadeIn
    <3> QED
      BY <3>1, <3>2
  <2> QED
    BY <1>2, <2>1, <2>2, ActorProgress
<1>3. CASE Crash
  <2>1. RecordedComplete'
    BY <1>3 DEF Crash, Complete, RecordedComplete
  <2>2. ASSUME NEW x \in Workers
        PROVE  Progress(x)'
    BY <1>3 DEF Crash, Progress
  <2> QED
    BY <1>1, <2>1, <2>2 DEF Complete
<1>4. CASE UNCHANGED vars
  <2>1. RecordedComplete'
    BY <1>4 DEF vars, Complete, RecordedComplete
  <2>2. ASSUME NEW x \in Workers
        PROVE  Progress(x)'
    BY <1>4 DEF vars, local, Complete, Progress, Made, MadeIn
  <2> QED
    BY <1>1, <2>1, <2>2 DEF Complete
<1> QED
  BY <1>1, <1>2, <1>3, <1>4 DEF Complete, Next

\* Whatever fails, races or is cut off, no row ever describes a deployment of
\* which some object was never made.
THEOREM RecordsAreComplete == Spec => []RecordedComplete
<1>1. Init => Complete
  BY InvInit DEF Init, Complete, RecordedComplete, Progress
<1>2. Complete => RecordedComplete
  BY DEF Complete
<1> QED
  BY <1>1, <1>2, CompleteNext, PTL DEF Spec

-----------------------------------------------------------------------------
(* OrphansStay.  No strengthening beyond Inv is needed: Orphaned says of   *)
(* every goroutine what keeps it from the object.                          *)

\* Nobody deletes the orphan, ...
LEMMA OrphanLives ==
  ASSUME Inv, [Next]_vars, NEW n \in Names, NEW i \in Slots, Orphaned(n, i)
  PROVE  objs'[<<n, i>>].st = "live"
<1>1. <<n, i>> \in Objects
  BY DEF Objects
<1>2. ASSUME NEW w \in Workers, Write(w, Created(w))
      PROVE  objs'[<<n, i>>].st = "live"
  BY <1>1, <1>2 DEF Write, Created, Orphaned, Live, Inv, TypeOK
<1>3. ASSUME NEW w \in Workers, Write(w, Deleted), pc[w] = "delete"
      PROVE  objs'[<<n, i>>].st = "live"
  <2>1. seen[w].yaml.name # n /\ Target(w) = seen[w].yaml.name
    BY <1>3 DEF Orphaned, Deleting, Target, Inv, KnowsRequest
  <2> QED
    BY <1>1, <1>3, <2>1 DEF Write, Cursor, Orphaned, Live, Inv, TypeOK
<1> QED
  BY <1>2, <1>3, ObjectsStep DEF Next, Crash, vars, Orphaned, Live

\* ... no row is made to name it, ...
LEMMA OrphanUnrecorded ==
  ASSUME Inv, [Next]_vars, NEW n \in Names, NEW i \in Slots, Orphaned(n, i),
         NEW k \in Keys, rows'[k] # NoRow
  PROVE  rows'[k].yaml.name # n
<1>1. CASE rows'[k] = rows[k]
  BY <1>1 DEF Orphaned
<1>2. CASE rows'[k] # rows[k]
  <2>1. PICK w \in Workers : Handle(w) \/ \E r \in Requests : Arrive(w, r)
    BY <1>2 DEF Next, Crash, vars
  <2>2. CASE pc[w] = "insert" /\ Insert(w)
    <3>1. req[w].name # n
      BY <2>2 DEF Orphaned, Provisioning, Ahead
    <3> QED
      BY <1>2, <2>2, <3>1 DEF Insert, NewRow, Rendered, Inv, TypeOK
  <2>3. CASE pc[w] = "update_row" /\ Revise(w)
    <3>1. req[w].name # n
      BY <2>3 DEF Orphaned, Updating
    <3>2. k = KeyOf[req[w].id] /\ RowOf(w) # NoRow /\ RowOf(w) \in Row
      BY <1>2, <2>3 DEF Revise, RowOf, Inv, TypeOK
    <3> QED
      BY <2>3, <3>1, <3>2 DEF Revise, Rendered, RowOf, Row, Inv, TypeOK
  <2>4. CASE pc[w] = "delete_row" /\ Remove(w)
    BY <1>2, <2>4 DEF Remove, Inv, TypeOK
  <2> QED
    BY <1>2, <2>1, <2>2, <2>3, <2>4, RowsStep
<1> QED
  BY <1>1, <1>2

\* ... and whoever comes to work on its name has yet to run into it.
LEMMA OrphanAhead ==
  ASSUME Inv, NEW n \in Names, NEW i \in ServiceSlots \cup InstanceSlots,
         Orphaned(n, i), NEW w \in Workers,
         Handle(w) \/ \E r \in Requests : Arrive(w, r)
  PROVE  ~Deleting(w, n)' /\ (Provisioning(w, n)' => i \in Ahead(w)')
<1>1. CASE pc'[w] \notin AtProvision \cup {"delete"}
  BY <1>1 DEF Deleting, Provisioning, AtProvision
<1>2. CASE ProvisionSelect(w)
  BY <1>2 DEF ProvisionSelect, Accept, Goto, Deleting, Ahead, Inv, TypeOK
<1>3. CASE DeprovisionSelect(w)
  <2>1. RowOf(w).yaml.name # n
    BY <1>3, RowOfType DEF DeprovisionSelect, Asks, Orphaned, RowOf, Inv, KnowsRequest
  <2> QED
    BY <1>3, <2>1 DEF DeprovisionSelect, Accept, Goto, Deleting, Provisioning, Inv, TypeOK
<1>4. CASE DeleteObject(w) /\ pc'[w] = "delete"
  BY <1>4 DEF DeleteObject, Keep, Deleting, Provisioning, Orphaned
<1>5. CASE CreateObject(w) /\ pc'[w] # "done"
  <2>1. ~Live(Cursor(w)) /\ Advance(w) /\ Keep(w)
    BY <1>5 DEF CreateObject, Reply, Inv, TypeOK
  <2>2. CASE req[w].name = n
    <3>1. Cursor(w) = <<n, Least(todo[w])>>
      BY <1>5, <2>2 DEF CreateObject, Cursor, Target, Inv, KnowsRequest, AtProvision
    <3>2. i # Least(todo[w])
      BY <2>1, <3>1 DEF Orphaned
    <3>3. i \in Ahead(w) /\ pc'[w] = pc[w] /\ todo'[w] = todo[w] \ {Least(todo[w])}
      BY <1>5, <2>1, <2>2 DEF CreateObject, Orphaned, Provisioning, Advance, Goto, Inv, TypeOK
    <3> QED
      BY <1>5, <3>2, <3>3 DEF CreateObject, Ahead, Deleting
  <2>3. CASE req[w].name # n
    BY <1>5, <2>1, <2>3 DEF CreateObject, Advance, Goto, Keep, Provisioning, Deleting,
       Inv, TypeOK
  <2> QED
    BY <2>2, <2>3
<1>6. CASE ServicesCreated(w)
  BY <1>6 DEF ServicesCreated, Goto, Keep, Provisioning, Deleting, Orphaned, Ahead, Inv,
     TypeOK
<1>7. CASE InstanceCreated(w)
  BY <1>7 DEF InstanceCreated, Goto, Keep, Provisioning, Deleting, Orphaned, Ahead, Inv,
     TypeOK
<1> QED
  BY <1>1, <1>2, <1>3, <1>4, <1>5, <1>6, <1>7
     DEF AtProvision, Inv, TypeOK, Handle, Arrive, FirstCall, Bind, Unbind,
   CallPlugin, SelectFails, HookFails, Return,
   Provision, Deprovision, LastOperation, Update, ProvisionConflict, ProvisionInvalid,
   CreateFails, InsertRow, InsertFails, DeprovisionGone, DeprovisionHook, DeleteObject,
   DeleteFails, ObjectsDeleted, DeleteRow, DeleteRowFails, LastOperationGone,
   LastOperationSelect, ListPods, ListFails, UpdateConflict, UpdatePanic,
   UpdateInvalid, UpdateSelect, GetObject, GetFails, PutObject, PutFails,
   ServicesUpdated, InstanceUpdated, UpdateRow, UpdateRowFails, Refuse, Accept, Reply,
   Goto, Advance, Lost

LEMMA OrphanNext ==
  ASSUME Inv, [Next]_vars, NEW n \in Names, NEW i \in ServiceSlots \cup InstanceSlots,
         Orphaned(n, i), \A w \in Workers : ~Updating(w, n)'
  PROVE  Orphaned(n, i)'
<1>1. i \in Slots
  BY SlotSets
<1>2. Live(<<n, i>>)' /\ \A k \in Keys : rows'[k] # NoRow => rows'[k].yaml.name # n
  BY <1>1, OrphanLives, OrphanUnrecorded DEF Live
<1>3. ASSUME NEW x \in Workers
      PROVE  ~Deleting(x, n)' /\ (Provisioning(x, n)' => i \in Ahead(x)')
  <2>1. ASSUME NEW w \in Workers, Handle(w) \/ \E r \in Requests : Arrive(w, r), x # w
        PROVE  ~Deleting(x, n)' /\ (Provisioning(x, n)' => i \in Ahead(x)')
    BY <2>1, OthersStep DEF Others, Orphaned, Deleting, Provisioning, Ahead
  <2>2. CASE Crash
    BY <2>2 DEF Crash, Deleting, Provisioning
  <2>3. CASE UNCHANGED vars
    BY <2>3 DEF vars, local, Orphaned, Deleting, Provisioning, Ahead
  <2> QED
    BY <2>1, <2>2, <2>3, OrphanAhead DEF Next
<1> QED
  BY <1>2, <1>3 DEF Orphaned

\* An orphan is never deleted and its name never recorded, unless an Update
\* picks the name.
THEOREM OrphansAreForever == Spec => OrphansStay
<1>1. Inv /\ [Next]_vars =>
        [\A n \in Names, i \in ServiceSlots \cup InstanceSlots :
           Orphaned(n, i) =>
             Orphaned(n, i)' \/ \E w \in Workers : Updating(w, n)']_vars
  BY OrphanNext
<1> QED
  BY <1>1, InvInit, InvNext, PTL DEF Spec, OrphansStay
=============================================================================

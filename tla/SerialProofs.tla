---------------------------- MODULE SerialProofs ----------------------------
(***************************************************************************)
(* Proofs about SerialPlatform, for every value of its constants: what the *)
(* platform's discipline (one request per instance in flight) buys.        *)
(***************************************************************************)
EXTENDS SerialPlatform, BrokerProofs, WellFoundedInduction

(* Three invariants, each on top of the one before it: what a goroutine    *)
(* read of its instance's row still holds (Exclusive); the objects behind  *)
(* a row are its instance's alone (Owned); the objects a Provision has     *)
(* come past are live (Leased).                                            *)

Busy(w) == pc[w] # "idle"

OneEach ==
  \A w, x \in Workers : Busy(w) /\ Busy(x) /\ req[w].id = req[x].id => w = x

Keyed == \A k \in Keys : rows[k] # NoRow => KeyOf[rows[k].id] = k

AtDelete == {"delete", "delete_row"}

\* The row w read at its SELECT is the row there still is.
Fresh(w) ==
  /\ pc[w] \in AtProvision \cup AtUpdate => RowOf(w) = NoRow
  /\ pc[w] \in AtDelete => /\ req[w].op = "deprovision"
                           /\ RowOf(w) # NoRow /\ seen[w] = RowOf(w)

Exclusive == Inv /\ OneEach /\ Keyed /\ \A w \in Workers : Fresh(w)

\* The platform deploys instance i under name n.
Belongs(n, i) == \E r \in Deploying : r.name = n /\ r.id = i

GoneIn(o, n, S) == \A i \in S : o[<<n, i>>].st # "live"
Gone(n, S) == GoneIn(objs, n, S)

Freed(w) == pc[w] = "done" /\ req[w].op = "deprovision" /\ reply[w] = "200"

\* How far w's Deprovision has come.
Clears(w) ==
  /\ pc[w] = "delete"     => Gone(seen[w].yaml.name, Slots \ todo[w])
  /\ pc[w] = "delete_row" => Gone(seen[w].yaml.name, Slots)
  /\ Freed(w) => /\ RowOf(w) = NoRow /\ seen[w] \in Row
                 /\ Belongs(seen[w].yaml.name, req[w].id)
                 /\ Gone(seen[w].yaml.name, Slots)

Owned ==
  /\ Exclusive
  /\ \A w \in Workers : Busy(w) => req[w] \in Requests
  /\ \A k \in Keys : rows[k] # NoRow => Belongs(rows[k].yaml.name, rows[k].id)
  /\ \A w \in Workers : Clears(w)

\* The slots a Provision creates; Update's are among them.
Provisioned == ServiceSlots \cup InstanceSlots

AllLiveIn(o, n, S) == \A i \in S : o[<<n, i>>].st = "live"
AllLive(n, S) == AllLiveIn(objs, n, S)

\* How far w's Provision has come, and where w is in its list of objects.
Builds(w) ==
  /\ pc[w] = "create_service" =>
       todo[w] \subseteq ServiceSlots /\ AllLive(req[w].name, ServiceSlots \ todo[w])
  /\ pc[w] = "create_instance" =>
       todo[w] \subseteq InstanceSlots /\ AllLive(req[w].name, Provisioned \ todo[w])
  /\ pc[w] = "insert" => AllLive(req[w].name, Provisioned)
  /\ pc[w] = "update_service"  => todo[w] \subseteq ServiceSlots
  /\ pc[w] = "update_instance" => todo[w] \subseteq UpdateSlots
  /\ link[w] # "none" =>
       pc[w] \in {"update_service", "update_instance"} /\ todo[w] # {}

Leased ==
  /\ Owned
  /\ \A n \in Names, i \in Slots : Live(<<n, i>>) => i \in Provisioned
  /\ \A w \in Workers : Builds(w)

-----------------------------------------------------------------------------
(* Steps of one goroutine. *)

LEMMA LeastIn ==
  ASSUME NEW S \in SUBSET Slots, S # {}
  PROVE  Least(S) \in S
<1> DEFINE Less == {p \in Nat \X Nat : p[1] < p[2]}
<1>1. S \subseteq Nat
  BY DEF Slots
<1>2. IsWellFoundedOn(Less, Nat)
  BY NatLessThanWellFounded DEF OpToRel
<1>3. PICK i \in S : \A j \in S : ~(<<j, i>> \in Less)
  <2> HIDE DEF Less
  <2> QED
    BY <1>1, <1>2, WFMin
<1>4. ASSUME NEW j \in S
      PROVE  i <= j
  <2>1. /\ i \in Nat /\ j \in Nat /\ ~(<<j, i>> \in Less)
        /\ <<j, i>> \in Nat \X Nat /\ <<j, i>>[1] = j /\ <<j, i>>[2] = i
    BY <1>1, <1>3
  <2>2. ~(j < i)
    BY <2>1
  <2> QED
    BY <2>1, <2>2
<1> QED
  BY <1>4 DEF Least

Acts(w) == Handle(w) \/ \E r \in Requests : SerialArrive(w, r)

\* w makes an object, ...
Creates(w) ==
  /\ pc[w] \in {"create_service", "create_instance", "update_service", "update_instance"}
  /\ pc[w] \in {"create_service", "create_instance"} => todo[w] # {} /\ ~Live(Cursor(w))
  /\ pc[w] \in {"update_service", "update_instance"} => link[w] # "none"
  /\ Write(w, Created(w)) /\ Keep(w)

\* ... and goes on to the next one.
Makes(w) == Creates(w) /\ Advance(w)

Deletes(w) == pc[w] = "delete" /\ todo[w] # {} /\ Write(w, Deleted) /\ Keep(w)

Clearing(w) ==
  \/ DeprovisionSelect(w)
  \/ DeleteObject(w) \/ ObjectsDeleted(w)

Deploys(w) ==
  \/ ProvisionSelect(w) \/ UpdateSelect(w)  \/ Makes(w) \/ GetObject(w)
  \/ ServicesCreated(w) \/ InstanceCreated(w)
  \/ ServicesUpdated(w) \/ InstanceUpdated(w)

\* Every step but those above takes w out of the phases with effects.
LEMMA PhaseStep ==
  ASSUME Inv, NEW w \in Workers, Acts(w)
  PROVE  \/ pc'[w] \notin AtProvision \cup AtUpdate \cup AtDelete
         \/ Clearing(w) \/ Deploys(w)
BY DEF Acts, SerialArrive, Clearing, Deploys, Makes, Creates, AtProvision, AtUpdate, AtDelete, Inv, TypeOK,
   Handle, Arrive, FirstCall, Bind, Unbind, CallPlugin, SelectFails, HookFails, Return,
   Provision, Deprovision, LastOperation, Update, ProvisionConflict, ProvisionInvalid,
   CreateObject, CreateFails, InsertRow, InsertFails, DeprovisionGone, DeprovisionHook,
   DeleteFails, DeleteRow, DeleteRowFails, LastOperationGone,
   LastOperationSelect, ListPods, ListFails, UpdateConflict, UpdatePanic, UpdateInvalid,
   GetFails, PutObject, PutFails, UpdateRow, UpdateRowFails, Refuse, Accept, Reply, Lost, Goto

\* The request is what arrived, until the reply has been sent.
LEMMA RequestStep ==
  ASSUME Inv, NEW w \in Workers, Handle(w)
  PROVE  Busy(w) /\ (Busy(w)' => req'[w] = req[w])
BY DEF Busy, Inv, TypeOK, Handle, Bind, Unbind, CallPlugin, SelectFails, HookFails, Return,
   Provision, Deprovision, LastOperation, Update, Asks, ProvisionConflict, ProvisionInvalid,
   ProvisionSelect, CreateObject, CreateFails, ServicesCreated, InstanceCreated,
   InsertRow, InsertFails, DeprovisionGone, DeprovisionHook, DeprovisionSelect,
   DeleteObject, DeleteFails, ObjectsDeleted, DeleteRow, DeleteRowFails,
   LastOperationGone, LastOperationSelect, ListPods, ListFails, UpdateConflict,
   UpdatePanic, UpdateInvalid, UpdateSelect, GetObject, GetFails, PutObject, PutFails,
   ServicesUpdated, InstanceUpdated, UpdateRow, UpdateRowFails, Refuse, Accept, Keep,
   Reply, Lost

LEMMA OthersReply ==
  ASSUME Inv, NEW w \in Workers, Acts(w), NEW x \in Workers \ {w}
  PROVE  reply'[x] = reply[x]
BY DEF Inv, TypeOK, Acts, SerialArrive, Arrive, Handle, Bind, Unbind, CallPlugin, SelectFails,
   HookFails, Return, Provision, Deprovision, LastOperation, Update, ProvisionConflict,
   ProvisionInvalid, ProvisionSelect, CreateObject, CreateFails, ServicesCreated,
   InstanceCreated, InsertRow, InsertFails, DeprovisionGone, DeprovisionHook,
   DeprovisionSelect, DeleteObject, DeleteFails, ObjectsDeleted, DeleteRow, DeleteRowFails,
   LastOperationGone, LastOperationSelect, ListPods, ListFails, UpdateConflict,
   UpdatePanic, UpdateInvalid, UpdateSelect, GetObject, GetFails, PutObject, PutFails,
   ServicesUpdated, InstanceUpdated, UpdateRow, UpdateRowFails, Refuse, Accept, Advance, Goto,
   Reply, Lost

\* In a step that stays in a phase, the table and the request stay as they are.
LEMMA PhaseKeeps ==
  ASSUME Inv, NEW w \in Workers, Clearing(w) \/ Deploys(w)
  PROVE  UNCHANGED <<rows, req>> /\ Busy(w)
BY DEF Clearing, Deploys, Makes, Creates, ProvisionSelect, UpdateSelect, DeprovisionSelect, DeleteObject,
   ObjectsDeleted, GetObject, ServicesCreated, InstanceCreated, ServicesUpdated,
   InstanceUpdated, Accept, Keep, Asks, Busy

LEMMA WritesStep ==
  ASSUME NEW w \in Workers, Acts(w)
  PROVE  UNCHANGED objs \/ Creates(w) \/ Deletes(w)
BY DEF Creates, Deletes, Acts, SerialArrive, Arrive, Handle, Bind, Unbind, CallPlugin,
   SelectFails, HookFails, Return, Provision, Deprovision, LastOperation, Update,
   ProvisionConflict, ProvisionInvalid, ProvisionSelect, CreateObject, CreateFails,
   ServicesCreated, InstanceCreated, InsertRow, InsertFails, DeprovisionGone,
   DeprovisionHook, DeprovisionSelect, DeleteObject, DeleteFails, ObjectsDeleted, DeleteRow,
   DeleteRowFails, LastOperationGone, LastOperationSelect, ListPods, ListFails,
   UpdateConflict, UpdatePanic, UpdateInvalid, UpdateSelect, GetObject, GetFails, PutObject,
   PutFails, ServicesUpdated, InstanceUpdated, UpdateRow, UpdateRowFails, Refuse, Accept,
   Lost, Delete, Quiet

\* What a goroutine remembers of a Get is its own and ends with the phase.
LEMMA LinkStep ==
  ASSUME Inv, NEW w \in Workers, Acts(w)
  PROVE  /\ \A x \in Workers \ {w} : link'[x] # "none" => link[x] # "none"
         /\ link'[w] # "none" =>
              GetObject(w) \/ (pc[w] \in {"idle", "done"} /\ link'[w] = link[w])
<1>1. \/ pc[w] \in {"idle", "done"} /\ link' = link
      \/ GetObject(w) \/ Quiet(w) \/ Write(w, Created(w)) \/ Write(w, Deleted)
  BY DEF Acts, SerialArrive, Arrive, Handle, Bind, Unbind, CallPlugin,
     SelectFails, HookFails, Return, Provision, Deprovision, LastOperation, Update,
     ProvisionConflict, ProvisionInvalid, ProvisionSelect, CreateObject, CreateFails,
     ServicesCreated, InstanceCreated, InsertRow, InsertFails, DeprovisionGone,
     DeprovisionHook, DeprovisionSelect, DeleteObject, DeleteFails, ObjectsDeleted, DeleteRow,
     DeleteRowFails, LastOperationGone, LastOperationSelect, ListPods, ListFails,
     UpdateConflict, UpdatePanic, UpdateInvalid, UpdateSelect, GetFails, PutObject,
     PutFails, ServicesUpdated, InstanceUpdated, UpdateRow, UpdateRowFails, Refuse, Accept,
     Lost, Delete
<1>2. link \in [Workers -> {"none", "found", "missing", "stale"}]
  BY DEF Inv, TypeOK
<1>3. CASE GetObject(w)
  BY <1>2, <1>3 DEF GetObject
<1>4. CASE Quiet(w)
  BY <1>2, <1>4 DEF Quiet
<1>5. ASSUME NEW v, Write(w, v)
      PROVE  /\ link'[w] = "none"
             /\ \A x \in Workers \ {w} : link'[x] # "none" => link[x] # "none"
  BY <1>2, <1>5 DEF Write
<1> QED
  BY <1>1, <1>3, <1>4, <1>5

LEMMA SerialRefines == ASSUME SerialNext PROVE Next
BY DEF SerialNext, SerialArrive, Next

LEMMA ActsIs ==
  ASSUME NEW w \in Workers, Acts(w)
  PROVE  Handle(w) \/ \E r \in Requests : Arrive(w, r)
BY DEF Acts, SerialArrive

-----------------------------------------------------------------------------
(* Exclusive: with ids the collation tells apart, nobody else changes the  *)
(* row a goroutine has read.                                               *)

LEMMA RowOfOthers ==
  ASSUME DistinctKeys, Exclusive, NEW w \in Workers, Acts(w),
         NEW x \in Workers \ {w}, Busy(x)
  PROVE  RowOf(x)' = RowOf(x)
<1>1. req'[x] = req[x] /\ req[x] \in Request
  BY ActsIs, OthersStep DEF Others, Exclusive, Inv, KnowsRequest, Busy
<1>2. CASE UNCHANGED rows
  BY <1>1, <1>2 DEF RowOf
<1>3. CASE pc[w] \in {"insert", "delete_row", "update_row"}
  <2>1. Busy(w) /\ req[w] \in Request
    BY <1>3 DEF Busy, Exclusive, Inv, KnowsRequest
  <2>2. KeyOf[req[w].id] # KeyOf[req[x].id]
    BY <1>1, <2>1 DEF DistinctKeys, Exclusive, OneEach, Request
  <2>3. KeyOf[req[x].id] \in Keys
    BY <1>1, KeyAssumption DEF Request
  <2>4. rows'[KeyOf[req[x].id]] = rows[KeyOf[req[x].id]]
    BY <1>3, <2>2, <2>3, ActsIs, RowsStep
       DEF Insert, Remove, Revise, Exclusive, Inv, TypeOK
  <2> QED
    BY <1>1, <2>4 DEF RowOf
<1> QED
  BY <1>2, <1>3, ActsIs, RowsStep

LEMMA OneEachStep ==
  ASSUME Exclusive, NEW w \in Workers, Acts(w)
  PROVE  OneEach'
<1>1. \A x \in Workers \ {w} : pc'[x] = pc[x] /\ req'[x] = req[x]
  BY ActsIs, OthersStep DEF Others, Exclusive
<1>2. CASE Handle(w)
  BY <1>1, <1>2, RequestStep DEF Exclusive, OneEach, Busy
<1>3. ASSUME NEW r \in Requests, SerialArrive(w, r)
      PROVE  OneEach'
  BY <1>1, <1>3 DEF SerialArrive, Arrive, Exclusive, OneEach, Busy, Inv, TypeOK
<1> QED
  BY <1>2, <1>3 DEF Acts

LEMMA KeyedStep ==
  ASSUME Exclusive, NEW w \in Workers, Acts(w)
  PROVE  Keyed'
<1> SUFFICES ASSUME NEW k \in Keys, rows'[k] # NoRow, rows'[k] # rows[k]
             PROVE  KeyOf[rows'[k].id] = k
  BY DEF Keyed, Exclusive
<1>1. CASE Insert(w)
  BY <1>1 DEF Insert, NewRow, Exclusive, Inv, TypeOK
<1>2. CASE Revise(w)
  <2>1. k = KeyOf[req[w].id] /\ RowOf(w) = rows[k] /\ rows[k] # NoRow /\ rows[k] \in Row
    BY <1>2 DEF Revise, RowOf, Exclusive, Inv, TypeOK
  <2>2. rows'[k].id = rows[k].id
    BY <1>2, <2>1 DEF Revise, Row, Exclusive, Inv, TypeOK
  <2> QED
    BY <2>1, <2>2 DEF Keyed, Exclusive
<1>3. CASE Remove(w)
  BY <1>3 DEF Remove, Exclusive, Inv, TypeOK
<1> QED
  BY <1>1, <1>2, <1>3, ActsIs, RowsStep

\* A handler whose id is not that of the row it read found no row.
LEMMA NotExists ==
  ASSUME DistinctKeys, Exclusive, NEW w \in Workers, req[w] \in Request, ~Exists(w)
  PROVE  RowOf(w) = NoRow
<1> SUFFICES ASSUME RowOf(w) # NoRow
             PROVE  FALSE
  OBVIOUS
<1>1. RowOf(w) \in Row /\ KeyOf[req[w].id] \in Keys
  BY RowOfType DEF Exclusive
<1>2. KeyOf[RowOf(w).id] = KeyOf[req[w].id]
  BY <1>1 DEF Exclusive, Keyed, RowOf
<1>3. RowOf(w).id = req[w].id
  BY <1>1, <1>2 DEF DistinctKeys, Row, Request
<1> QED
  BY <1>3 DEF Exists, RowId

LEMMA ActorFresh ==
  ASSUME DistinctKeys, Exclusive, NEW w \in Workers, Acts(w)
  PROVE  Fresh(w)'
<1>1. CASE pc'[w] \notin AtProvision \cup AtUpdate \cup AtDelete
  BY <1>1 DEF Fresh
<1>2. CASE Clearing(w) \/ Deploys(w)
  <2>1. UNCHANGED <<rows, req>> /\ req[w] \in Request /\ RowOf(w)' = RowOf(w)
    BY <1>2, PhaseKeeps DEF Busy, Exclusive, Inv, KnowsRequest, RowOf
  <2>2. CASE ProvisionSelect(w) \/ UpdateSelect(w)
    BY <2>1, <2>2, NotExists DEF ProvisionSelect, UpdateSelect, Accept, Goto, Fresh,
       AtDelete, Exclusive, Inv, TypeOK
  <2>3. CASE DeprovisionSelect(w)
    BY <2>1, <2>3 DEF DeprovisionSelect, Asks, Accept, Goto, Fresh, AtDelete, AtProvision,
       AtUpdate, Exclusive, Inv, TypeOK
  <2>4. CASE DeleteObject(w) \/ ObjectsDeleted(w)
    BY <2>1, <2>4 DEF DeleteObject, ObjectsDeleted, Advance, Goto, Keep, Fresh, AtDelete,
       AtProvision, AtUpdate, Exclusive, Inv, TypeOK
  <2>5. CASE Makes(w) \/ GetObject(w) \/ ServicesCreated(w) \/ InstanceCreated(w)
             \/ ServicesUpdated(w) \/ InstanceUpdated(w)
    BY <2>1, <2>5 DEF Makes, Creates, GetObject, ServicesCreated, InstanceCreated, ServicesUpdated,
       InstanceUpdated, Advance, Goto, Fresh, AtDelete, AtProvision,
       AtUpdate, Exclusive, Inv, TypeOK
  <2> QED
    BY <1>2, <2>2, <2>3, <2>4, <2>5 DEF Clearing, Deploys
<1> QED
  BY <1>1, <1>2, PhaseStep DEF Exclusive

LEMMA ExclusiveNext ==
  ASSUME DistinctKeys, Exclusive, [SerialNext]_vars
  PROVE  Exclusive'
<1>1. Inv'
  BY SerialRefines, InvNext DEF Exclusive
<1>2. ASSUME NEW w \in Workers, Acts(w)
      PROVE  Exclusive'
  <2>1. ASSUME NEW x \in Workers \ {w}
        PROVE  Fresh(x)'
    <3>1. pc'[x] = pc[x] /\ req'[x] = req[x] /\ seen'[x] = seen[x]
      BY <1>2, ActsIs, OthersStep DEF Others, Exclusive
    <3>2. CASE Busy(x)
      BY <1>2, <3>1, <3>2, RowOfOthers DEF Exclusive, Fresh
    <3>3. CASE ~Busy(x)
      BY <3>1, <3>3 DEF Fresh, Busy, AtProvision, AtUpdate, AtDelete
    <3> QED
      BY <3>2, <3>3
  <2> QED
    BY <1>1, <1>2, <2>1, OneEachStep, KeyedStep, ActorFresh DEF Exclusive
<1>3. CASE Crash
  BY <1>1, <1>3 DEF Crash, Exclusive, OneEach, Keyed, Fresh, Busy, AtProvision, AtUpdate,
     AtDelete
<1>4. CASE UNCHANGED vars
  BY <1>1, <1>4 DEF vars, local, Exclusive, OneEach, Keyed, Fresh, Busy, RowOf
<1> QED
  BY <1>2, <1>3, <1>4 DEF SerialNext, Acts

LEMMA ExclusiveInit == Init => Exclusive
BY InvInit DEF Init, Exclusive, OneEach, Keyed, Fresh, Busy, AtProvision, AtUpdate, AtDelete

\* Where the collation tells ids apart and the platform keeps one request per
\* instance in flight, a Deprovision works from a copy of the row that stays
\* true until it deletes the row.
THEOREM CopyStaysTrue == DistinctKeys => (SerialSpec => []DeletesWhatIsRecorded)
<1> SUFFICES ASSUME DistinctKeys
             PROVE  SerialSpec => []DeletesWhatIsRecorded
  OBVIOUS
<1>1. Exclusive => DeletesWhatIsRecorded
  BY DEF Exclusive, Fresh, AtDelete, DeletesWhatIsRecorded
<1>2. Exclusive /\ [SerialNext]_vars => Exclusive'
  BY ExclusiveNext
<1> QED
  BY <1>1, <1>2, ExclusiveInit, PTL DEF SerialSpec

-----------------------------------------------------------------------------
(* Owned: with a name for each instance, nobody else touches the objects   *)
(* a goroutine works on.                                                   *)

Apart == DistinctKeys /\ DistinctNames

\* Whoever deploys under a name has it from the platform.
LEMMA DeployerOwns ==
  ASSUME Owned, NEW w \in Workers, pc[w] \in AtProvision \cup AtUpdate
  PROVE  req[w].name \in Names /\ Belongs(req[w].name, req[w].id)
<1>1. /\ req[w] \in Requests /\ req[w].name \in Names
      /\ req[w].op \in {"provision", "update"}
  BY DEF Owned, Exclusive, Inv, KnowsRequest, Valid, Busy, AtProvision, AtUpdate
<1> QED
  BY <1>1 DEF Belongs, Deploying

\* Whoever deletes does so under a name of the instance it was asked for.
LEMMA DeleterOwns ==
  ASSUME DistinctKeys, Owned, NEW w \in Workers, pc[w] \in AtDelete
  PROVE  /\ req[w].op = "deprovision" /\ req[w] \in Request
         /\ seen[w] \in Row /\ seen[w] = RowOf(w) /\ seen[w].id = req[w].id
         /\ KeyOf[req[w].id] \in Keys
         /\ seen[w].yaml.name \in Names /\ Belongs(seen[w].yaml.name, req[w].id)
<1>1. /\ req[w].op = "deprovision" /\ req[w] \in Request
      /\ RowOf(w) # NoRow /\ seen[w] = RowOf(w)
  BY DEF Owned, Exclusive, Inv, KnowsRequest, Fresh, AtDelete
<1>2. KeyOf[req[w].id] \in Keys /\ seen[w] \in Row
  BY <1>1, RowOfType DEF Owned, Exclusive
<1>3. seen[w].id = req[w].id
  BY <1>1, <1>2 DEF Owned, Exclusive, Keyed, RowOf, DistinctKeys, Row, Request
<1> QED
  BY <1>1, <1>2, <1>3 DEF Owned, RowOf, Row

LEMMA OneOwner ==
  ASSUME DistinctNames, NEW n, NEW i, NEW j, Belongs(n, i), Belongs(n, j)
  PROVE  i = j
BY DEF DistinctNames, Belongs

\* What has been deleted under an instance's name stays deleted while the
\* instance's one goroutine is another than w.
LEMMA GoneStays ==
  ASSUME Apart, Owned, NEW w \in Workers, Acts(w), NEW x \in Workers \ {w}, Busy(x),
         NEW n \in Names, Belongs(n, req[x].id), NEW S \in SUBSET Slots, Gone(n, S)
  PROVE  GoneIn(objs', n, S)
<1> SUFFICES ASSUME NEW i \in S
             PROVE  objs'[<<n, i>>].st # "live"
  BY DEF GoneIn
<1>1. <<n, i>> \in Objects /\ objs[<<n, i>>].st # "live"
  BY DEF Objects, Gone, GoneIn
<1>2. CASE Write(w, Created(w)) /\ pc[w] \in AtProvision \cup AtUpdate
  <2>1. Belongs(req[w].name, req[w].id) /\ Busy(w)
    BY <1>2, DeployerOwns DEF Busy, AtProvision, AtUpdate
  <2>2. req[w].id # req[x].id
    BY <2>1 DEF Owned, Exclusive, OneEach
  <2>3. req[w].name # n
    BY <2>1, <2>2, OneOwner DEF Apart
  <2>4. Cursor(w) # <<n, i>>
    BY <1>2, <2>3 DEF Cursor, Target, Owned, Exclusive, Inv, KnowsRequest
  <2> QED
    BY <1>1, <1>2, <2>4 DEF Write, Owned, Exclusive, Inv, TypeOK
<1>3. CASE Write(w, Deleted)
  BY <1>1, <1>3 DEF Write, Deleted, Owned, Exclusive, Inv, TypeOK
<1> QED
  BY <1>1, <1>2, <1>3, ActsIs, ObjectsStep DEF Owned, Exclusive

LEMMA OthersClear ==
  ASSUME Apart, Owned, NEW w \in Workers, Acts(w), NEW x \in Workers \ {w}
  PROVE  Clears(x)'
<1>1. /\ pc'[x] = pc[x] /\ req'[x] = req[x] /\ seen'[x] = seen[x] /\ todo'[x] = todo[x]
  BY ActsIs, OthersStep DEF Others, Owned, Exclusive
<1>2. CASE pc[x] \in AtDelete
  <2>1. /\ seen[x].yaml.name \in Names /\ Belongs(seen[x].yaml.name, req[x].id) /\ Busy(x)
    BY <1>2, DeleterOwns DEF Apart, Busy, AtDelete
  <2>2. ASSUME NEW S \in SUBSET Slots, Gone(seen[x].yaml.name, S)
        PROVE  GoneIn(objs', seen[x].yaml.name, S)
    BY <2>1, <2>2, GoneStays
  <2>3. Slots \ todo[x] \in SUBSET Slots /\ Slots \in SUBSET Slots
    OBVIOUS
  <2> QED
    BY <1>1, <1>2, <2>2, <2>3 DEF Clears, Freed, AtDelete, Owned, Gone, GoneIn
<1>3. CASE pc[x] \notin AtDelete
  <2> SUFFICES ASSUME Freed(x)'
               PROVE  /\ RowOf(x)' = NoRow /\ seen[x] \in Row
                      /\ Belongs(seen[x].yaml.name, req[x].id)
                      /\ Gone(seen[x].yaml.name, Slots)'
    BY <1>1, <1>3 DEF Clears, AtDelete, Belongs
  <2>1. reply'[x] = reply[x]
    BY OthersReply DEF Owned, Exclusive
  <2>2. Freed(x) /\ Busy(x)
    BY <1>1, <2>1 DEF Freed, Busy
  <2>3. /\ RowOf(x) = NoRow /\ seen[x] \in Row /\ Belongs(seen[x].yaml.name, req[x].id)
        /\ Gone(seen[x].yaml.name, Slots)
    BY <2>2 DEF Owned, Clears
  <2>4. RowOf(x)' = NoRow
    BY <2>2, <2>3, RowOfOthers DEF Apart, Owned
  <2>5. seen[x].yaml.name \in Names
    BY <2>3 DEF Row
  <2>6. GoneIn(objs', seen[x].yaml.name, Slots)
    BY <2>2, <2>3, <2>5, GoneStays
  <2> QED
    BY <1>1, <2>3, <2>4, <2>6 DEF Gone
<1> QED
  BY <1>2, <1>3

\* Only the DELETE of the row answers a Deprovision with 200.
LEMMA FreedStep ==
  ASSUME Inv, NEW w \in Workers, Acts(w), Freed(w)'
  PROVE  DeleteRow(w)
BY DEF Freed, Inv, TypeOK, Acts, SerialArrive, Arrive, FirstCall, Handle, Bind, Unbind, CallPlugin,
   SelectFails, HookFails, Return, Provision, Deprovision, LastOperation, Update, Asks,
   ProvisionConflict, ProvisionInvalid, ProvisionSelect, CreateObject, CreateFails,
   ServicesCreated, InstanceCreated, InsertRow, InsertFails, DeprovisionGone,
   DeprovisionHook, DeprovisionSelect, DeleteObject, DeleteFails, ObjectsDeleted,
   DeleteRowFails, LastOperationGone, LastOperationSelect, ListPods, Reports, ListFails,
   UpdateConflict, UpdatePanic, UpdateInvalid, UpdateSelect, GetObject, GetFails, PutObject,
   PutFails, ServicesUpdated, InstanceUpdated, UpdateRow, UpdateRowFails, Refuse, Accept,
   Advance, Goto, Keep, Reply, Lost

\* The object under the cursor is gone, whether w deletes it or finds none.
LEMMA DeleteClears ==
  ASSUME Apart, Owned, NEW w \in Workers, DeleteObject(w)
  PROVE  Clears(w)'
<1> DEFINE n == seen[w].yaml.name
           c == Least(todo[w])
<1>1. /\ n \in Names /\ Cursor(w) = <<n, c>> /\ todo[w] \subseteq Slots
      /\ Gone(n, Slots \ todo[w])
  BY DeleterOwns DEF DeleteObject, Apart, AtDelete, Cursor, Target, Owned, Clears, Exclusive,
     Inv, TypeOK
<1>2. pc'[w] = "delete" /\ seen' = seen /\ todo'[w] = todo[w] \ {c}
  BY DEF DeleteObject, Advance, Goto, Keep, Owned, Exclusive, Inv, TypeOK
<1>3. ASSUME NEW i \in Slots \ (todo[w] \ {c})
      PROVE  objs'[<<n, i>>].st # "live"
  <2>1. <<n, i>> \in Objects
    BY <1>1 DEF Objects
  <2>2. i = c \/ objs[<<n, i>>].st # "live"
    BY <1>1, <1>3 DEF Gone, GoneIn
  <2>3. CASE Write(w, Deleted)
    BY <1>1, <2>1, <2>2, <2>3 DEF Write, Deleted, Owned, Exclusive, Inv, TypeOK
  <2>4. CASE ~Live(Cursor(w)) /\ UNCHANGED objs
    BY <1>1, <2>2, <2>4 DEF Live
  <2> QED
    BY <2>3, <2>4 DEF DeleteObject, Delete, Quiet
<1> QED
  BY <1>2, <1>3 DEF Clears, Freed, Gone, GoneIn

LEMMA ActorClears ==
  ASSUME Apart, Owned, NEW w \in Workers, Acts(w)
  PROVE  Clears(w)'
<1>1. CASE Freed(w)'
  <2>1. DeleteRow(w)
    BY <1>1, FreedStep DEF Owned, Exclusive
  <2>2. /\ KeyOf[req[w].id] \in Keys /\ seen[w] \in Row
        /\ Belongs(seen[w].yaml.name, req[w].id) /\ Gone(seen[w].yaml.name, Slots)
    BY <2>1, DeleterOwns DEF DeleteRow, AtDelete, Apart, Owned, Clears
  <2>3. UNCHANGED <<req, seen, objs>> /\ RowOf(w)' = NoRow
    BY <2>1, <2>2 DEF DeleteRow, Remove, Quiet, RowOf, Owned, Exclusive, Inv, TypeOK
  <2> QED
    BY <1>1, <2>2, <2>3 DEF Clears, Freed, Belongs, Gone
<1>2. CASE ~Freed(w)' /\ pc'[w] \notin AtDelete
  BY <1>2 DEF Clears, AtDelete
<1>3. CASE DeprovisionSelect(w)
  BY <1>3 DEF DeprovisionSelect, Accept, Goto, Clears, Freed, Gone, GoneIn, DeleteSlots,
     Owned, Exclusive, Inv, TypeOK
<1>4. CASE DeleteObject(w)
  BY <1>4, DeleteClears
<1>5. CASE ObjectsDeleted(w)
  <2>1. Gone(seen[w].yaml.name, Slots)
    BY <1>5 DEF ObjectsDeleted, Owned, Clears, Gone, GoneIn
  <2> QED
    BY <1>5, <2>1 DEF ObjectsDeleted, Goto, Quiet, Keep, Clears, Freed, Gone, Owned,
       Exclusive, Inv, TypeOK
<1>6. CASE Deploys(w)
  <2>1. pc'[w] \notin AtDelete
    BY <1>6 DEF Deploys, ProvisionSelect, UpdateSelect, Makes, Creates, GetObject, ServicesCreated,
       InstanceCreated, ServicesUpdated, InstanceUpdated, Accept, Advance, Goto, AtDelete,
       Owned, Exclusive, Inv, TypeOK
  <2> QED
    BY <1>1, <1>2, <2>1
<1> QED
  BY <1>1, <1>2, <1>3, <1>4, <1>5, <1>6, PhaseStep DEF Clearing, Owned, Exclusive

\* A row is written only by its own instance's Provision: Update, which finds
\* no row, changes none.
LEMMA RowsOwned ==
  ASSUME Apart, Owned, NEW w \in Workers, Acts(w), NEW k \in Keys, rows'[k] # NoRow
  PROVE  Belongs(rows'[k].yaml.name, rows'[k].id)
<1>1. CASE rows'[k] = rows[k]
  BY <1>1 DEF Owned
<1>2. CASE rows'[k] # rows[k]
  <2>1. CASE pc[w] = "insert" /\ Insert(w)
    BY <1>2, <2>1, DeployerOwns DEF AtProvision, Insert, NewRow, Rendered, Owned, Exclusive,
       Inv, TypeOK
  <2>2. CASE pc[w] = "update_row" /\ Revise(w)
    BY <1>2, <2>2 DEF Revise, Owned, Exclusive, Fresh, AtUpdate
  <2>3. CASE Remove(w)
    BY <1>2, <2>3 DEF Remove, Owned, Exclusive, Inv, TypeOK
  <2> QED
    BY <1>2, <2>1, <2>2, <2>3, ActsIs, RowsStep
<1> QED
  BY <1>1, <1>2

LEMMA OwnedNext ==
  ASSUME Apart, Owned, [SerialNext]_vars
  PROVE  Owned'
<1>1. Exclusive'
  BY ExclusiveNext DEF Owned, Apart
<1>2. ASSUME NEW w \in Workers, Acts(w)
      PROVE  Owned'
  <2>1. ASSUME NEW x \in Workers, Busy(x)'
        PROVE  req'[x] \in Requests
    <3>1. CASE x # w
      BY <1>2, <2>1, <3>1, ActsIs, OthersStep DEF Others, Owned, Exclusive, Busy
    <3>2. CASE x = w /\ Handle(w)
      BY <2>1, <3>2, RequestStep DEF Owned, Exclusive
    <3>3. CASE x = w /\ \E r \in Requests : SerialArrive(w, r)
      BY <3>3 DEF SerialArrive, Arrive, Owned, Exclusive, Inv, TypeOK
    <3> QED
      BY <1>2, <3>1, <3>2, <3>3 DEF Acts
  <2>2. \A k \in Keys : rows'[k] # NoRow => Belongs(rows'[k].yaml.name, rows'[k].id)
    BY <1>2, RowsOwned
  <2>3. \A x \in Workers : Clears(x)'
    BY <1>2, OthersClear, ActorClears
  <2> QED
    BY <1>1, <2>1, <2>2, <2>3 DEF Owned, Belongs
<1>3. CASE Crash
  BY <1>1, <1>3 DEF Crash, Owned, Busy, Clears, Freed, Belongs
<1>4. CASE UNCHANGED vars
  BY <1>1, <1>4 DEF vars, local, Owned, Busy, Clears, Freed, Belongs, Gone, RowOf
<1> QED
  BY <1>2, <1>3, <1>4 DEF SerialNext, Acts

LEMMA OwnedInit == Init => Owned
BY ExclusiveInit DEF Init, Owned, Busy, Clears, Freed

\* Under that platform, with ids the collation tells apart and a name for each
\* instance, a Deprovision that is answered 200 has left neither a row of the
\* instance nor a live object under the name it was recorded with, and it stays
\* so until the platform has the reply.
THEOREM DeprovisionReleases == DistinctKeys /\ DistinctNames => (SerialSpec => []Released)
<1> SUFFICES ASSUME Apart
             PROVE  SerialSpec => []Released
  BY DEF Apart
<1>1. Owned => Released
  BY DEF Owned, Clears, Freed, Released, Gone, GoneIn, Live
<1>2. Owned /\ [SerialNext]_vars => Owned'
  BY OwnedNext
<1> QED
  BY <1>1, <1>2, OwnedInit, PTL DEF SerialSpec

\* Under the same assumptions, a recorded deployment that is complete loses an
\* object, or its row, only to a Deprovision of that very instance.
THEOREM OnlyDeprovisionTearsDown ==
  DistinctKeys /\ DistinctNames => (SerialSpec => IntactUntilDeprovisioned)
<1> SUFFICES ASSUME Apart
             PROVE  SerialSpec => IntactUntilDeprovisioned
  BY DEF Apart
<1>1. Owned /\ [SerialNext]_vars =>
        [\A k \in Keys : Intact(k) /\ ~Intact(k)' =>
           \E w \in Workers : pc[w] \in AtDelete /\ KeyOf[req[w].id] = k]_vars
  <2> SUFFICES ASSUME Owned, SerialNext, NEW k \in Keys, Intact(k), ~Intact(k)'
               PROVE  \E w \in Workers : pc[w] \in AtDelete /\ KeyOf[req[w].id] = k
    OBVIOUS
  <2>1. PICK w \in Workers : Acts(w)
    BY DEF SerialNext, Crash, Acts, Intact, Live
  <2>2. rows[k] \in Row /\ rows[k].yaml.name \in Names
    BY DEF Intact, Owned, Exclusive, Inv, TypeOK, Row
  <2>3. CASE rows'[k] # rows[k]
    <3>1. CASE pc[w] = "update_row" /\ Revise(w)
      BY <2>3, <3>1 DEF Owned, Exclusive, Fresh, AtUpdate, Revise
    <3>2. CASE Insertable(w) /\ Insert(w)
      BY <2>3, <3>2 DEF Intact, Insertable, Insert, RowOf, Owned, Exclusive, Inv, TypeOK
    <3>3. CASE pc[w] = "delete_row" /\ Remove(w)
      BY <2>3, <3>3 DEF Remove, AtDelete, Owned, Exclusive, Inv, TypeOK
    <3> QED
      BY <2>1, <2>3, <3>1, <3>2, <3>3, ActsIs, RowsStep
  <2>4. CASE rows'[k] = rows[k]
    <3>1. PICK i \in Deployed : objs[<<rows[k].yaml.name, i>>].st = "live"
                               /\ objs'[<<rows[k].yaml.name, i>>].st # "live"
      BY <2>4 DEF Intact, Live
    <3>2. <<rows[k].yaml.name, i>> \in Objects
      BY <2>2, SlotSets DEF Objects, Deployed
    <3>3. Write(w, Deleted) /\ pc[w] = "delete"
      BY <2>1, <3>1, <3>2, ActsIs, ObjectsStep DEF Write, Created, Owned, Exclusive, Inv, TypeOK
    <3>4. /\ Belongs(seen[w].yaml.name, req[w].id) /\ seen[w] = RowOf(w)
          /\ req[w].op = "deprovision" /\ seen[w] \in Row /\ seen[w].id = req[w].id
      BY <3>3, DeleterOwns DEF AtDelete, Apart
    <3>5. seen[w].yaml.name = rows[k].yaml.name
      BY <3>1, <3>2, <3>3, <3>4 DEF Write, Cursor, Target, Owned, Exclusive, Inv, TypeOK
    <3>6. rows[k].id = req[w].id
      BY <3>4, <3>5, OneOwner DEF Owned, Intact, Apart
    <3>7. KeyOf[req[w].id] = k
      BY <3>6 DEF Owned, Exclusive, Keyed, Intact
    <3> QED
      BY <3>3, <3>7 DEF AtDelete
  <2> QED
    BY <2>3, <2>4
<1>2. Owned /\ [SerialNext]_vars => Owned'
  BY OwnedNext
<1> QED
  BY <1>1, <1>2, OwnedInit, PTL DEF SerialSpec, IntactUntilDeprovisioned, AtDelete

-----------------------------------------------------------------------------
(* Leased: what a Provision has come past is live, and what is live is of  *)
(* a kind that Provision creates.                                          *)

LEMMA MoreSlots ==
  /\ Provisioned \subseteq Slots /\ UpdateSlots \subseteq Provisioned
  /\ Deployed \subseteq Provisioned /\ ServiceSlots \cap InstanceSlots = {}
BY SlotSets DEF Provisioned, Deployed, ServiceSlots, InstanceSlots

\* The cursor of a goroutine that creates is on one of the slots to do.
LEMMA CreatesAt ==
  ASSUME Leased, NEW w \in Workers, Creates(w)
  PROVE  /\ Cursor(w) = <<req[w].name, Least(todo[w])>>
         /\ Least(todo[w]) \in todo[w] /\ Least(todo[w]) \in Provisioned
         /\ req[w].name \in Names /\ Cursor(w) \in Objects
         /\ objs' = [objs EXCEPT ![Cursor(w)] = Created(w)]
<1>1. req[w].name \in Names /\ Target(w) = req[w].name
  BY DeployerOwns DEF Creates, AtProvision, AtUpdate, Target, Leased, Owned, Exclusive, Inv,
     KnowsRequest
<1>2. todo[w] \subseteq Provisioned /\ todo[w] # {}
  BY MoreSlots DEF Creates, Leased, Builds, Provisioned
<1>3. Least(todo[w]) \in todo[w]
  BY <1>2, LeastIn, MoreSlots
<1> QED
  BY <1>1, <1>2, <1>3, MoreSlots DEF Cursor, Objects, Creates, Write

\* What is live under the name of x's Provision stays live.
LEMMA LiveStays ==
  ASSUME Apart, Leased, NEW w \in Workers, Acts(w), NEW x \in Workers \ {w},
         pc[x] \in AtProvision, NEW S \in SUBSET Slots, AllLive(req[x].name, S)
  PROVE  AllLiveIn(objs', req[x].name, S)
<1> DEFINE n == req[x].name
<1>1. n \in Names /\ Belongs(n, req[x].id) /\ Busy(x)
  BY DeployerOwns DEF Leased, Busy, AtProvision
<1> SUFFICES ASSUME NEW i \in S
             PROVE  objs'[<<n, i>>].st = "live"
  BY DEF AllLiveIn
<1>2. <<n, i>> \in Objects /\ objs[<<n, i>>].st = "live"
  BY <1>1 DEF Objects, AllLive, AllLiveIn
<1>3. CASE Creates(w)
  BY <1>2, <1>3 DEF Creates, Write, Created, Leased, Owned, Exclusive, Inv, TypeOK
<1>4. CASE Deletes(w)
  <2>1. Belongs(seen[w].yaml.name, req[w].id) /\ req[w].op = "deprovision" /\ Busy(w)
    BY <1>4, DeleterOwns DEF Deletes, AtDelete, Leased, Apart, Busy
  <2>2. seen[w].yaml.name # n
    BY <1>1, <2>1, OneOwner DEF Apart, Leased, Owned, Exclusive, OneEach
  <2>3. Cursor(w) # <<n, i>>
    BY <2>1, <2>2 DEF Cursor, Target
  <2> QED
    BY <1>2, <1>4, <2>3 DEF Deletes, Write, Leased, Owned, Exclusive, Inv, TypeOK
<1> QED
  BY <1>2, <1>3, <1>4, WritesStep

LEMMA OthersBuild ==
  ASSUME Apart, Leased, NEW w \in Workers, Acts(w), NEW x \in Workers \ {w}
  PROVE  Builds(x)'
<1>1. /\ pc'[x] = pc[x] /\ req'[x] = req[x] /\ todo'[x] = todo[x]
      /\ link'[x] # "none" => link[x] # "none"
  BY ActsIs, OthersStep, LinkStep DEF Others, Leased, Owned, Exclusive
<1>2. CASE pc[x] \in AtProvision
  <2>1. ASSUME NEW S \in SUBSET Slots, AllLive(req[x].name, S)
        PROVE  AllLiveIn(objs', req[x].name, S)
    BY <1>2, <2>1, LiveStays
  <2>2. /\ ServiceSlots \ todo[x] \in SUBSET Slots /\ Provisioned \ todo[x] \in SUBSET Slots
        /\ Provisioned \in SUBSET Slots
    BY MoreSlots, SlotSets
  <2> QED
    BY <1>1, <1>2, <2>1, <2>2 DEF Leased, Builds, AllLive, AtProvision
<1>3. CASE pc[x] \notin AtProvision
  BY <1>1, <1>3 DEF Leased, Builds, AtProvision
<1> QED
  BY <1>2, <1>3

\* The object under the cursor is live, and the cursor moves on.
LEMMA MakesBuilds ==
  ASSUME Apart, Leased, NEW w \in Workers, Makes(w)
  PROVE  Builds(w)'
<1> DEFINE n == req[w].name
           c == Least(todo[w])
<1>1. /\ Cursor(w) = <<n, c>> /\ c \in todo[w] /\ n \in Names
      /\ objs' = [objs EXCEPT ![<<n, c>>] = Created(w)] /\ c \in Slots
  BY CreatesAt, MoreSlots DEF Makes
<1>2. pc'[w] = pc[w] /\ req'[w] = req[w] /\ todo'[w] = todo[w] \ {c} /\ link'[w] = "none"
  BY DEF Makes, Creates, Keep, Advance, Goto, Write, Leased, Owned, Exclusive, Inv, TypeOK
<1>3. ASSUME NEW S \in SUBSET Slots, AllLive(n, S \ todo[w])
      PROVE  AllLiveIn(objs', n, S \ (todo[w] \ {c}))
  <2> SUFFICES ASSUME NEW i \in S, i \notin todo[w] \/ i = c
               PROVE  objs'[<<n, i>>].st = "live"
    BY DEF AllLiveIn
  <2>1. <<n, i>> \in Objects
    BY <1>1 DEF Objects
  <2>2. CASE i = c
    BY <1>1, <2>1, <2>2 DEF Created, Leased, Owned, Exclusive, Inv, TypeOK
  <2>3. CASE i # c
    <3>1. objs[<<n, i>>].st = "live"
      BY <1>3, <2>3 DEF AllLive, AllLiveIn
    <3> QED
      BY <1>1, <2>1, <2>3, <3>1 DEF Leased, Owned, Exclusive, Inv, TypeOK
  <2> QED
    BY <2>2, <2>3
<1>4. ServiceSlots \in SUBSET Slots /\ Provisioned \in SUBSET Slots
  BY SlotSets, MoreSlots
<1>5. CASE pc[w] = "create_service"
  BY <1>2, <1>3, <1>4, <1>5 DEF Leased, Builds, AllLive
<1>6. CASE pc[w] = "create_instance"
  BY <1>2, <1>3, <1>4, <1>6 DEF Leased, Builds, AllLive
<1>7. CASE pc[w] \in {"update_service", "update_instance"}
  BY <1>2, <1>7 DEF Leased, Builds
<1> QED
  BY <1>5, <1>6, <1>7 DEF Makes, Creates

LEMMA ActorBuilds ==
  ASSUME Apart, Leased, NEW w \in Workers, Acts(w)
  PROVE  Builds(w)'
<1>1. CASE pc'[w] \notin AtProvision \cup AtUpdate
  <2>1. link'[w] = "none"
    BY <1>1, LinkStep DEF GetObject, AtUpdate, Leased, Owned, Exclusive, Builds
  <2> QED
    BY <1>1, <2>1 DEF Builds, AtProvision, AtUpdate
<1>2. CASE Makes(w)
  BY <1>2, MakesBuilds
<1>3. CASE GetObject(w)
  BY <1>3 DEF GetObject, Leased, Builds, AllLive
<1>4. CASE ProvisionSelect(w) \/ UpdateSelect(w)
  BY <1>4 DEF ProvisionSelect, UpdateSelect, Accept, Goto, Quiet, Builds, AllLive, AllLiveIn,
     Leased, Owned, Exclusive, Inv, TypeOK
<1>5. CASE ServicesCreated(w) \/ InstanceCreated(w)
  BY <1>5 DEF ServicesCreated, InstanceCreated, Goto, Quiet, Keep, Builds, AllLive, AllLiveIn,
     Provisioned, Leased, Owned, Exclusive, Inv, TypeOK
<1>6. CASE ServicesUpdated(w) \/ InstanceUpdated(w)
  BY <1>6 DEF ServicesUpdated, InstanceUpdated, Goto, Quiet, Builds,
     Leased, Owned, Exclusive, Inv, TypeOK
<1>7. CASE Clearing(w)
  <2>1. pc'[w] \in AtDelete
    BY <1>7 DEF Clearing, DeprovisionSelect, DeleteObject, ObjectsDeleted, Accept, Advance,
       Goto, AtDelete, Leased, Owned, Exclusive, Inv, TypeOK
  <2> QED
    BY <1>1, <2>1 DEF AtDelete, AtProvision, AtUpdate
<1> QED
  BY <1>1, <1>2, <1>3, <1>4, <1>5, <1>6, <1>7, PhaseStep DEF Deploys, Leased, Owned, Exclusive

LEMMA LeasedNext ==
  ASSUME Apart, Leased, [SerialNext]_vars
  PROVE  Leased'
<1>1. Owned'
  BY OwnedNext DEF Leased
<1>2. ASSUME NEW w \in Workers, Acts(w)
      PROVE  Leased'
  <2>1. ASSUME NEW n \in Names, NEW i \in Slots, objs'[<<n, i>>].st = "live"
        PROVE  i \in Provisioned
    <3>0. <<n, i>> \in Objects
      BY DEF Objects
    <3>1. CASE objs[<<n, i>>].st = "live"
      BY <3>1 DEF Leased, Live
    <3>2. CASE Creates(w)
      BY <2>1, <3>0, <3>2, CreatesAt DEF Leased, Live, Owned, Exclusive, Inv, TypeOK
    <3>3. CASE Deletes(w)
      BY <2>1, <3>0, <3>3 DEF Deletes, Write, Deleted, Leased, Live, Owned, Exclusive, Inv,
         TypeOK
    <3> QED
      BY <1>2, <2>1, <3>1, <3>2, <3>3, WritesStep
  <2> QED
    BY <1>1, <1>2, <2>1, OthersBuild, ActorBuilds DEF Leased, Live
<1>3. CASE Crash
  BY <1>1, <1>3 DEF Crash, Leased, Builds, Live
<1>4. CASE UNCHANGED vars
  BY <1>1, <1>4 DEF vars, local, Leased, Builds, Live, AllLive
<1> QED
  BY <1>2, <1>3, <1>4 DEF SerialNext, Acts

LEMMA LeasedInit == Init => Leased
<1> SUFFICES ASSUME Init
             PROVE  Leased
  OBVIOUS
<1>1. \A n \in Names, i \in Slots : ~Live(<<n, i>>)
  BY DEF Init, Live, Objects
<1> QED
  BY <1>1, OwnedInit DEF Init, Leased, Builds

-----------------------------------------------------------------------------
(* The refinement of Lease: a step of a goroutine leaves every name but    *)
(* the one it works on as it is, and moves that one along Lease.           *)

\* A recorded name belongs to one row.
LEMMA RecordedOnce ==
  ASSUME Apart, Leased, NEW n \in Names, NEW k \in RecordedAs(n), NEW l \in RecordedAs(n)
  PROVE  k = l
<1>1. /\ KeyOf[rows[k].id] = k /\ Belongs(n, rows[k].id)
      /\ KeyOf[rows[l].id] = l /\ Belongs(n, rows[l].id)
  BY DEF RecordedAs, Leased, Owned, Exclusive, Keyed
<1> QED
  BY <1>1, OneOwner DEF Apart

\* Nobody deploys under a recorded name.
LEMMA DeployerUnrecorded ==
  ASSUME Apart, Leased, NEW w \in Workers, pc[w] \in AtProvision \cup AtUpdate
  PROVE  RecordedAs(req[w].name) = {}
<1> SUFFICES ASSUME NEW k \in RecordedAs(req[w].name)
             PROVE  FALSE
  OBVIOUS
<1>1. k \in Keys /\ rows[k] # NoRow /\ KeyOf[rows[k].id] = k /\ Belongs(req[w].name, rows[k].id)
  BY DEF RecordedAs, Leased, Owned, Exclusive, Keyed
<1>2. Belongs(req[w].name, req[w].id)
  BY DeployerOwns DEF Leased
<1>3. rows[k].id = req[w].id
  BY <1>1, <1>2, OneOwner DEF Apart
<1>4. RowOf(w) = NoRow
  BY DEF Leased, Owned, Exclusive, Fresh
<1> QED
  BY <1>1, <1>3, <1>4 DEF RowOf

\* Nobody else works under the name of a goroutine that deploys.
LEMMA OneDeployer ==
  ASSUME Apart, Leased, NEW w \in Workers, NEW x \in Workers,
         pc[w] \in AtProvision \cup AtUpdate, pc[x] \in AtProvision \cup AtUpdate,
         req[x].name = req[w].name
  PROVE  x = w
<1>1. Belongs(req[w].name, req[w].id) /\ Belongs(req[x].name, req[x].id)
  BY DeployerOwns DEF Leased
<1>2. req[w].id = req[x].id /\ Busy(w) /\ Busy(x)
  BY <1>1, OneOwner DEF Apart, Busy, AtProvision, AtUpdate
<1> QED
  BY <1>2 DEF Leased, Owned, Exclusive, OneEach

WorksOn(w, n) ==
  \/ pc[w] \in AtProvision \cup AtUpdate /\ req[w].name = n
  \/ pc[w] \in AtDelete /\ seen[w].yaml.name = n

\* Rows and objects of a name change only in a step that works on the name.
LEMMA ElsewhereShared ==
  ASSUME Apart, Leased, NEW w \in Workers, Acts(w), NEW n \in Names, ~WorksOn(w, n)
  PROVE  /\ RecordedAs(n)' = RecordedAs(n)
         /\ \A k \in RecordedAs(n) : rows'[k] = rows[k]
         /\ \A i \in Slots : objs'[<<n, i>>] = objs[<<n, i>>]
<1>1. ASSUME NEW k \in Keys, rows'[k] # rows[k]
      PROVE  /\ rows[k] = NoRow \/ rows[k].yaml.name # n
             /\ rows'[k] = NoRow \/ rows'[k].yaml.name # n
  <2>1. CASE pc[w] = "insert" /\ Insertable(w) /\ Insert(w)
    BY <1>1, <2>1 DEF WorksOn, AtProvision, Insertable, Insert, RowOf, NewRow, Rendered,
       Leased, Owned, Exclusive, Inv, TypeOK
  <2>2. CASE pc[w] = "update_row" /\ Revise(w)
    BY <1>1, <2>2 DEF Revise, Leased, Owned, Exclusive, Fresh, AtUpdate
  <2>3. CASE pc[w] = "delete_row" /\ Remove(w)
    <3>1. seen[w].yaml.name # n /\ seen[w] = RowOf(w)
      BY <2>3, DeleterOwns DEF WorksOn, AtDelete, Leased, Apart
    <3> QED
      BY <1>1, <2>3, <3>1 DEF Remove, RowOf, Leased, Owned, Exclusive, Inv, TypeOK
  <2> QED
    BY <1>1, <2>1, <2>2, <2>3, ActsIs, RowsStep
<1>2. ASSUME NEW i \in Slots
      PROVE  objs'[<<n, i>>] = objs[<<n, i>>]
  <2>1. CASE Creates(w)
    <3>1. Cursor(w) # <<n, i>>
      BY <2>1, CreatesAt DEF Creates, WorksOn, AtProvision, AtUpdate
    <3> QED
      BY <2>1, <3>1 DEF Creates, Write, Objects, Leased, Owned, Exclusive, Inv, TypeOK
  <2>2. CASE Deletes(w)
    <3>1. Cursor(w) # <<n, i>>
      BY <2>2, DeleterOwns DEF Deletes, WorksOn, AtDelete, Cursor, Target, Leased, Apart
    <3> QED
      BY <2>2, <3>1 DEF Deletes, Write, Objects, Leased, Owned, Exclusive, Inv, TypeOK
  <2> QED
    BY <2>1, <2>2, WritesStep
<1> QED
  BY <1>1, <1>2 DEF RecordedAs

LEMMA ElsewhereLease ==
  ASSUME Apart, Leased, NEW w \in Workers, Acts(w), NEW n \in Names, ~WorksOn(w, n)
  PROVE  leaseOf(n)' = leaseOf(n)
<1>1. RecordedAs(n)' = RecordedAs(n) /\ LiveSlots(n)' = LiveSlots(n)
  BY ElsewhereShared DEF LiveSlots, Live
<1>2. ASSUME NEW k \in RecordedAs(n)
      PROVE  Intact(k)' = Intact(k)
  <2>1. rows'[k] = rows[k] /\ rows[k].yaml.name = n
    BY ElsewhereShared DEF RecordedAs
  <2>2. \A i \in Deployed : objs'[<<n, i>>] = objs[<<n, i>>]
    BY ElsewhereShared, MoreSlots
  <2> QED
    BY <2>1, <2>2 DEF Intact, Live
<1>3. ASSUME NEW x \in Workers \ {w}
      PROVE  Building(x, n)' = Building(x, n)
  <2>1. pc'[x] = pc[x] /\ req'[x] = req[x] /\ todo'[x] = todo[x]
    BY ActsIs, OthersStep DEF Others, Leased, Owned, Exclusive
  <2> QED
    BY <1>1, <2>1 DEF Building, Provisioning, Ahead
<1>4. ~Building(w, n)
  BY DEF Building, Provisioning, WorksOn, AtProvision
<1>5. Building(w, n)' => LiveSlots(n) = {}
  <2> SUFFICES ASSUME Building(w, n)'
               PROVE  LiveSlots(n) = {}
    OBVIOUS
  <2>1. pc'[w] \in AtProvision /\ req'[w].name = n
    BY DEF Building, Provisioning, AtProvision
  <2>2. Clearing(w) \/ Deploys(w)
    BY <2>1, PhaseStep DEF Leased, Owned, Exclusive
  <2>3. req' = req
    BY <2>2, PhaseKeeps DEF Leased, Owned, Exclusive
  <2>4. pc[w] \notin AtProvision
    BY <2>1, <2>3 DEF WorksOn
  <2>5. ProvisionSelect(w)
    BY <2>1, <2>2, <2>4
       DEF Clearing, Deploys, DeprovisionSelect, DeleteObject, ObjectsDeleted, UpdateSelect,
       Makes, Creates, GetObject, ServicesCreated, InstanceCreated, ServicesUpdated,
       InstanceUpdated, Accept, Advance, Goto, AtProvision, Leased, Owned, Exclusive, Inv, TypeOK
  <2>6. Ahead(w)' = Provisioned
    BY <2>5 DEF ProvisionSelect, Accept, Goto, Ahead, Provisioned, Leased, Owned, Exclusive, Inv,
       TypeOK
  <2>7. LiveSlots(n) \cap Provisioned = {}
    BY <1>1, <2>6 DEF Building
  <2> QED
    BY <2>7 DEF LiveSlots, Leased
<1>6. (\E k \in RecordedAs(n)' : Intact(k)') = (\E k \in RecordedAs(n) : Intact(k))
  BY <1>1, <1>2
<1>7. CASE RecordedAs(n) # {}
  BY <1>1, <1>6, <1>7 DEF leaseOf
<1>8. CASE RecordedAs(n) = {} /\ LiveSlots(n) = {}
  BY <1>1, <1>8 DEF leaseOf
<1>9. CASE RecordedAs(n) = {} /\ LiveSlots(n) # {}
  <2>1. (\E x \in Workers : Building(x, n)') <=> (\E x \in Workers : Building(x, n))
    BY <1>3, <1>4, <1>5, <1>9
  <2> QED
    BY <1>1, <1>9, <2>1 DEF leaseOf
<1> QED
  BY <1>7, <1>8, <1>9

\* The edges of Lease along which a single name moves.
Edge(from, to) ==
  <<from, to>> \in {<<"free", "building">>, <<"building", "in_use">>,
                    <<"building", "leaked">>, <<"free", "leaked">>,
                    <<"in_use", "draining">>, <<"draining", "free">>}

\* While w is the one to deploy under n, the lease depends on w alone.
LEMMA DeployerLease ==
  ASSUME Apart, Leased, NEW w \in Workers, pc[w] \in AtProvision \cup AtUpdate,
         NEW n \in Names, n = req[w].name
  PROVE  leaseOf(n) = IF LiveSlots(n) = {} THEN "free"
                      ELSE IF Building(w, n) THEN "building" ELSE "leaked"
<1>1. RecordedAs(n) = {}
  BY DeployerUnrecorded
<1>2. ASSUME NEW x \in Workers, Building(x, n)
      PROVE  x = w
  <2>1. pc[x] \in AtProvision \cup AtUpdate /\ req[x].name = req[w].name
    BY <1>2 DEF Building, Provisioning, AtProvision
  <2> QED
    BY <2>1, OneDeployer
<1> QED
  BY <1>1, <1>2 DEF leaseOf

\* The INSERT delivers what has been built.
LEMMA InsertLease ==
  ASSUME Apart, Deployed # {}, Leased, NEW w \in Workers, pc[w] = "insert", Insert(w),
         UNCHANGED objs, NEW n \in Names, n = req[w].name
  PROVE  leaseOf(n) = "building" /\ leaseOf(n)' = "in_use"
<1>1. \A i \in Provisioned : objs[<<n, i>>].st = "live"
  BY DEF Leased, Builds, AllLive, AllLiveIn
<1>2. LiveSlots(n) # {}
  BY <1>1, MoreSlots DEF LiveSlots, Live
<1>3. Building(w, n)
  BY Zenon DEF Building, Provisioning, Ahead
<1>4. leaseOf(n) = "building"
  BY <1>2, <1>3, DeployerLease DEF AtProvision
<1>5. PICK k \in Keys : rows'[k] = NewRow(w)
  BY KeyAssumption DEF AtProvision, Insert, Request, Leased, Owned, Exclusive, Inv, TypeOK,
     KnowsRequest
<1>6. NewRow(w).yaml.name = n /\ NewRow(w) # NoRow
  <2>1. NewRow(w) \in Row
    BY LabelType DEF Leased, Owned, Exclusive, Inv, KnowsRequest, AtProvision, Valid, Request,
       NewRow, Row, Rendered
  <2> QED
    BY <2>1, SentinelAssumption DEF NewRow, Rendered
<1>7. \A i \in Deployed : objs'[<<n, i>>].st = "live"
  BY <1>1, MoreSlots
<1>8. k \in RecordedAs(n)'
  BY <1>5, <1>6 DEF RecordedAs
<1>9. Intact(k)'
  BY <1>5, <1>6, <1>7 DEF Intact, Live
<1>10. leaseOf(n)' = "in_use"
  BY <1>8, <1>9 DEF leaseOf
<1> QED
  BY <1>4, <1>10

\* A goroutine that deploys deletes nothing, ...
LEMMA DeployerKeepsLive ==
  ASSUME Apart, Leased, NEW w \in Workers, Acts(w), pc[w] \in AtProvision \cup AtUpdate,
         NEW n \in Names, n = req[w].name
  PROVE  LiveSlots(n) \subseteq LiveSlots(n)'
<1> SUFFICES ASSUME NEW i \in Slots, objs[<<n, i>>].st = "live"
             PROVE  objs'[<<n, i>>].st = "live"
  BY DEF LiveSlots, Live
<1>1. CASE Creates(w)
  BY <1>1 DEF Creates, Write, Created, Objects, Leased, Owned, Exclusive, Inv, TypeOK
<1>2. CASE Deletes(w)
  BY <1>2 DEF Deletes, AtProvision, AtUpdate
<1> QED
  BY <1>1, <1>2, WritesStep

\* ... and what it has run into stays ahead of it.
LEMMA NoLateBuilding ==
  ASSUME Apart, Leased, NEW w \in Workers, Acts(w), pc[w] \in AtProvision \cup AtUpdate,
         NEW n \in Names, n = req[w].name, Building(w, n)'
  PROVE  Building(w, n)
<1>1. pc'[w] \in AtProvision
  BY DEF Building, Provisioning, AtProvision
<1>2. Makes(w) \/ ServicesCreated(w) \/ InstanceCreated(w)
  BY <1>1, PhaseStep
     DEF Clearing, Deploys, DeprovisionSelect, DeleteObject, ObjectsDeleted, ProvisionSelect,
     UpdateSelect, Asks, GetObject, ServicesUpdated, InstanceUpdated, Accept, Advance, Goto,
     AtProvision, AtUpdate, AtDelete, Leased, Owned, Exclusive, Inv, TypeOK
<1>3. CASE ServicesCreated(w) \/ InstanceCreated(w)
  <2>1. Ahead(w)' = Ahead(w) /\ LiveSlots(n)' = LiveSlots(n)
    BY <1>3 DEF ServicesCreated, InstanceCreated, Goto, Quiet, Ahead, LiveSlots, Live, Leased,
       Owned, Exclusive, Inv, TypeOK
  <2>2. Provisioning(w, n)
    BY <1>3 DEF ServicesCreated, InstanceCreated, Provisioning
  <2> QED
    BY <2>1, <2>2 DEF Building
<1>4. CASE Makes(w)
  <2> DEFINE c == Least(todo[w])
  <2>1. /\ pc'[w] = pc[w] /\ todo'[w] = todo[w] \ {c}
        /\ pc[w] \in {"create_service", "create_instance"}
    BY <1>1, <1>4 DEF Makes, Creates, Advance, Goto, AtProvision, Leased, Owned, Exclusive, Inv,
       TypeOK
  <2>2. c \notin LiveSlots(n)
    BY <1>4, <2>1, CreatesAt DEF Makes, Creates, LiveSlots
  <2>3. Ahead(w) \ {c} \subseteq Ahead(w)'
    <3>1. CASE pc[w] = "create_service"
      BY <2>1, <3>1 DEF Ahead
    <3>2. CASE pc[w] = "create_instance"
      BY <2>1, <3>2 DEF Ahead
    <3> QED
      BY <2>1, <3>1, <3>2
  <2>4. LiveSlots(n) \cap Ahead(w) = {}
    BY <2>2, <2>3, DeployerKeepsLive DEF Building
  <2> QED
    BY <2>1, <2>4 DEF Building, Provisioning
<1> QED
  BY <1>2, <1>3, <1>4

LEMMA DeployLease ==
  ASSUME Apart, Deployed # {}, Leased, NEW w \in Workers, Acts(w),
         pc[w] \in AtProvision \cup AtUpdate, NEW n \in Names, n = req[w].name
  PROVE  leaseOf(n)' = leaseOf(n) \/ Edge(leaseOf(n), leaseOf(n)')
<1>1. CASE pc[w] = "insert" /\ Insert(w) /\ UNCHANGED objs
  BY <1>1, InsertLease DEF Edge
<1>2. CASE UNCHANGED rows
  <2>1. RecordedAs(n)' = {}
    BY <1>2, DeployerUnrecorded DEF RecordedAs
  <2>2. ASSUME NEW x \in Workers, Building(x, n)'
        PROVE  x = w
    <3>1. CASE x # w
      <4>1. pc'[x] = pc[x] /\ req'[x] = req[x]
        BY <3>1, ActsIs, OthersStep DEF Others, Leased, Owned, Exclusive
      <4>2. pc[x] \in AtProvision \cup AtUpdate /\ req[x].name = req[w].name
        BY <2>2, <4>1 DEF Building, Provisioning, AtProvision
      <4> QED
        BY <4>2, OneDeployer
    <3> QED
      BY <3>1
  <2>3. leaseOf(n)' = IF LiveSlots(n)' = {} THEN "free"
                      ELSE IF Building(w, n)' THEN "building" ELSE "leaked"
    BY <2>1, <2>2 DEF leaseOf
  <2>4. LiveSlots(n) \subseteq LiveSlots(n)' /\ (Building(w, n)' => Building(w, n))
    BY DeployerKeepsLive, NoLateBuilding
  <2>5. leaseOf(n) = IF LiveSlots(n) = {} THEN "free"
                     ELSE IF Building(w, n) THEN "building" ELSE "leaked"
    BY DeployerLease
  <2> QED
    BY <2>3, <2>4, <2>5 DEF Edge
<1>3. CASE pc[w] = "update_row" /\ Revise(w)
  BY <1>2, <1>3 DEF Revise, Leased, Owned, Exclusive, Fresh, AtUpdate
<1>4. pc[w] # "delete_row"
  BY DEF AtProvision, AtUpdate
<1> QED
  BY <1>1, <1>2, <1>3, <1>4, ActsIs, RowsStep

LEMMA DeleteLease ==
  ASSUME Apart, Deployed # {}, Leased, NEW w \in Workers, Acts(w), pc[w] \in AtDelete,
         NEW n \in Names, n = seen[w].yaml.name
  PROVE  leaseOf(n)' = leaseOf(n) \/ Edge(leaseOf(n), leaseOf(n)')
<1>1. PICK k \in Keys : /\ k = KeyOf[req[w].id] /\ rows[k] = seen[w] /\ rows[k] # NoRow
  BY DeleterOwns DEF Apart, Leased, Owned, Exclusive, Fresh, RowOf
<1>2. RecordedAs(n) = {k}
  BY <1>1, RecordedOnce DEF RecordedAs
<1>3. leaseOf(n) = IF Intact(k) THEN "in_use" ELSE "draining"
  BY <1>2 DEF leaseOf
<1>4. CASE pc[w] = "delete_row" /\ Remove(w) /\ UNCHANGED objs
  <2>1. \A i \in Slots : objs[<<n, i>>].st # "live"
    BY <1>4 DEF Leased, Owned, Clears, Gone, GoneIn
  <2>2. ~Intact(k)
    BY <1>1, <2>1, MoreSlots DEF Intact, Live
  <2>3. RecordedAs(n)' = {}
    BY <1>1, <1>2, <1>4 DEF Remove, RecordedAs, Leased, Owned, Exclusive, Inv, TypeOK
  <2>4. LiveSlots(n)' = {}
    BY <1>4, <2>1 DEF LiveSlots, Live
  <2>5. leaseOf(n)' = "free"
    BY <2>3, <2>4 DEF leaseOf
  <2> QED
    BY <1>3, <2>2, <2>5 DEF Edge
<1>5. CASE UNCHANGED rows
  <2>1. RecordedAs(n)' = {k}
    BY <1>2, <1>5 DEF RecordedAs
  <2>2. Intact(k)' => Intact(k)
    <3> SUFFICES ASSUME Intact(k)', NEW i \in Deployed
                 PROVE  objs[<<n, i>>].st = "live"
      BY <1>1, <1>5 DEF Intact, Live
    <3>1. objs'[<<n, i>>].st = "live" /\ <<n, i>> \in Objects
      BY <1>1, <1>5, MoreSlots DEF Intact, Live, Objects
    <3>2. ~Creates(w)
      BY DEF Creates, AtDelete
    <3> QED
      BY <3>1, <3>2, WritesStep DEF Deletes, Write, Deleted, Leased, Owned, Exclusive, Inv, TypeOK
  <2>3. leaseOf(n)' = IF Intact(k)' THEN "in_use" ELSE "draining"
    BY <2>1 DEF leaseOf
  <2> QED
    BY <1>3, <2>2, <2>3 DEF Edge
<1> QED
  BY <1>4, <1>5, ActsIs, RowsStep DEF AtDelete

leaseBar == [n \in Names |-> leaseOf(n)]

LEMMA ActsLease ==
  ASSUME Apart, Deployed # {}, Leased, NEW w \in Workers, Acts(w)
  PROVE  [L!Next]_leaseBar
<1>1. CASE \A n \in Names : leaseOf(n)' = leaseOf(n)
  BY <1>1 DEF leaseBar
<1>2. CASE \E n \in Names : leaseOf(n)' # leaseOf(n)
  <2>1. PICK n \in Names : leaseOf(n)' # leaseOf(n)
    BY <1>2
  <2>2. WorksOn(w, n)
    BY <2>1, ElsewhereLease
  <2>3. Edge(leaseOf(n), leaseOf(n)')
    BY <2>1, <2>2, DeployLease, DeleteLease DEF WorksOn
  <2>4. ASSUME NEW m \in Names, m # n
        PROVE  leaseOf(m)' = leaseOf(m)
    <3>1. ~WorksOn(w, m)
      BY <2>2, <2>4 DEF WorksOn, AtProvision, AtUpdate, AtDelete
    <3> QED
      BY <3>1, ElsewhereLease
  <2>5. leaseBar[n] = leaseOf(n) /\ leaseBar' = [leaseBar EXCEPT ![n] = leaseOf(n)']
    BY <2>4 DEF leaseBar
  <2> QED
    BY <2>3, <2>5 DEF Edge, leaseBar, L!Next, L!Build, L!Deliver, L!Abandon, L!Stray, L!Drain,
       L!Release, L!Move
<1> QED
  BY <1>1, <1>2

LEMMA CrashLease ==
  ASSUME Crash
  PROVE  L!Exit
<1> SUFFICES ASSUME NEW n \in Names
             PROVE  leaseOf(n)' = IF leaseOf(n) = "building" THEN "leaked" ELSE leaseOf(n)
  BY DEF L!Exit
<1>1. /\ RecordedAs(n)' = RecordedAs(n) /\ LiveSlots(n)' = LiveSlots(n)
      /\ \A k : Intact(k)' = Intact(k)
  BY DEF Crash, RecordedAs, LiveSlots, Intact, Live
<1>2. \A x \in Workers : ~Building(x, n)'
  BY DEF Crash, Building, Provisioning
<1> QED
  BY <1>1, <1>2 DEF leaseOf

\* Under the same assumptions, and with a template that deploys something, what
\* a name goes through in the broker is what Lease allows: built, delivered,
\* drained and released, or leaked for good.
THEOREM BrokerImplementsLease ==
  DistinctKeys /\ DistinctNames /\ Deployed # {} => (SerialSpec => ImplementsLease)
<1> SUFFICES ASSUME Apart, Deployed # {}
             PROVE  SerialSpec => ImplementsLease
  BY DEF Apart
<1>1. Init => L!Init
  BY DEF Init, L!Init, leaseOf, RecordedAs, LiveSlots, Live, Objects
<1>2. Leased /\ [SerialNext]_vars => [L!Next]_leaseBar
  <2> SUFFICES ASSUME Leased, [SerialNext]_vars
               PROVE  [L!Next]_leaseBar
    OBVIOUS
  <2>1. CASE \E w \in Workers : Acts(w)
    BY <2>1, ActsLease
  <2>2. CASE Crash
    BY <2>2, CrashLease DEF L!Next
  <2>3. CASE UNCHANGED vars
    BY <2>3 DEF vars, local, leaseBar, leaseOf, RecordedAs, LiveSlots, Live, Intact, Building,
       Provisioning, Ahead
  <2> QED
    BY <2>1, <2>2, <2>3 DEF SerialNext, Acts
<1>3. Leased /\ [SerialNext]_vars => Leased'
  BY LeasedNext
<1> QED
  BY <1>1, <1>2, <1>3, LeasedInit, PTL DEF SerialSpec, ImplementsLease, L!Spec, leaseBar
=============================================================================

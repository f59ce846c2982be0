------------------------------- MODULE Broker -------------------------------
(***************************************************************************)
(* The request handlers of pkg/broker/logic.go, together with what they    *)
(* call: the `instances` table (pkg/dao/instance.go) and the loops over a  *)
(* template's objects against the Kubernetes API server                    *)
(* (pkg/kubernetes).  net/http runs every request in a goroutine of its    *)
(* own, and no handler takes the RWMutex of BusinessLogic: the only atomic *)
(* steps are single SQL statements and single API calls.                   *)
(*                                                                         *)
(* A goroutine is a member of Workers.  pc[w] is the call it makes next.   *)
(***************************************************************************)
EXTENDS Integers, Sequences, FiniteSets

CONSTANTS
  Workers,        \* request goroutines that may exist at once
  Ids,            \* instance ids that occur in request URLs
  KeyOf,          \* the primary-key class of an id (the collation folds case)
  Names,          \* NAMESPACE + INSTANCE_NAME: what names the cluster objects
  NamespaceOf,    \* the NAMESPACE part of a member of Names
  Plans,          \* plan ids of the registered service
  Template,       \* the kinds of the template's objects, in file order
  Requests,       \* the requests the platform may send
  Registered,     \* the service's template and plugin are found, and the template renders
  InsertAccepted, \* MySQL takes _insertSQL for a valid statement (module InstanceTable)
  Flaky,          \* SQL statements, API calls and plugin hooks may fail
  Crashes,        \* the process may exit (SIGTERM, panic outside a handler)
  NoId, NoName, NoPlan, UnknownPlan, NoRow, NoReq   \* distinct sentinels

VARIABLES
  rows,   \* key -> row of the table, or NoRow
  objs,   \* <<name, slot>> -> the object of that slot of the template
  pc, req, seen, todo, link, reply      \* the state of each goroutine

local == <<pc, req, seen, todo, link, reply>>
vars == <<rows, objs, local>>

-----------------------------------------------------------------------------
(* Data *)

Keys    == {KeyOf[i] : i \in Ids}
Labels  == Ids \cup {NoId}
Slots   == 1..Len(Template)
Objects == Names \X Slots

\* `yaml` is the rendered template; all the handlers do with it is to walk its
\* objects, which the name and the label it was rendered with determine.
Row == [id: Ids, ns: {NamespaceOf[n] : n \in Names}, plan: Plans,
        yaml: [name: Names, label: Labels]]

Ops == {"provision", "deprovision", "last_operation", "update", "bind", "unbind"}

\* Only the fields the handler reads: a PlanID may be missing from an Update
\* (nil pointer), and parameters may lack NAMESPACE or INSTANCE_NAME.  Bind and
\* Unbind read the service alone: with UnknownPlan it is not in the catalog.
Request == [op: Ops, id: Ids, name: Names \cup {NoName},
            plan: Plans \cup {NoPlan, UnknownPlan}]

\* "deleted" differs from "never" for the properties only: to the API server
\* both are NotFound.
Object == [st: {"never", "live", "deleted"}, label: Labels]

ASSUME KeyAssumption       == KeyOf \in [Ids -> Keys]
ASSUME NamespaceAssumption ==
         NamespaceOf \in [Names -> {NamespaceOf[n] : n \in Names}]
ASSUME TemplateAssumption  == Template \in Seq(STRING)
ASSUME RequestAssumption   == Requests \subseteq Request
ASSUME FlagAssumption      ==
         {Registered, InsertAccepted, Flaky, Crashes} \subseteq BOOLEAN
ASSUME SentinelAssumption  ==
         /\ NoId \notin Ids /\ NoName \notin Names /\ NoPlan \notin Plans
         /\ NoRow \notin Row /\ NoReq \notin Request

Least(S) == CHOOSE i \in S : \A j \in S : i <= j

\* The filters of CreateService / UpdateService, CreateInstance and
\* UpdateInstance; deleteFromReader has none.
ServiceSlots  == {i \in Slots : Template[i] = "Service"}
InstanceSlots == {i \in Slots : Template[i] \notin {"Service", "Ingress"}}
UpdateSlots   == {i \in Slots : Template[i] \notin {"Service", "Ingress", "Router"}}
\* Variant with a fault: deletes by CreateInstance's filter.
DeleteInstanceOnly == InstanceSlots

DeleteSlots   == Slots

\* SelectInstance leaves InstanceID empty when no row matches, and that is
\* the id templateInit is given.
RowId(row) == IF row = NoRow THEN NoId ELSE row.id
RowOf(w)   == rows[KeyOf[req[w].id]]
Exists(w)  == RowId(RowOf(w)) = req[w].id

\* Variant with a fault: the plan is not looked up.
ValidForAnyPlan(r) == r.name \in Names /\ Registered

Valid(r) == r.plan \in Plans /\ r.name \in Names /\ Registered

Rendered(w) == [name |-> req[w].name, label |-> RowId(seen[w])]

\* What a goroutine's readers walk: the row's yaml or the rendered template.
Target(w) == IF req[w].op = "deprovision" THEN seen[w].yaml.name ELSE req[w].name
Cursor(w) == <<Target(w), Least(todo[w])>>
Live(o)   == objs[o].st = "live"

-----------------------------------------------------------------------------
(* Building blocks of the steps *)

Goto(w, label, slots) ==
  /\ pc'   = [pc EXCEPT ![w] = label]
  /\ todo' = [todo EXCEPT ![w] = slots]
  /\ UNCHANGED reply

Reply(w, code) ==
  /\ pc'    = [pc EXCEPT ![w] = "done"]
  /\ todo'  = [todo EXCEPT ![w] = {}]
  /\ reply' = [reply EXCEPT ![w] = code]

Advance(w) == Goto(w, pc[w], todo[w] \ {Least(todo[w])})

\* The objects are left alone.
Quiet(w) == UNCHANGED objs /\ link' = [link EXCEPT ![w] = "none"]

\* The object under w's cursor becomes v: its resourceVersion moves, so that
\* what another goroutine remembers of it from a Get is stale.
Write(w, v) ==
  /\ objs' = [objs EXCEPT ![Cursor(w)] = v]
  /\ link' = [x \in Workers |->
                IF x = w THEN "none"
                ELSE IF link[x] = "found" /\ Cursor(x) = Cursor(w) THEN "stale"
                ELSE link[x]]

Keep(w) == UNCHANGED <<rows, req, seen>>

\* A call that fails before or after it took effect, and the reply it gets.
Lost(w, effect, none, code) == Flaky /\ (effect \/ none) /\ Reply(w, code)

-----------------------------------------------------------------------------
(* The start of a request: net/http, then the SELECT with which all but    *)
(* Bind and Unbind begin, and the checks that follow it without another    *)
(* external call.                                                          *)

FirstCall(op) == IF op \in {"bind", "unbind"} THEN "plugin" ELSE "select"

Arrive(w, r) ==
  /\ pc[w] = "idle"
  /\ pc'  = [pc EXCEPT ![w] = FirstCall(r.op)]
  /\ req' = [req EXCEPT ![w] = r]
  /\ UNCHANGED <<rows, objs, seen, todo, link, reply>>

SelectFails(w) ==
  /\ Flaky /\ pc[w] = "select"
  /\ Reply(w, "503") /\ Quiet(w) /\ Keep(w)

Asks(w, op) == pc[w] = "select" /\ req[w].op = op

\* The handler answers from the row it read and does nothing else.
Refuse(w, code) == Reply(w, code) /\ Quiet(w) /\ Keep(w)

\* The handler goes on with a copy of the row it read.
Accept(w, label, slots) ==
  /\ seen' = [seen EXCEPT ![w] = RowOf(w)]
  /\ Goto(w, label, slots) /\ Quiet(w) /\ UNCHANGED <<rows, req>>

ProvisionConflict(w) == Asks(w, "provision") /\ Exists(w) /\ Refuse(w, "409")

\* A check of the request fails, or rendering, applyParameters or applyPlan.
ProvisionInvalid(w) ==
  /\ Asks(w, "provision") /\ ~Exists(w)
  /\ Flaky \/ ~Valid(req[w])
  /\ Refuse(w, "400")

ProvisionSelect(w) ==
  /\ Asks(w, "provision") /\ ~Exists(w) /\ Valid(req[w])
  /\ Accept(w, "create_service", ServiceSlots)

DeprovisionGone(w) == Asks(w, "deprovision") /\ RowOf(w) = NoRow /\ Refuse(w, "410")

\* beforeKubeDelete fails: no plugin is registered, or the plugin's hook does.
DeprovisionHook(w) ==
  /\ Asks(w, "deprovision") /\ RowOf(w) # NoRow
  /\ Flaky \/ ~Registered
  /\ Refuse(w, "500")

DeprovisionSelect(w) ==
  /\ Asks(w, "deprovision") /\ RowOf(w) # NoRow /\ Registered
  /\ Accept(w, "delete", DeleteSlots)

LastOperationGone(w) ==
  Asks(w, "last_operation") /\ RowOf(w) = NoRow /\ Refuse(w, "410")

LastOperationSelect(w) ==
  Asks(w, "last_operation") /\ RowOf(w) # NoRow /\ Accept(w, "list", {})

UpdateConflict(w) == Asks(w, "update") /\ Exists(w) /\ Refuse(w, "409")

\* *request.PlanID with a nil PlanID: net/http recovers and drops the connection.
UpdatePanic(w) ==
  /\ Asks(w, "update") /\ ~Exists(w) /\ req[w].plan = NoPlan
  /\ Refuse(w, "panic")

UpdateInvalid(w) ==
  /\ Asks(w, "update") /\ ~Exists(w) /\ req[w].plan # NoPlan
  /\ Flaky \/ ~Valid(req[w])
  /\ Refuse(w, "400")

UpdateSelect(w) ==
  /\ Asks(w, "update") /\ ~Exists(w) /\ Valid(req[w])
  /\ Accept(w, "update_service", ServiceSlots)

-----------------------------------------------------------------------------
(* Provision: CreateService, applySpecial, CreateInstance, getDashboardURL *)
(* and the INSERT.  Nothing is undone when a later call fails.             *)

Created(w) == [st |-> "live", label |-> Rendered(w).label]

\* Variant with a fault: what is there already is taken as created.
CreateObjectAdopting(w) ==
  /\ pc[w] \in {"create_service", "create_instance"} /\ todo[w] # {}
  /\ IF Live(Cursor(w)) THEN Quiet(w) ELSE Write(w, Created(w))
  /\ Advance(w) /\ Keep(w)

\* createFromReader, one object: AlreadyExists is an error like any other.
CreateObject(w) ==
  /\ pc[w] \in {"create_service", "create_instance"} /\ todo[w] # {}
  /\ IF Live(Cursor(w)) THEN Quiet(w) /\ Reply(w, "500")
                        ELSE Write(w, Created(w)) /\ Advance(w)
  /\ Keep(w)

\* Variant with a fault: the error is logged and the loop goes on.
CreateFailsUnnoticed(w) ==
  /\ Flaky /\ pc[w] \in {"create_service", "create_instance"} /\ todo[w] # {}
  /\ Quiet(w) /\ Advance(w) /\ Keep(w)

CreateFails(w) ==
  /\ pc[w] \in {"create_service", "create_instance"} /\ todo[w] # {}
  /\ Lost(w, ~Live(Cursor(w)) /\ Write(w, Created(w)), Quiet(w), "500")
  /\ Keep(w)

\* Variant with a fault: CreateInstance is not called.
ServicesCreatedOnly(w) ==
  /\ pc[w] = "create_service" /\ todo[w] = {}
  /\ Goto(w, "insert", {}) /\ Quiet(w) /\ Keep(w)

ServicesCreated(w) ==
  /\ pc[w] = "create_service" /\ todo[w] = {}
  /\ Goto(w, "create_instance", InstanceSlots) /\ Quiet(w) /\ Keep(w)

InstanceCreated(w) ==
  /\ pc[w] = "create_instance" /\ todo[w] = {}
  /\ Goto(w, "insert", {}) /\ Quiet(w) /\ Keep(w)

\* applySpecial, getDashboardURL and afterKubeDelete are plugin hooks.
HookFails(w) ==
  /\ Flaky /\ todo[w] = {}
  /\ pc[w] \in {"create_service", "create_instance", "update_service", "delete"}
  /\ Reply(w, "500") /\ Quiet(w) /\ Keep(w)

NewRow(w) == [id |-> req[w].id, ns |-> NamespaceOf[req[w].name],
              plan |-> req[w].plan, yaml |-> Rendered(w)]

\* MySQL refuses a malformed statement, and a duplicate key.
Insertable(w) == InsertAccepted /\ RowOf(w) = NoRow
Insert(w)     == rows' = [rows EXCEPT ![KeyOf[req[w].id]] = NewRow(w)]

InsertRow(w) ==
  /\ pc[w] = "insert"
  /\ IF Insertable(w) THEN Insert(w) /\ Reply(w, "202")
                      ELSE UNCHANGED rows /\ Reply(w, "503")
  /\ Quiet(w) /\ UNCHANGED <<req, seen>>

InsertFails(w) ==
  /\ pc[w] = "insert"
  /\ Lost(w, Insertable(w) /\ Insert(w), UNCHANGED rows, "503")
  /\ Quiet(w) /\ UNCHANGED <<req, seen>>

-----------------------------------------------------------------------------
(* Deprovision: deleteFromReader over the row's yaml, afterKubeDelete, and *)
(* the DELETE, by the id of the request.                                   *)

Deleted == [st |-> "deleted", label |-> NoId]

\* NotFound is not an error here.
Delete(w) == IF Live(Cursor(w)) THEN Write(w, Deleted) ELSE Quiet(w)

\* Variant with a fault: NotFound is an error.
DeleteObjectStrictly(w) ==
  /\ pc[w] = "delete" /\ todo[w] # {}
  /\ IF Live(Cursor(w)) THEN Write(w, Deleted) /\ Advance(w)
                        ELSE Quiet(w) /\ Reply(w, "500")
  /\ Keep(w)

DeleteObject(w) ==
  /\ pc[w] = "delete" /\ todo[w] # {}
  /\ Delete(w) /\ Advance(w) /\ Keep(w)

DeleteFails(w) ==
  /\ pc[w] = "delete" /\ todo[w] # {}
  /\ Lost(w, Delete(w), Quiet(w), "500") /\ Keep(w)

ObjectsDeleted(w) ==
  /\ pc[w] = "delete" /\ todo[w] = {}
  /\ Goto(w, "delete_row", {}) /\ Quiet(w) /\ Keep(w)

\* Variant with a fault: _deleteSQL without its WHERE.
RemoveAll(w) == rows' = [k \in Keys |-> NoRow]

\* No row affected is not an error either.
Remove(w) == rows' = [rows EXCEPT ![KeyOf[req[w].id]] = NoRow]

DeleteRow(w) ==
  /\ pc[w] = "delete_row"
  /\ Remove(w) /\ Reply(w, "200") /\ Quiet(w) /\ UNCHANGED <<req, seen>>

DeleteRowFails(w) ==
  /\ pc[w] = "delete_row"
  /\ Lost(w, Remove(w), UNCHANGED rows, "503") /\ Quiet(w) /\ UNCHANGED <<req, seen>>

-----------------------------------------------------------------------------
(* LastOperation: CheckInstance lists the pods that carry the row's id in  *)
(* the row's namespace.  Without one it reports podCreating; with some,    *)
(* their states (module PodStatus) and the plugin decide.                  *)

HasPods(w) == \E n \in Names, i \in Slots :
  /\ NamespaceOf[n] = seen[w].ns /\ Template[i] = "Deployment"
  /\ Live(<<n, i>>) /\ objs[<<n, i>>].label = seen[w].id

Reports(w) == IF HasPods(w)
              THEN {"processing", "failed", "succeed", "panic"} \cup
                   (IF Flaky \/ ~Registered THEN {"500"} ELSE {})
              ELSE {"processing"}

ListPods(w) ==
  /\ pc[w] = "list"
  /\ \E report \in Reports(w) : Reply(w, report)
  /\ Quiet(w) /\ Keep(w)

ListFails(w) ==
  /\ Flaky /\ pc[w] = "list"
  /\ Reply(w, "500") /\ Quiet(w) /\ Keep(w)

-----------------------------------------------------------------------------
(* Update: per object a Get, then a Create or an Update that carries the   *)
(* resourceVersion read; then the UPDATE of the row.                       *)

GetObject(w) ==
  /\ pc[w] \in {"update_service", "update_instance"}
  /\ todo[w] # {} /\ link[w] = "none"
  /\ link' = [link EXCEPT ![w] = IF Live(Cursor(w)) THEN "found" ELSE "missing"]
  /\ UNCHANGED <<rows, objs, pc, req, seen, todo, reply>>

GetFails(w) ==
  /\ Flaky /\ pc[w] \in {"update_service", "update_instance"}
  /\ todo[w] # {} /\ link[w] = "none"
  /\ Reply(w, "500") /\ Quiet(w) /\ Keep(w)

\* A Create of what is there and an Update of what has changed are errors.
Puttable(w) == IF link[w] = "missing" THEN ~Live(Cursor(w)) ELSE link[w] = "found"

PutObject(w) ==
  /\ pc[w] \in {"update_service", "update_instance"} /\ link[w] # "none"
  /\ IF Puttable(w) THEN Write(w, Created(w)) /\ Advance(w)
                    ELSE Quiet(w) /\ Reply(w, "500")
  /\ Keep(w)

PutFails(w) ==
  /\ pc[w] \in {"update_service", "update_instance"} /\ link[w] # "none"
  /\ Lost(w, Puttable(w) /\ Write(w, Created(w)), Quiet(w), "500")
  /\ Keep(w)

ServicesUpdated(w) ==
  /\ pc[w] = "update_service" /\ todo[w] = {}
  /\ Goto(w, "update_instance", UpdateSlots) /\ Quiet(w) /\ Keep(w)

InstanceUpdated(w) ==
  /\ pc[w] = "update_instance" /\ todo[w] = {}
  /\ Goto(w, "update_row", {}) /\ Quiet(w) /\ Keep(w)

\* Variant with a fault: _updateSQL without its WHERE.
ReviseAll(w) ==
  rows' = [k \in Keys |->
             IF rows[k] = NoRow THEN NoRow
             ELSE [rows[k] EXCEPT !.plan = req[w].plan, !.yaml = Rendered(w)]]

\* _updateSQL leaves the namespace column alone, and no row affected is no error.
Revise(w) ==
  rows' = IF RowOf(w) = NoRow THEN rows
          ELSE [rows EXCEPT ![KeyOf[req[w].id]] =
                  [@ EXCEPT !.plan = req[w].plan, !.yaml = Rendered(w)]]

UpdateRow(w) ==
  /\ pc[w] = "update_row"
  /\ Revise(w) /\ Reply(w, "202") /\ Quiet(w) /\ UNCHANGED <<req, seen>>

UpdateRowFails(w) ==
  /\ pc[w] = "update_row"
  /\ Lost(w, Revise(w), UNCHANGED rows, "503") /\ Quiet(w) /\ UNCHANGED <<req, seen>>

-----------------------------------------------------------------------------
(* Bind and Unbind: the service is looked up and its plugin called,        *)
(* whether or not there is an instance.                                    *)

PluginAnswers(r) ==
  IF r.plan \notin Plans THEN {"400"}
  ELSE (IF Registered THEN {"200"} ELSE {}) \cup
       (IF Flaky \/ ~Registered THEN {"500"} ELSE {})

CallPlugin(w, op) ==
  /\ pc[w] = "plugin" /\ req[w].op = op
  /\ \E code \in PluginAnswers(req[w]) : Refuse(w, code)

Bind(w)   == CallPlugin(w, "bind")
Unbind(w) == CallPlugin(w, "unbind")

-----------------------------------------------------------------------------
(* The end of a request, and of the process: cancelOnInterrupt calls       *)
(* os.Exit at once, whatever the goroutines are doing.                     *)

Return(w) ==
  /\ pc[w] = "done"
  /\ pc'    = [pc EXCEPT ![w] = "idle"]
  /\ req'   = [req EXCEPT ![w] = NoReq]
  /\ seen'  = [seen EXCEPT ![w] = NoRow]
  /\ reply' = [reply EXCEPT ![w] = "none"]
  /\ UNCHANGED <<rows, objs, todo, link>>

Crash ==
  /\ Crashes
  /\ pc'    = [w \in Workers |-> "idle"]
  /\ req'   = [w \in Workers |-> NoReq]
  /\ seen'  = [w \in Workers |-> NoRow]
  /\ todo'  = [w \in Workers |-> {}]
  /\ link'  = [w \in Workers |-> "none"]
  /\ reply' = [w \in Workers |-> "none"]
  /\ UNCHANGED <<rows, objs>>

Init ==
  /\ rows  = [k \in Keys |-> NoRow]
  /\ objs  = [o \in Objects |-> [st |-> "never", label |-> NoId]]
  /\ pc    = [w \in Workers |-> "idle"]
  /\ req   = [w \in Workers |-> NoReq]
  /\ seen  = [w \in Workers |-> NoRow]
  /\ todo  = [w \in Workers |-> {}]
  /\ link  = [w \in Workers |-> "none"]
  /\ reply = [w \in Workers |-> "none"]

Provision(w) ==
  \/ ProvisionConflict(w) \/ ProvisionInvalid(w) \/ ProvisionSelect(w)
  \/ CreateObject(w)      \/ CreateFails(w)
  \/ ServicesCreated(w)   \/ InstanceCreated(w)
  \/ InsertRow(w)         \/ InsertFails(w)

Deprovision(w) ==
  \/ DeprovisionGone(w) \/ DeprovisionHook(w) \/ DeprovisionSelect(w)
  \/ DeleteObject(w)    \/ DeleteFails(w)     \/ ObjectsDeleted(w)
  \/ DeleteRow(w)       \/ DeleteRowFails(w)

LastOperation(w) ==
  \/ LastOperationGone(w) \/ LastOperationSelect(w)
  \/ ListPods(w)          \/ ListFails(w)

Update(w) ==
  \/ UpdateConflict(w)  \/ UpdatePanic(w)     \/ UpdateInvalid(w) \/ UpdateSelect(w)
  \/ GetObject(w)       \/ GetFails(w)        \/ PutObject(w)     \/ PutFails(w)
  \/ ServicesUpdated(w) \/ InstanceUpdated(w) \/ UpdateRow(w)     \/ UpdateRowFails(w)

Handle(w) ==
  \/ SelectFails(w) \/ HookFails(w) \/ Return(w)
  \/ Provision(w)   \/ Deprovision(w) \/ LastOperation(w) \/ Update(w)
  \/ Bind(w)        \/ Unbind(w)

Next ==
  \/ \E w \in Workers, r \in Requests : Arrive(w, r)
  \/ \E w \in Workers : Handle(w)
  \/ Crash

Spec == Init /\ [][Next]_vars

-----------------------------------------------------------------------------
(* Properties *)

Steps == {"idle", "select", "create_service", "create_instance", "insert",
          "delete", "delete_row", "list", "update_service", "update_instance",
          "update_row", "plugin", "done"}

Replies == {"none", "200", "202", "400", "409", "410", "500", "503",
            "processing", "failed", "succeed", "panic"}

\* Type invariant of the table, the cluster and the goroutines.
TypeOK ==
  /\ rows  \in [Keys -> Row \cup {NoRow}]
  /\ objs  \in [Objects -> Object]
  /\ pc    \in [Workers -> Steps]
  /\ req   \in [Workers -> Request \cup {NoReq}]
  /\ seen  \in [Workers -> Row \cup {NoRow}]
  /\ todo  \in [Workers -> SUBSET Slots]
  /\ link  \in [Workers -> {"none", "found", "missing", "stale"}]
  /\ reply \in [Workers -> Replies]

\* Every object that both Provision and Update deploy.
Deployed == ServiceSlots \cup UpdateSlots

\* A row never describes a deployment that was not carried through: each
\* object its yaml deploys has existed, whatever failed or raced on the way
\* (Provision writes the row last, Update after its last object).
RecordedComplete ==
  \A k \in Keys : rows[k] # NoRow =>
    \A i \in Deployed : objs[<<rows[k].yaml.name, i>>].st # "never"

Provisioning(w, n) ==
  pc[w] \in {"create_service", "create_instance", "insert"} /\ req[w].name = n
Deleting(w, n)     == pc[w] = "delete" /\ seen[w].yaml.name = n
Updating(w, n)     ==
  pc[w] \in {"update_service", "update_instance", "update_row"} /\ req[w].name = n

\* The slots a Provision has still to create.
Ahead(w) == CASE pc[w] = "create_service"  -> todo[w] \cup InstanceSlots
              [] pc[w] = "create_instance" -> todo[w]
              [] OTHER                     -> {}

\* Object i of name n is live, no row names n, and whoever is at work on n is
\* a Provision that has yet to run into the object.
Orphaned(n, i) ==
  /\ Live(<<n, i>>)
  /\ \A k \in Keys : rows[k] # NoRow => rows[k].yaml.name # n
  /\ \A w \in Workers : /\ ~Deleting(w, n) /\ ~Updating(w, n)
                        /\ Provisioning(w, n) => i \in Ahead(w)

\* What a failed, killed or overtaken Provision leaves behind stays behind: an
\* orphan is never deleted, and its name never recorded for an instance,
\* unless an Update of an unrecorded instance picks the name.
OrphansStay ==
  [][\A n \in Names, i \in ServiceSlots \cup InstanceSlots :
       Orphaned(n, i) => Orphaned(n, i)' \/ \E w \in Workers : Updating(w, n)']_vars

\* An Update that is acknowledged has updated the instance it names.
UpdatesTheInstance ==
  \A w \in Workers :
    pc[w] = "done" /\ req[w].op = "update" /\ reply[w] = "202" =>
      RowOf(w) # NoRow /\ RowOf(w).yaml = Rendered(w)

\* The objects of a recorded instance carry its id, by which LastOperation
\* finds their pods.
CarriesItsId ==
  \A k \in Keys : rows[k] # NoRow => rows[k].yaml.label = rows[k].id

\* The INSERT of an instance that has no row records it.
InsertRecords ==
  [][\A w \in Workers :
       InsertRow(w) /\ RowOf(w) = NoRow => rows'[KeyOf[req[w].id]] # NoRow]_vars
=============================================================================

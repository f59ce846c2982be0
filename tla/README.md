# TLA+ models of the service broker

A specification of the Open Service Broker in this repository: the request
handlers against MySQL and the Kubernetes API server (`Broker`,
`SerialPlatform`, `Lease`), the table's columns and the connection pool
(`InstanceTable`), what `LastOperation` reports (`PodStatus`), the way from the
service configurations to the tables the handlers look requests up in
(`Catalog`), and the life of the process around them (`Process`). TLC checks
small instances. Every safety property that a passing run checks, the refinement
of `Lease` included, is also a theorem: of the properties of `Broker`, `Catalog`,
`Process` and `PodStatus` for every value of the constants, of those of
`SerialPlatform` under hypotheses about the ids and names that are in use, and of
`ReadsBack` for the columns that the SQL means (see "What is proved").

## The system

| component | code | state | operations |
|---|---|---|---|
| request handlers | `pkg/broker/logic.go`, `bussiness.go` | none of their own after start-up | GetCatalog, Provision, Deprovision, LastOperation, Update, Bind, Unbind |
| instance table | `pkg/dao`, `openshift/db.sql` | one row per instance id | SELECT, INSERT, UPDATE, DELETE by id |
| cluster loops | `pkg/kubernetes` | none; the API server holds the objects | create, get/update/create, delete object by object; list pods |
| pod status check | `pkg/kubernetes/instance.go`, `logic.go` | none | count container statuses |
| start-up | `bussiness.go`, `pkg/asset` | the tables of `BusinessLogic`, written once | InitServices, InitServiceTemplate |
| catalog generator | `cmd/template` | the `*_generated.json` files | load configurations, draw ids, write |
| service plugins | `pkg/service` | theirs | hooks that render, and run before and after deletes |
| process | `cmd/servicebroker`, `cli.go`, `dao.go`, `clientset.go` | four kinds of goroutines, a context, the pool and the clients | start part by part, serve, `os.Exit` on SIGTERM or interrupt, or when the start fails |

How they interact: net/http runs each request in a goroutine. A handler starts
with a SELECT, checks the request against the start-up tables and the row it
read, then makes its calls one after the other: per object of the rendered
template one API call (two for Update), plugin hooks in between, one SQL
statement at the end. `BusinessLogic` embeds a `sync.RWMutex` that nothing
locks, so any two handlers interleave between any two calls. Nothing is undone
when a call fails, and the signal handler exits in the middle of whatever is
running. What survives are the table and the cluster.

What is hard about that, and what has to be right:

* *Handlers.* The table and the cluster are written in separate steps, by
  requests that may race, fail or be cut off. A row must never describe a
  deployment that was not carried through; a Deprovision that is answered 200
  must have released everything; retried Deprovisions must converge; one
  instance must not lose objects to another's requests; nothing should remain in
  the cluster that no row names (it does).
* *Table.* The row is the only record of what to delete, so it must be written
  after the last object and outlive it. Its columns are bound, stored and scanned
  in orders that are written down in four places. A bounded pool hands out
  connections, and who gets none waits.
* *Cluster loops.* Provision takes AlreadyExists for an error, deletes take
  NotFound for success, Update carries a resourceVersion read one call before.
* *Pod status.* No container and all containers ready are the same to the
  count; the report is computed from a snapshot that is already old.
* *Start-up and generator.* Assets load in the order of a map; a failed write
  leaves catalogs of two generations side by side; a platform may still hold ids
  of a third.
* *Process.* main, the signal watcher and the server's shutdown race each other
  to the exit; a signal may come before the watcher listens; MySQL may never
  answer the Ping of the start.

## The modules

**`Broker`** has one goroutine per member of `Workers`; `pc[w]` is the call it
makes next. `rows` is the table by primary key (`KeyOf`: the collation
`utf8_general_ci` may give two ids one key), `objs` the objects of each template
slot under each name. A *name* stands for NAMESPACE and INSTANCE_NAME together,
which is what the object names in a template are made of. `seen[w]` is the
handler's copy of the row, `todo[w]` the slots of the template its loop has not
come to, `link[w]` what an Update remembers of the object it has just read.

| code | actions |
|---|---|
| the SELECT and the checks up to the next external call | `SelectFails`, `Provision{Conflict,Invalid,Select}`, `Deprovision{Gone,Hook,Select}`, `LastOperation{Gone,Select}`, `Update{Conflict,Panic,Invalid,Select}` |
| `createFromReader`, twice with different filters | `CreateObject`, `CreateFails`, `ServicesCreated`, `InstanceCreated` |
| `InsertInstance` | `InsertRow`, `InsertFails` |
| `deleteFromReader`, then `DeleteInstance` | `DeleteObject`, `DeleteFails`, `ObjectsDeleted`, `DeleteRow`, `DeleteRowFails` |
| `createOrUpdateFromReader`, then `UpdateInstance` | `GetObject`, `GetFails`, `PutObject`, `PutFails`, `ServicesUpdated`, `InstanceUpdated`, `UpdateRow`, `UpdateRowFails` |
| `CheckInstance` | `ListPods`, `ListFails` |
| plugin hooks between the calls | `HookFails` |
| `bindInstance`, `unbindInstance`: a lookup and a hook, with or without an instance | `Bind`, `Unbind` |
| the handler returns | `Return` |
| `cancelOnInterrupt` | `Crash` |

A call that fails may have taken effect or not (`Lost`). The checks between two
calls touch no shared state and belong to the step of the call before them.

**`SerialPlatform`** adds the one thing an OSB platform does promise: at most
one request per instance is in flight, so the next one about an id is sent only
after the answer to the one before, or after the connection broke. It also
states the properties that need this promise.

**`InstanceTable`** puts `pkg/dao` under those handlers. `table` has each row by
its columns: `_insertSQL` and `_updateSQL` store the fields of `Instance` by
position (`InsertArgs`, `UpdateArgs`), `SelectInstance` scans `SELECT *` by
position (`ScanTargets`), and `Accepted` is MySQL's check of the statement
against the table. `Broker`'s `InsertAccepted` is assumed to be that check's
outcome. `conn` and `inUse` are the pool of database/sql: a handler's statement
is a step of `Broker` that needs a connection (`With`) and gives it back
(`Release`); `Connect` waits while `MysqlActive` are in use. A column that no
statement has set holds `Null`, and a row with one does not scan (`ScanFails`):
the SELECT fails, and the return from the middle of `SelectInstance`'s loop
(`instance.go:84-86`) leaves the rows open, so that `Release` keeps the
connection in use for good. Every other step of a handler is that of `Broker`,
unchanged.

**`Lease`** is the abstract specification: what a name goes through for somebody
who sees only rows and objects. A name is free, building, in use, draining, or
leaked for good. `ImplementsLease` maps `SerialPlatform` to it: a name is *in
use* or *draining* while a row names it (by whether all its objects are there),
*building* while one Provision made every object there is, *leaked* when objects
are there and neither holds.

**`PodStatus`** has the containers of one instance's pods change state under
the kubelet while polls list them, evaluate the list and answer. It refines the
open outcome of `Broker!ListPods`, which only distinguishes no pods from some.

**`Catalog`** has the generator draw ids and write files, with runs that fail
midway, the binary embed what files there are, and NewBusinessLogic load them
asset by asset in any order; then `GetCatalog` and the lookups of Provision.
Each run of the generator may find the configurations edited (`Revisions`), and
`fetched` is all a platform has ever got from GetCatalog. An
id that is drawn is named by the run, service and quota combination it is drawn
for, because 128 random bits do not repeat. But `uuid` drops the errors of Open
and Read (`main.go:177-179`) and then returns the hex of sixteen zero bytes: of
the draws in the member of `Unread` that a run of the generator meets, all ids
are `Zero`. So two services, two plans, or services of two generations may have
one id, and the tables, which are maps, keep the one that was loaded last.

**`Process`** composes `Catalog` with the goroutines of `cmd/servicebroker`:
every step of it that touches `Catalog`'s variables is an action of `Catalog`.

| code | actions |
|---|---|
| `main`, `run`: the deferred `cancelFunc`, `Fatalln`, the end of main | `Launch`, `CancelOnReturn`, `Leave` |
| `runWithContext`, phase by phase | `Misuse`, `Configure`, `Load`, `CatalogFails`, `CatalogLoaded`, `NewDao`, `NewKubeCli`, `Authenticate`, `Listen`, `ListenFails`, `Serve`, `Closed` |
| `cancelOnInterrupt` | `Notify`, `Park`, `Cancel`, `ExitZero` |
| the goroutine of `(*Server).run` | `Shutdown` |
| net/http's goroutines, the platform | `Request`, `Respond` |
| signals: fatal before Notify, dropped before the select, received in it | `Kill`, `Interrupt` |

`Die` is os.Exit: all goroutines and the tables are gone at once. To `Broker`
this is `Crash`, which may come at any time, so nothing is lost by checking
the two apart.

**`BrokerProofs`**, **`SerialProofs`**, **`InstanceTableProofs`**,
**`PodStatusProofs`**, **`CatalogProofs`** and **`ProcessProofs`** hold the
theorems, each about the module it is named after (`CatalogProofs` about
`Process`, too, as far as it is a `Catalog`). The `MC` modules hold the
constants of the instances. Definitions introduced with "Variant with
a fault" are not part of the models: each is a plausible bug in the definition
after it, and shows that the property it is aimed at would notice.

## What the runs check

Runs that pass:

| run | instance | properties | shows |
|---|---|---|---|
| `core` | 2 goroutines, 2 ids, 2 names, both ids asked for under one name and one id under both, every kind of request and malformed ones, failures, exits, nothing serialised; 940 thousand states | `TypeOK`, `RecordedComplete`, `OrphansStay` | rows never describe a deployment that was not carried through; what a failed Provision leaves is never deleted nor adopted, unless an Update picks its name |
| `serial` | 2 goroutines, 2 ids with a name each, failures, exits, one request per id at a time | `Released`, `DeletesWhatIsRecorded`, `IntactUntilDeprovisioned`, `ImplementsLease` | a 200 means released; the row a Deprovision read says until its DELETE what has to be deleted, whatever the handlers of other instances write; only its own Deprovision takes objects from an instance; every step is a step of `Lease` |
| `converge` | `InstanceTable` with 2 goroutines and one connection, the life of one id and requests about another that compete for the connection, failures, exits, fairness | `EventuallyReleased`, `Answered`, `ReadsBack` | retried Deprovisions end with neither row nor object; every request is answered or cut off by an exit, though one connection serves all; what is scanned is what was stored, in the fields that are read |
| `pods` | 2 containers, every plugin result, fairness | `NoSuccessWithoutPods`, `StuckIsReported` | no success before a container shows; a container that waits for good is reported as failed again and again |
| `catalog` | `Process`: 2 revisions of the configurations (2 services from 3 files, of which 2 give one name, and 1 service with another quota), 2 runs of the generator, every draw of an id read, or those of the services failed, or those of the plans, any number of processes, 2 requests at once, fairness of the watcher only; 452 thousand states | `PlansFound`, `StaleNeverMisserved`, `ServesLoaded`, `SignalStops` | each plan that is offered under drawn ids is found, with the quota it was offered with, and no plan is ever looked up in another service than the one found, zero ids or not; an offer of an earlier process, of a service with a drawn id, is found or refused, never exchanged; no request meets tables that are not complete; signals stop the process even while main hangs |

Runs that find what the code does differently from what its texts say. The
violated statement comes from the line quoted; each run is as small as the case
allows.

| run | statement | what happens |
|---|---|---|
| `race` | `logic.go:23` "Synchronize go routines." | `SettledClean`: two Provisions and a Deprovision of one instance, none failing, leave objects that no row names |
| `exit` | `main.go:136` "exiting gracefully" | `GracefulExit`: the process ends with status 0 while a request is being handled |
| `update` | `interface.go:144` "Update updates the instance" | `UpdatesTheInstance`: it refuses instances that exist, and acknowledges those that do not |
| `label` | `bussiness.go:186` "replace template instanceid" | `CarriesItsId`: objects are labelled with the empty id of the row that was not found, so LastOperation never finds their pods |
| `insert` | `dao_test.go:35` the INSERT must succeed | `InsertRecords`: 11 columns, 12 placeholders; `instance_name` missing; `namespace` spelt `namesapce` in `db.sql` |
| `offered` | `README.md:36` "ready with a minimal example service" | `OfferedIsServed`: offered, and refused by every Provision |
| `ready` | `logic.go:296` the result is `podCreating` | `SuccessMeansReady`: success is reported of containers being created |

Bounds. Two goroutines give every race between two calls of two requests, and an
answered request frees its goroutine, so behaviours of `race` need three
requests; what three at once may do is left to the theorems, which hold for any
number. Two ids and two names give each of the sharing patterns (own names, one
name for two ids, two names for one id). A template has one slot per filter
outcome: a Service, which both creation passes treat differently from the rest,
a workload, and (in `core` and `converge`) an Ingress, which only deletes touch;
more objects of a kind repeat a loop iteration. One connection for two
goroutines (`MysqlActive`) is the smallest pool for which somebody waits. The
number of requests, failures and exits is not bounded. Nor are these bounds
assumed where the theorems speak. In `Catalog` two runs of the generator suffice
for a directory of mixed generations (`MaxRuns`), and give a platform offers of
three: both, and their mixture. A run of it meets one member of `Unread`: no
failed draw, those of all services (their entries in the tables collide), or
those of all plans (the entries within a service do); with two runs and mixed
files that gives a drawn id beside zero ids of the same and of another
generation. `MaxInFlight` is 2, so that an exit may meet requests in any number:
none, some, or all there may be. Goroutines and containers are interchangeable,
so runs of safety properties use symmetry; the runs with liveness properties use
none.

Constants and this commit. Some constants are switches, so that a defect at
one place does not hide the rest of the system. At this commit `InsertAccepted`
is FALSE, as `InstanceTable` derives from the columns of `_insertSQL` and
`db.sql` in `insert`, and `Registered` is FALSE for the reasons `offered`
shows; the other runs set them as the code evidently intends (TRUE, with the
missing column where its argument is and the namespace spelt alike),
and the theorems hold for both. The commit does not build either: Provision
calls `templateInit` without the storage class that Update passes, and
`ZookeeperService` lacks a parameter of two methods of `Service`. Both are read
as if the missing argument were there. The `zookeeper` plugin, finally, returns
empty templates; with `Template` empty the handlers still are those of `Broker`,
and the runs use the shape of the template that is shipped.

Deadlock is checked in every run: an idle goroutine can always take a request.

What zero ids leave. `types.go:8` and `types.go:71` of the vendored
go-open-service-broker-client call the ids of services and plans globally unique;
a generator that could not read `/dev/urandom` makes them equal and says nothing.
`PlansFound` and `StaleNeverMisserved` say what is left then: a service with a
drawn id is found with the plan that was offered, or, if the plan's id is zero,
with some plan of that service whose id is zero, too; an offer under a zero
service id gets whichever such service was loaded last, but never the name of
one with the plan of another.

## Fairness

`converge` (`InstanceTable!Fairness`): the Go scheduler runs every goroutine and
every client call returns, with an error or not (weak fairness of `Handle`);
database/sql hands a connection that is given back to some goroutine that waits
for one; which one differs between releases of Go, and that none is passed over
forever is an assumption (strong fairness of `Connect`); the platform retries a
Deprovision until it is answered 200 or 410, which is what OSB orphan mitigation
and service-catalog do; a Deprovision's calls, made again and again, succeed
again and again, though each may fail any number of times in between (strong
fairness of each kind of call); and the process exits any finite number of
times. Without the last two, MySQL or the API server may be down for good, or
every process be killed before it has read the table once. Nothing is assumed of
Provision, Update or LastOperation.

`catalog` (`Process!Fairness`): the watcher is scheduled, and whoever has sent a
signal sends it again as long as the process runs. One signal is not enough:
`Interrupt` drops it while the watcher is between `Notify` and `Park`. Nothing is
assumed of main, which may hang in Ping.

`pods` (`PodStatus!Fairness`): the platform polls again and again, and not every
List fails; a handler that has its list returns. Nothing is assumed of the
kubelet.

## What is proved

`tlapm` checks six modules. The theorems hold for any number of goroutines, ids,
names, requests, containers, services and configurations, any template, with or
without failures and exits, from the named assumptions of the models only (types
of the constants, that the sentinels are distinct from the values, that
goroutines and containers are finite in number) and from the hypotheses a
theorem states.

`BrokerProofs`, of `Spec`, where nothing is serialised:

* `TypeCorrect`: `TypeOK` is not inductive by itself, as the value an INSERT
  writes has a row's type only if the request passed `Valid` several steps
  before. `Inv` adds `KnowsRequest`: a goroutine past its SELECT has a request,
  of the kind its `pc` belongs to, that passed the checks of its handler, and a
  row if the handler needs one.
* `RecordsAreComplete`: `RecordedComplete` speaks of the moment the row is
  written, so `Complete` adds `Progress`: each object a goroutine has behind it
  in its loop has existed at some time. Other goroutines may delete objects but
  not make them never have existed, which is why the invariant survives every
  interleaving.
* `OrphansAreForever`: an action property. From `Inv` alone, every step from a
  state with an orphan ends in one with that orphan, or with an Update of its
  name under way. The heart of it is that a Provision which runs into the orphan
  stops there, and that a Deprovision follows the row, which does not name it.

`SerialProofs`, of `SerialSpec`, what the platform's promise buys. Two hypotheses
say what the platform and its users bring: `DistinctKeys`, that the collation
tells the ids apart (service-catalog sends UUIDs in one case), and
`DistinctNames`, that no two ids are deployed under one name. Without the first,
two goroutines share a row though their ids differ; without the second, one
instance's delete takes another's objects. Three invariants, each on top of the
one before it:

* `Exclusive`: busy goroutines have different ids, a row is filed under its own
  id, and what a goroutine read of its row at the SELECT still holds: no row for
  a Provision or Update on its way, the row it has a copy of for a Deprovision.
  `CopyStaysTrue` follows, from `DistinctKeys` alone: nobody writes the row that
  a Deprovision works from.
* `Owned`: a row's name belongs to the row's id, and a Deprovision's slots behind
  its cursor hold nothing, which nobody else can undo, since nobody else's id
  has that name. `DeprovisionReleases` and `OnlyDeprovisionTearsDown` follow.
* `Leased`: the objects a Provision has come past are live, and none is live
  outside the slots that Provision creates. With it `BrokerImplementsLease`
  takes the steps one by one: a step of a goroutine moves the lease of its own
  name as `Lease` allows, or leaves it, and leaves all the others
  (`ElsewhereLease`); an exit can only turn *building* into *leaked*. One more
  hypothesis, `Deployed # {}`: a template that deploys nothing has no object whose
  delete makes a name *draining*, and the DELETE would take it from *in use* to
  *free* at once, which `Lease` does not allow.

`InstanceTableProofs`, of `TableSpec`:

* `TableImplementsSerial`: dropping the columns and the pool leaves the steps of
  `SerialPlatform`, so that all of the above holds of the broker on its table.
* `ScanShowsWhatWasBound`: whatever the columns of the table, of the INSERT and
  of the UPDATE and the order of Scan's targets, each field that they settle is
  read back as what the last statement about the row bound as the field that
  Scan shows. The invariant `TableOK` says it of stored rows, and that they are
  rows over the columns, which an UPDATE needs to keep those it does not set.
* `MeantColumnsReadBack` applies it to the columns that `db.sql` and
  `_insertSQL` mean (`ColumnsMeant`, `InsertMeant`): `ReadsBack`, and that the
  service id and the instance name come back exchanged, as `instance.go:81` scans
  one into the other. The columns as they are never get that far (below).
* `RecordedRowsScan`: as long as the INSERT names the two columns that may be
  NULL, a recorded row scans, so that the return which keeps its connection is
  never taken for a row that the broker wrote.
* `AsBuiltRecordsNothing`: for the columns as they are. What `insert` shows of
  one instance holds of all: no row is ever recorded.

`CatalogProofs`, of `Spec` and of `ProcessSpec`:

* `OfferedPlansAreFound` and `OldIdsAreNeverOthers`, from `Consistent`: the
  catalogs *in play* (in a file, about to be written, loaded, or with a
  platform) are each from some run of the generator, no two of them have one id
  that was drawn, and what the two tables have under an id, be it zero, is of
  one loaded catalog (`Entry`). It is inductive because a run's drawn ids name
  the run, because nothing but the generator brings a catalog into play, and
  because `LoadCatalog` writes both tables. `IdsStayApart` is the invariant
  itself. Every step of `Process` is shown to be one of these or to leave them
  alone (`ProcessStep`).

`ProcessProofs`, of `ProcessSpec`: `NoRequestBeforeTables` and
`TablesAreReadOnly`, from `Loaded`, which says for each phase of main whether
the tables are complete and that requests come in the last phase only. Together
they are why the lock that no handler takes is not missed for the tables.

`PodStatusProofs`, of `PodStatus!Spec`: `SuccessOnlyWhileCreating` says exactly
when the two results that are exchanged in `ready` mislead: every success that
is ever reported is of a List with a container being created.
`SuccessShowsPods` follows. Both need that counts of a finite set are equal
only if the sets are (`CountSame`, `CountZero`).

The strengthened invariants were checked with TLC on the runs' instances before
they were proved (`TableOK` without the type of the columns, whose values TLC
cannot compare with each other).

Only model-checked: liveness (`EventuallyReleased`, `Answered`, `SignalStops`,
`StuckIsReported`), which is out of the prover's reach, and the statements that
the code violates, for which a run shows one counterexample.
`AsBuiltRecordsNothing` and `SuccessOnlyWhileCreating` say of two of them how
far the violation goes.

## What is not modelled

TLS, the token middleware, metrics and flags are library code and configuration:
`Process` has their failures at the start only. One service with one template is
modelled; several would multiply `Valid` and `Template` and share nothing but the
table. Rendering is not modelled character by character: a rendered template is
the name and id it was rendered with, and `Catalog` has the fields it needs. Rows
that somebody else writes into the table are left out; a NULL in one would cost a
connection at every SELECT. The map of Services the cluster
loops return is left out, since no plugin reads it; so are the helpers of
`pkg/util` that nothing calls. `Broker` and `Process` are
not multiplied out into one state space: they meet in `Crash` alone, which
`Broker` allows at any time.

## Plan

Done, in the order of importance: `Broker`, `Lease`, `SerialPlatform`,
`BrokerProofs`, `PodStatus`, `Catalog`, `InstanceTable`, `Process`, and the
proofs of the safety properties of each.

Next, for the proofs: what the violated statements leave true, each as a theorem
(that nothing is leaked under a serial platform that sends no Update, without
failures and exits; which requests `GracefulExit` loses); that `Process`
implements `Catalog` as a refinement.

Next, for the models: ids that the collation folds and names shared between
namespaces, in a run of their own; the answer to an offer under a zero id, as a
finding; a plugin that reads the map of Services.

------------------------------ MODULE Catalog -------------------------------
(***************************************************************************)
(* From the service configurations to the tables the handlers look         *)
(* requests up in: the generator (cmd/template), which writes one catalog  *)
(* file per service, the assets embedded in the binary, and                *)
(* NewBusinessLogic (pkg/broker/bussiness.go), which loads them.           *)
(***************************************************************************)
EXTENDS Naturals, Sequences, SequencesExt

CONSTANTS
  Revisions,  \* what the configuration files may be, in the order of ReadDir
  Templates,  \* service name -> fields its template/apply/<name>.yaml uses
  Plugins,    \* names of the plugins InitServices constructs
  MaxRuns,    \* bound on the runs of the generator
  Unread,     \* the draws, as <<service name, draw>>, for which a run of the
              \* generator may fail to read /dev/urandom: a set of such sets
  Missing     \* what a lookup in a table without the key yields

VARIABLES
  files,    \* service name -> what <name>_generated.json holds
  pending,  \* service name -> the catalog the generator has yet to write
  runs,     \* runs of the generator so far
  todo,     \* assets NewBusinessLogic has yet to load
  b,        \* BusinessLogic: the tables
  up,       \* NewBusinessLogic has filled the tables
  fetched   \* what the platform got from GetCatalog, from any start of the broker

vars == <<files, pending, runs, todo, b, up, fetched>>

generated == <<files, pending, runs>>

Empty == [x \in {} |-> Missing]

Lookup(f, k) == IF k \in DOMAIN f THEN f[k] ELSE Missing
\* f with k mapped to v, as an assignment to a Go map.
Put(f, k, v) == [x \in DOMAIN f \cup {k} |-> IF x = k THEN v ELSE f[x]]

-----------------------------------------------------------------------------
(* The generator *)

\* loadTemplate: of two files that give one name, the later one wins.
Names(configs) == {configs[i].name : i \in DOMAIN configs}
Config(configs, n) ==
  configs[CHOOSE i \in DOMAIN configs :
            /\ configs[i].name = n
            /\ \A j \in DOMAIN configs : configs[j].name = n => j <= i]

\* The id made of sixteen zero bytes.
Zero == <<0>>

\* Variant with a fault: an id that depends on the names alone.
uuidOfName(run, n, draw, unread) == <<n, draw>>

\* 128 random bits are never drawn twice: an id is named by where it is drawn.
\* But the errors of Open and Read are dropped, and the bytes are zero then.
uuid(run, n, draw, unread) ==
  IF <<n, draw>> \in unread THEN Zero ELSE <<run, n, draw>>

\* Each combination of the quotas is a plan.
Plans(run, c, unread) ==
  {[id    |-> uuid(run, c.name, <<i, j, k>>, unread),
    quota |-> <<c.cpu[i], c.memory[j], c.disk[k]>>] :
      i \in DOMAIN c.cpu, j \in DOMAIN c.memory, k \in DOMAIN c.disk}

generateTemplate(run, configs, unread) ==
  [n \in Names(configs) |->
     [id    |-> uuid(run, n, <<>>, unread), name |-> n,
      plans |-> Plans(run, Config(configs, n), unread)]]

Generate ==
  /\ runs < MaxRuns /\ pending = Empty /\ ~up /\ todo = {}
  /\ runs' = runs + 1
  /\ \E configs \in Revisions, unread \in Unread :
       pending' = generateTemplate(runs + 1, configs, unread)
  /\ UNCHANGED <<files, todo, b, up, fetched>>

\* writeTemplate ranges over a map: any order.
WriteFile(n) ==
  /\ n \in DOMAIN pending
  /\ files'   = Put(files, n, pending[n])
  /\ pending' = [m \in DOMAIN pending \ {n} |-> pending[m]]
  /\ UNCHANGED <<runs, todo, b, up, fetched>>

\* A write fails, before or after it truncated the file, and the generator
\* exits; the files not yet rewritten are those of an earlier run.
WriteFails(n) ==
  /\ n \in DOMAIN pending
  /\ files' \in {files, Put(files, n, Missing)}
  /\ pending' = Empty
  /\ UNCHANGED <<runs, todo, b, up, fetched>>

-----------------------------------------------------------------------------
(* The broker, built with whatever files there are (go-bindata) *)

Assets == {[kind |-> "catalog", name |-> n] : n \in DOMAIN files} \cup
          {[kind |-> "apply",   name |-> n] : n \in DOMAIN Templates}

NoTables == [catalogs |-> <<>>, serivceIdName |-> Empty, serviceIdPlan |-> Empty,
             serviceTemplates |-> Empty, services |-> Empty]

\* The plugins go into a map of InitServices' own, and b.services stays empty.
InitServices == b' = NoTables

Start ==
  /\ ~up /\ todo = {} /\ pending = Empty
  /\ todo' = Assets
  /\ up' = (todo' = {})
  /\ InitServices
  /\ UNCHANGED <<generated, fetched>>

\* Variant with a fault: the table keeps the address of the loop's variable,
\* and so one plan under all ids.
PlanTableOfOne(c) == [i \in {p.id : p \in c.plans} |-> CHOOSE p \in c.plans : TRUE]

\* Of plans that have one id, one overwrites the others.
PlanTable(c) == [i \in {p.id : p \in c.plans} |-> CHOOSE p \in c.plans : p.id = i]

\* AssetNames ranges over a map: any order.
LoadCatalog(n) ==
  /\ [kind |-> "catalog", name |-> n] \in todo /\ files[n] # Missing
  /\ LET c == files[n] IN
       b' = [b EXCEPT !.catalogs      = Append(@, c),
                      !.serivceIdName = Put(@, c.id, c.name),
                      !.serviceIdPlan = Put(@, c.id, PlanTable(c))]
  /\ todo' = todo \ {[kind |-> "catalog", name |-> n]}
  /\ up'   = (todo' = {})
  /\ UNCHANGED <<generated, fetched>>

\* strings.Split(name, ".")[0] cuts the extension off and keeps the directory.
TemplateKey(n) == "template/apply/" \o n

LoadTemplate(n) ==
  /\ [kind |-> "apply", name |-> n] \in todo
  /\ b' = [b EXCEPT !.serviceTemplates = Put(@, TemplateKey(n), Templates[n])]
  /\ todo' = todo \ {[kind |-> "apply", name |-> n]}
  /\ up'   = (todo' = {})
  /\ UNCHANGED <<generated, fetched>>

\* An asset cannot be read or parsed, MySQL or the cluster is not there, or the process
\* ends while it serves.
Exit ==
  /\ up \/ todo # {}
  /\ up' = FALSE /\ todo' = {} /\ b' = NoTables
  /\ UNCHANGED <<generated, fetched>>

-----------------------------------------------------------------------------
(* The lookups of Provision, for a request with NAMESPACE and INSTANCE_NAME *)

\* text/template fails on a field that the struct Params does not have.
Params == {"InstanceId", "Namespace", "InstanceName", "StorageClass"}

getServiceName(id)     == Lookup(b.serivceIdName, id)
getServiceTemplate(n)  == Lookup(b.serviceTemplates, n)
getPlan(id, planId) ==
  IF id \in DOMAIN b.serviceIdPlan THEN Lookup(b.serviceIdPlan[id], planId) ELSE Missing

\* Provision gets as far as CreateService.
Accepts(id, planId) ==
  /\ getServiceName(id) # Missing
  /\ getPlan(id, planId) # Missing
  /\ getServiceTemplate(getServiceName(id)) # Missing
  /\ getServiceTemplate(getServiceName(id)) \subseteq Params
  /\ getServiceName(id) \in DOMAIN b.services

\* GetCatalog answers with b.catalogs.
Offered == {o \in UNION {{c} \X c.plans : c \in ToSet(b.catalogs)} : up}

GetCatalog ==
  /\ up
  /\ fetched' = fetched \cup Offered
  /\ UNCHANGED <<generated, todo, b, up>>

Init ==
  /\ fetched = {}
  /\ files = Empty /\ pending = Empty /\ runs = 0
  /\ todo = {} /\ up = FALSE /\ b = NoTables

Next ==
  \/ Generate \/ Start \/ Exit \/ GetCatalog
  \/ \E n \in UNION {Names(configs) : configs \in Revisions} :
       WriteFile(n) \/ WriteFails(n) \/ LoadCatalog(n)
  \/ \E n \in DOMAIN Templates : LoadTemplate(n)

Spec == Init /\ [][Next]_vars

-----------------------------------------------------------------------------
(* Properties *)

\* The plans that a request for offer o may get: the one that was offered or,
\* where /dev/urandom gave that none, another of the service without an id.
MayGet(o) == {p \in o[1].plans : p = o[2] \/ (p.id = Zero /\ o[2].id = Zero)}

\* Whatever the order the assets are loaded in, with catalog files left over
\* from a failed run of the generator, and though any draw of an id may have
\* failed unnoticed: the two tables never answer for two services, so that no
\* plan is looked up that is not one of the service found; and a service that
\* has an id is found, with the very plan offered if that has one, too.  Of
\* services that have none, one is found for all of them.
PlansFound ==
  \A o \in Offered :
    /\ \E c \in ToSet(b.catalogs) :
         /\ getServiceName(o[1].id) = c.name
         /\ getPlan(o[1].id, o[2].id) \in c.plans \cup {Missing}
    /\ o[1].id # Zero => /\ getServiceName(o[1].id) = o[1].name
                         /\ getPlan(o[1].id, o[2].id) \in MayGet(o)

\* A platform may send what it read in the catalog of an earlier start, before
\* the configurations were changed, the ids drawn again and the broker rebuilt.
\* If the service had an id, the request is refused or gets the service and
\* the plan it was offered, and never those of another generation, though the
\* files of failed runs mix generations and ids of any of them may be zero.
StaleNeverMisserved ==
  up => \A o \in fetched :
          o[1].id # Zero =>
            /\ getServiceName(o[1].id) \in {o[1].name, Missing}
            /\ getPlan(o[1].id, o[2].id) \in MayGet(o) \cup {Missing}

\* A plan that GetCatalog offers, of a service with a template and a plugin,
\* can be provisioned.
OfferedIsServed ==
  \A o \in Offered :
    o[1].name \in DOMAIN Templates \cap Plugins => Accepts(o[1].id, o[2].id)
=============================================================================

---------------------------- MODULE CatalogProofs ---------------------------
(***************************************************************************)
(* Proofs about Catalog and Process, for every set of configurations and   *)
(* whichever draws of an id fail: what the lookups find for an id, though  *)
(* the zero id may be that of many services and plans.                     *)
(***************************************************************************)
EXTENDS Process, TLAPS

\* The catalogs that run r of the generator may make.
Issue(r) ==
  UNION {{generateTemplate(r, v[1], v[2])[n] : n \in Names(v[1])} : v \in Revisions \X Unread}

Held(f) == {f[n] : n \in DOMAIN f} \ {Missing}

\* The catalogs that are in a file, to be written, loaded, or with the platform.
InPlay ==
  Held(files) \cup Held(pending) \cup ToSet(b.catalogs) \cup {o[1] : o \in fetched}

\* No id that was drawn is that of two catalogs in play, of whatever runs.
Distinct ==
  /\ InPlay \subseteq UNION {Issue(r) : r \in 1..runs}
  /\ \A c, d \in InPlay : c.id = d.id /\ c.id # Zero => c = d

\* The entries of both tables under one id are those of one loaded catalog.
Entry(i, c) ==
  /\ c.id = i
  /\ i \in DOMAIN b.serivceIdName /\ b.serivceIdName[i] = c.name
  /\ i \in DOMAIN b.serviceIdPlan /\ b.serviceIdPlan[i] = PlanTable(c)

\* The tables have an entry for each loaded catalog, and no others.
Tables ==
  /\ {c.id : c \in ToSet(b.catalogs)} \subseteq DOMAIN b.serivceIdName
  /\ \A i \in DOMAIN b.serivceIdName \cup DOMAIN b.serviceIdPlan :
       \E c \in ToSet(b.catalogs) : Entry(i, c)

TablesType ==
  /\ b = [catalogs |-> b.catalogs, serivceIdName |-> b.serivceIdName,
          serviceIdPlan |-> b.serviceIdPlan, serviceTemplates |-> b.serviceTemplates,
          services |-> b.services]
  /\ b.catalogs \in Seq(ToSet(b.catalogs))

\* The assets are those of files, and files are never deleted.
Present ==
  \A asset \in todo : asset.kind = "catalog" => asset.name \in DOMAIN files

Consistent ==
  /\ runs \in Nat /\ Present
  /\ TablesType
  /\ Distinct
  /\ Tables
  /\ \A o \in fetched : o[2] \in o[1].plans

-----------------------------------------------------------------------------
(* Ids. *)

\* The id of an issued catalog, if drawn, names the run it is of and its service,
\* and no two of its plans have one id, unless it is the zero id.
LEMMA IssuedIds ==
  ASSUME NEW r, NEW c \in Issue(r)
  PROVE  /\ c.id \in {Zero, <<r, c.name, <<>>>>}
         /\ \A p, q \in c.plans : p.id = q.id => p = q \/ p.id = Zero
<1>1. PICK v \in Revisions \X Unread :
        \E n \in Names(v[1]) : c = generateTemplate(r, v[1], v[2])[n]
  BY DEF Issue
<1>2. PICK n \in Names(v[1]) : c = generateTemplate(r, v[1], v[2])[n]
  BY <1>1
<1> DEFINE d == Config(v[1], n)
<1>3. c = [id |-> uuid(r, n, <<>>, v[2]), name |-> n, plans |-> Plans(r, d, v[2])]
  BY <1>2 DEF generateTemplate
<1> HIDE DEF d
<1>4. ASSUME NEW p \in Plans(r, d, v[2]), NEW q \in Plans(r, d, v[2]), p.id = q.id, p.id # Zero
      PROVE  p = q
  <2> DEFINE Plan(i, j, k) == [id    |-> uuid(r, d.name, <<i, j, k>>, v[2]),
                               quota |-> <<d.cpu[i], d.memory[j], d.disk[k]>>]
  <2>1. \A x \in Plans(r, d, v[2]) :
          \E i \in DOMAIN d.cpu, j \in DOMAIN d.memory, k \in DOMAIN d.disk : x = Plan(i, j, k)
    BY DEF Plans
  <2>2. PICK i \in DOMAIN d.cpu, j \in DOMAIN d.memory, k \in DOMAIN d.disk : p = Plan(i, j, k)
    BY <2>1
  <2>3. PICK e \in DOMAIN d.cpu, f \in DOMAIN d.memory, g \in DOMAIN d.disk : q = Plan(e, f, g)
    BY <2>1
  <2>4. /\ uuid(r, d.name, <<i, j, k>>, v[2]) = uuid(r, d.name, <<e, f, g>>, v[2])
        /\ uuid(r, d.name, <<i, j, k>>, v[2]) # Zero
    BY <1>4, <2>2, <2>3
  <2>5. <<r, d.name, <<i, j, k>>>> = <<r, d.name, <<e, f, g>>>>
    BY <2>4 DEF uuid
  <2>6. i = e /\ j = f /\ k = g
    BY <2>5
  <2> QED
    BY <2>2, <2>3, <2>6
<1> QED
  BY <1>3, <1>4 DEF uuid

\* A plan's entry in the table of its catalog is a plan with its id.
LEMMA PlanTableEntry ==
  ASSUME NEW c, NEW p \in c.plans
  PROVE  /\ p.id \in DOMAIN PlanTable(c)
         /\ PlanTable(c)[p.id] \in c.plans /\ PlanTable(c)[p.id].id = p.id
<1>1. /\ (CHOOSE q \in c.plans : q.id = p.id) \in c.plans
      /\ (CHOOSE q \in c.plans : q.id = p.id).id = p.id
  OBVIOUS
<1> QED
  BY <1>1 DEF PlanTable

\* Any entry of the table of a catalog is one of its plans.
LEMMA PlanTableRange ==
  ASSUME NEW c, NEW i PROVE Lookup(PlanTable(c), i) \in c.plans \cup {Missing}
<1>1. ASSUME i \in {p.id : p \in c.plans}
      PROVE  (CHOOSE p \in c.plans : p.id = i) \in c.plans
  BY <1>1
<1> QED
  BY <1>1 DEF PlanTable, Lookup

LEMMA Appended ==
  ASSUME NEW s, s \in Seq(ToSet(s)), NEW c
  PROVE  /\ ToSet(Append(s, c)) = ToSet(s) \cup {c}
         /\ Append(s, c) \in Seq(ToSet(Append(s, c)))
<1>1. s \in Seq(ToSet(s) \cup {c})
  OBVIOUS
<1>2. Append(s, c) \in Seq(ToSet(s) \cup {c})
  BY <1>1
<1>3. ToSet(Append(s, c)) = ToSet(s) \cup {c}
  BY <1>1 DEF ToSet
<1> QED
  BY <1>2, <1>3

-----------------------------------------------------------------------------
(* The lookups. *)

\* The catalog of an offer whose service has an id.
Fits(o) ==
  /\ getServiceName(o[1].id) = o[1].name
  /\ getPlan(o[1].id, o[2].id) \in MayGet(o)

LEMMA EntryFits ==
  ASSUME Consistent, NEW o, o[1] \in InPlay, o[2] \in o[1].plans, Entry(o[1].id, o[1])
  PROVE  Fits(o)
<1>1. PICK r \in 1..runs : o[1] \in Issue(r)
  BY DEF Consistent, Distinct
<1>2. \A p \in o[1].plans : p.id = o[2].id => p = o[2] \/ (p.id = Zero /\ o[2].id = Zero)
  BY <1>1, IssuedIds
<1>3. /\ o[2].id \in DOMAIN PlanTable(o[1])
      /\ PlanTable(o[1])[o[2].id] \in o[1].plans
      /\ PlanTable(o[1])[o[2].id].id = o[2].id
  BY PlanTableEntry
<1>4. PlanTable(o[1])[o[2].id] \in MayGet(o)
  BY <1>2, <1>3 DEF MayGet
<1> QED
  BY <1>3, <1>4 DEF Fits, Entry, getServiceName, getPlan, Lookup

\* A drawn id that has an entry has that of its own catalog.
LEMMA DrawnEntry ==
  ASSUME Consistent, NEW c \in InPlay, c.id # Zero,
         c.id \in DOMAIN b.serivceIdName \cup DOMAIN b.serviceIdPlan
  PROVE  Entry(c.id, c)
<1>1. PICK d \in ToSet(b.catalogs) : Entry(c.id, d)
  BY DEF Consistent, Tables
<1>2. d = c
  BY <1>1 DEF Consistent, Distinct, InPlay, Entry
<1> QED
  BY <1>1, <1>2

LEMMA ConsistentFinds == Consistent => PlansFound
<1> SUFFICES ASSUME Consistent, NEW o \in Offered
             PROVE  /\ \E c \in ToSet(b.catalogs) :
                         /\ getServiceName(o[1].id) = c.name
                         /\ getPlan(o[1].id, o[2].id) \in c.plans \cup {Missing}
                    /\ o[1].id # Zero => Fits(o)
  BY DEF PlansFound, Fits
<1>1. o[1] \in ToSet(b.catalogs) /\ o[2] \in o[1].plans /\ o[1] \in InPlay
  BY DEF Offered, InPlay
<1>2. o[1].id \in DOMAIN b.serivceIdName
  BY <1>1 DEF Consistent, Tables
<1>3. PICK c \in ToSet(b.catalogs) : Entry(o[1].id, c)
  BY <1>2 DEF Consistent, Tables
<1>4. /\ getServiceName(o[1].id) = c.name
      /\ getPlan(o[1].id, o[2].id) \in c.plans \cup {Missing}
  BY <1>3, PlanTableRange DEF Entry, getServiceName, getPlan, Lookup
<1>5. o[1].id # Zero => Fits(o)
  BY <1>1, <1>2, DrawnEntry, EntryFits
<1> QED
  BY <1>4, <1>5

LEMMA ConsistentServes == Consistent => StaleNeverMisserved
<1> SUFFICES ASSUME Consistent, NEW o \in fetched, o[1].id # Zero
             PROVE  /\ getServiceName(o[1].id) \in {o[1].name, Missing}
                    /\ getPlan(o[1].id, o[2].id) \in MayGet(o) \cup {Missing}
  BY DEF StaleNeverMisserved
<1>1. o[1] \in InPlay /\ o[2] \in o[1].plans
  BY DEF InPlay, Consistent
<1>2. CASE o[1].id \in DOMAIN b.serivceIdName \cup DOMAIN b.serviceIdPlan
  BY <1>1, <1>2, DrawnEntry, EntryFits DEF Fits
<1>3. CASE o[1].id \notin DOMAIN b.serivceIdName \cup DOMAIN b.serviceIdPlan
  BY <1>3 DEF getServiceName, getPlan, Lookup
<1> QED
  BY <1>2, <1>3

-----------------------------------------------------------------------------
(* The steps.  Every step of Next and of PNext is one of these, for any n.   *)

CatalogStep ==
  \/ Generate \/ Start \/ Exit \/ GetCatalog
  \/ \E n : WriteFile(n) \/ WriteFails(n) \/ LoadCatalog(n) \/ LoadTemplate(n)
  \/ UNCHANGED vars

\* A step that brings no catalog into play leaves Distinct as it is.
LEMMA NothingNew ==
  ASSUME Consistent, runs' = runs, InPlay' \subseteq InPlay
  PROVE  Distinct'
BY DEF Consistent, Distinct

\* The catalogs of a run have ids of their own: those in play are of earlier
\* runs, and two of the run have different names.
LEMMA GenerateKeeps == Consistent /\ Generate => Consistent'
<1> SUFFICES ASSUME Consistent, Generate PROVE Consistent'
  OBVIOUS
<1>1. PICK v \in Revisions \X Unread : pending' = generateTemplate(runs + 1, v[1], v[2])
  <2>1. PICK configs \in Revisions :
          \E unread \in Unread : pending' = generateTemplate(runs + 1, configs, unread)
    BY DEF Generate
  <2>2. PICK unread \in Unread : pending' = generateTemplate(runs + 1, configs, unread)
    BY <2>1
  <2>3. <<configs, unread>> \in Revisions \X Unread
    OBVIOUS
  <2> QED
    BY <2>2, <2>3
<1>2. ASSUME NEW c \in Held(pending)'
      PROVE  /\ c \in Issue(runs + 1)
             /\ c.name \in Names(v[1]) /\ c = pending'[c.name]
  <2>1. PICK n \in Names(v[1]) : c = generateTemplate(runs + 1, v[1], v[2])[n]
    BY <1>1 DEF Held, generateTemplate
  <2>2. c \in Issue(runs + 1)
    BY <2>1 DEF Issue
  <2>3. c.name = n
    BY <2>1 DEF generateTemplate
  <2> QED
    BY <1>1, <2>1, <2>2, <2>3
<1>3. InPlay' \subseteq InPlay \cup Held(pending)'
  BY DEF Generate, InPlay
<1>4. ASSUME NEW c \in InPlay
      PROVE  \E r \in 1..runs : c \in Issue(r)
  BY DEF Consistent, Distinct
<1>5. runs \in Nat /\ runs' = runs + 1
  BY DEF Consistent, Generate
<1>6. ASSUME NEW c \in InPlay' PROVE \E r \in 1..runs' : c \in Issue(r)
  BY <1>2, <1>3, <1>4, <1>5
<1>7. ASSUME NEW c \in InPlay, NEW d \in Held(pending)', c.id # Zero, d.id # Zero
      PROVE  c.id # d.id
  <2>1. PICK r \in 1..runs : c \in Issue(r)
    BY <1>4
  <2>2. c.id = <<r, c.name, <<>>>> /\ d.id = <<runs + 1, d.name, <<>>>>
    BY <1>2, <1>7, <2>1, IssuedIds
  <2>3. r # runs + 1
    BY <1>5
  <2> QED
    BY <2>2, <2>3
<1>8. ASSUME NEW c \in Held(pending)', NEW d \in Held(pending)',
             c.id = d.id, c.id # Zero
      PROVE  c = d
  <2>1. c.id = <<runs + 1, c.name, <<>>>> /\ d.id = <<runs + 1, d.name, <<>>>>
    BY <1>2, <1>8, IssuedIds
  <2>2. c.id[2] = c.name /\ d.id[2] = d.name
    BY <2>1
  <2> QED
    BY <1>2, <1>8, <2>2
<1>9. Distinct'
  BY <1>3, <1>6, <1>7, <1>8 DEF Consistent, Distinct
<1> QED
  BY <1>5, <1>9 DEF Consistent, Generate, TablesType, Tables, Entry, Present

\* The generator leaves the tables and the platform alone, and a file that is
\* written was to be written.
LEMMA WriteKeeps ==
  ASSUME NEW n
  PROVE  Consistent /\ (WriteFile(n) \/ WriteFails(n)) => Consistent'
<1> SUFFICES ASSUME Consistent, WriteFile(n) \/ WriteFails(n) PROVE Consistent'
  OBVIOUS
<1>1. UNCHANGED <<runs, b, fetched>>
  BY DEF WriteFile, WriteFails
<1>2. Held(files)' \cup Held(pending)' \subseteq Held(files) \cup Held(pending)
  BY DEF WriteFile, WriteFails, Held, Put, Empty
<1>3. Distinct'
  BY <1>1, <1>2, NothingNew DEF InPlay
<1>4. Present'
  BY DEF Consistent, Present, WriteFile, WriteFails, Put
<1> QED
  BY <1>1, <1>3, <1>4 DEF Consistent, TablesType, Tables, Entry

\* Without tables nothing is looked up.
LEMMA EmptyTables ==
  ASSUME Consistent, b' = NoTables, todo' \subseteq Assets, UNCHANGED <<generated, fetched>>
  PROVE  Consistent'
<1>1. b'.catalogs = <<>> /\ ToSet(b'.catalogs) = {}
  BY DEF NoTables, ToSet
<1>2. Distinct'
  BY <1>1, NothingNew DEF InPlay, generated
<1>3. TablesType' /\ Tables'
  BY <1>1 DEF NoTables, TablesType, Tables, Empty
<1>4. Present'
  BY DEF Present, Assets, generated
<1> QED
  BY <1>2, <1>3, <1>4 DEF Consistent, generated

\* A catalog that is loaded may overwrite the entries of another one, but then
\* in both tables.
LEMMA LoadCatalogKeeps == ASSUME NEW n PROVE Consistent /\ LoadCatalog(n) => Consistent'
<1> SUFFICES ASSUME Consistent, LoadCatalog(n), NEW c, c = files[n] PROVE Consistent'
  OBVIOUS
<1>1. /\ b'.catalogs      = Append(b.catalogs, c)
      /\ b'.serivceIdName = Put(b.serivceIdName, c.id, c.name)
      /\ b'.serviceIdPlan = Put(b.serviceIdPlan, c.id, PlanTable(c))
      /\ b' = [catalogs |-> b'.catalogs, serivceIdName |-> b'.serivceIdName,
               serviceIdPlan |-> b'.serviceIdPlan,
               serviceTemplates |-> b'.serviceTemplates, services |-> b'.services]
  BY DEF LoadCatalog, Consistent, TablesType
<1>2. c \in InPlay
  <2>1. n \in DOMAIN files /\ c # Missing
    BY DEF LoadCatalog, Consistent, Present
  <2> QED
    BY <2>1 DEF InPlay, Held
<1>3. /\ ToSet(b'.catalogs) = ToSet(b.catalogs) \cup {c}
      /\ b'.catalogs \in Seq(ToSet(b'.catalogs))
  BY <1>1, Appended DEF Consistent, TablesType
<1>4. UNCHANGED <<generated, fetched>>
  BY DEF LoadCatalog
<1>5. Distinct'
  BY <1>2, <1>3, <1>4, NothingNew DEF InPlay, generated
<1>6. ASSUME NEW i \in DOMAIN b'.serivceIdName \cup DOMAIN b'.serviceIdPlan
      PROVE  \E d \in ToSet(b'.catalogs) : Entry(i, d)'
  <2>1. CASE i = c.id
    BY <1>1, <1>3, <2>1 DEF Entry, Put
  <2>2. CASE i # c.id
    <3>1. PICK d \in ToSet(b.catalogs) : Entry(i, d)
      BY <1>1, <1>6, <2>2 DEF Consistent, Tables, Put
    <3> QED
      BY <1>1, <1>3, <2>2, <3>1 DEF Entry, Put
  <2> QED
    BY <2>1, <2>2
<1>7. Tables'
  BY <1>1, <1>3, <1>6 DEF Consistent, Tables, Put
<1> QED
  BY <1>1, <1>3, <1>4, <1>5, <1>7 DEF Consistent, TablesType, generated, Present, LoadCatalog

\* A template changes neither of the tables the lookups of a plan use.
LEMMA LoadTemplateKeeps == ASSUME NEW n PROVE Consistent /\ LoadTemplate(n) => Consistent'
<1> SUFFICES ASSUME Consistent, LoadTemplate(n) PROVE Consistent'
  OBVIOUS
<1>1. /\ b'.catalogs      = b.catalogs
      /\ b'.serivceIdName = b.serivceIdName
      /\ b'.serviceIdPlan = b.serviceIdPlan
      /\ b' = [catalogs |-> b'.catalogs, serivceIdName |-> b'.serivceIdName,
               serviceIdPlan |-> b'.serviceIdPlan,
               serviceTemplates |-> b'.serviceTemplates, services |-> b'.services]
  BY DEF LoadTemplate, Consistent, TablesType
<1>2. UNCHANGED <<generated, fetched>>
  BY DEF LoadTemplate
<1>3. Distinct'
  BY <1>1, <1>2, NothingNew DEF InPlay, generated
<1> QED
  BY <1>1, <1>2, <1>3 DEF Consistent, TablesType, Tables, Entry, generated, Present, LoadTemplate

\* The platform gets what is loaded.
LEMMA GetCatalogKeeps == Consistent /\ GetCatalog => Consistent'
<1> SUFFICES ASSUME Consistent, GetCatalog PROVE Consistent'
  OBVIOUS
<1>1. \A o \in Offered : o[1] \in ToSet(b.catalogs) /\ o[2] \in o[1].plans
  BY DEF Offered
<1>2. fetched' = fetched \cup Offered /\ UNCHANGED <<generated, b>>
  BY DEF GetCatalog
<1>3. Distinct'
  BY <1>1, <1>2, NothingNew DEF InPlay, generated
<1> QED
  BY <1>1, <1>2, <1>3 DEF Consistent, TablesType, Tables, Entry, generated, Present, GetCatalog

LEMMA StepKeeps == Consistent /\ CatalogStep => Consistent'
<1> SUFFICES ASSUME Consistent, CatalogStep PROVE Consistent'
  OBVIOUS
<1>1. CASE Generate
  BY <1>1, GenerateKeeps
<1>2. CASE Start
  BY <1>2, EmptyTables DEF Start, InitServices
<1>3. CASE Exit
  BY <1>3, EmptyTables DEF Exit
<1>4. CASE GetCatalog
  BY <1>4, GetCatalogKeeps
<1>5. CASE \E n : WriteFile(n) \/ WriteFails(n) \/ LoadCatalog(n) \/ LoadTemplate(n)
  BY <1>5, WriteKeeps, LoadCatalogKeeps, LoadTemplateKeeps
<1>6. CASE UNCHANGED vars
  BY <1>6 DEF vars, Consistent, TablesType, Distinct, InPlay, Tables, Entry, Present
<1> QED
  BY <1>1, <1>2, <1>3, <1>4, <1>5, <1>6 DEF CatalogStep

LEMMA InitConsistent == Init => Consistent
<1> SUFFICES ASSUME Init PROVE Consistent
  OBVIOUS
<1>1. b.catalogs = <<>> /\ ToSet(b.catalogs) = {}
  BY DEF Init, NoTables, ToSet
<1>2. InPlay = {}
  BY <1>1 DEF Init, InPlay, Held, Empty
<1>3. TablesType /\ Tables
  BY <1>1 DEF Init, NoTables, TablesType, Tables, Empty
<1> QED
  BY <1>2, <1>3 DEF Init, Consistent, Distinct, Present

\* Every step of the process is one of the catalog's, or leaves it alone.
LEMMA ProcessStep == [PNext]_pvars => CatalogStep
<1> SUFFICES ASSUME PNext PROVE CatalogStep
  BY DEF CatalogStep, pvars
<1>1. ASSUME NEW code, Die(code) PROVE CatalogStep
  BY <1>1 DEF Die, CatalogStep
<1>2. CASE Generator
  BY <1>2 DEF Generator, CatalogStep
<1>3. CASE Main
  <2>1. CASE Load
    BY <2>1 DEF Load, CatalogStep
  <2>2. CASE Configure
    BY <2>2 DEF Configure, CatalogStep
  <2>3. CASE Leave
    BY <1>1, <2>3 DEF Leave
  <2>4. CASE CatalogLoaded \/ NewDao \/ NewKubeCli \/ Authenticate
    BY <2>4 DEF CatalogLoaded, NewDao, NewKubeCli, Authenticate, GetKubernetesClient,
                Attempt, Return, CatalogStep
  <2>5. CASE Misuse \/ CatalogFails \/ Listen \/ ListenFails \/ Serve \/ Closed \/ CancelOnReturn
    BY <2>5 DEF Misuse, CatalogFails, Listen, ListenFails, Serve, Closed, CancelOnReturn,
                Return, CatalogStep
  <2> QED
    BY <1>3, <2>1, <2>2, <2>3, <2>4, <2>5 DEF Main
<1>4. CASE Watch \/ Kill
  BY <1>1, <1>4 DEF Watch, Kill, Notify, Park, Cancel, ExitZero, CatalogStep
<1>5. CASE Launch \/ Shutdown \/ Request \/ Respond \/ Interrupt
  BY <1>5 DEF Launch, Shutdown, Request, Respond, Interrupt, CatalogStep
<1> QED
  BY <1>2, <1>3, <1>4, <1>5 DEF PNext

-----------------------------------------------------------------------------
(* Theorems *)

\* The invariant holds of the catalog by itself, and of the process around it.
THEOREM IdsStayApart == Spec \/ ProcessSpec => []Consistent
<1>1. [Next]_vars => CatalogStep
  BY DEF Next, CatalogStep
<1>2. PInit => Init
  BY DEF PInit
<1> QED
  BY <1>1, <1>2, InitConsistent, ProcessStep, StepKeeps, PTL DEF Spec, ProcessSpec

\* Whatever the configurations, the draws that fail, the order of loading, the
\* runs of the generator that failed midway and the point a signal or an error
\* ends the process at, Provision finds the service and the plan of each offer
\* that has drawn ids, and for the others a plan of the service it finds, if any.
THEOREM OfferedPlansAreFound == Spec \/ ProcessSpec => []PlansFound
BY IdsStayApart, ConsistentFinds, PTL

\* A plan read from the catalog of any earlier start, of a service with a drawn
\* id, is refused or is the plan it was, however often ids were drawn again or
\* came out as zero, and the files mixed, since.
THEOREM OldIdsAreNeverOthers == Spec \/ ProcessSpec => []StaleNeverMisserved
BY IdsStayApart, ConsistentServes, PTL
=============================================================================

---------------------------- MODULE ProcessProofs ---------------------------
(***************************************************************************)
(* Proofs about Process, for every set of configurations: the tables are   *)
(* complete when the first request comes and stay as they are until the    *)
(* last one is answered or cut off, without a lock.                        *)
(***************************************************************************)
EXTENDS Process, TLAPS

\* Where main is once NewBusinessLogic has the assets.
AfterCatalog == {"mysql", "cluster", "authn", "listen", "accept", "serving"}

Loaded ==
  /\ inFlight \in Nat
  /\ up => todo = {}
  /\ main \in {"down", "flags"} => ~up /\ todo = {}
  /\ main = "catalog" => (todo = {} => up)
  /\ main \in AfterCatalog => up
  /\ main \in {"down", "flags", "catalog"} => inFlight = 0
  /\ inFlight > 0 => up

-----------------------------------------------------------------------------
(* The steps.  A step of main that is not of the catalog's, ... *)

LEMMA Moves ==
  ASSUME Loaded, main' \in AfterCatalog \cup {"returned"}, main \notin {"down"},
         main' \in AfterCatalog => up, UNCHANGED <<vars, inFlight>>
  PROVE  Loaded'
BY DEF Loaded, AfterCatalog, vars

\* ... the end of the process, ...
LEMMA Ends == ASSUME Loaded, NEW code, Die(code) PROVE Loaded' /\ inFlight' = 0
BY DEF Loaded, Die, Exit, vars, AfterCatalog

\* ... one that leaves main where it is, and the catalog, ...
LEMMA Stays ==
  ASSUME Loaded, UNCHANGED <<todo, up, main>>, inFlight' \in Nat,
         inFlight' > inFlight => main = "serving"
  PROVE  Loaded'
BY DEF Loaded, AfterCatalog

LEMMA MainKeeps == Loaded /\ Main => Loaded'
<1> SUFFICES ASSUME Loaded, Main PROVE Loaded'
  OBVIOUS
<1>1. CASE Configure
  BY <1>1 DEF Configure, Start, MainAt, Loaded, AfterCatalog
<1>2. CASE Load
  BY <1>2 DEF Load, LoadCatalog, LoadTemplate, goroutines, Loaded, AfterCatalog
<1>3. CASE Misuse
  BY <1>3, Moves DEF Misuse, Return, AfterCatalog
<1>4. CASE CatalogFails
  BY <1>4, Moves DEF CatalogFails, Return, AfterCatalog
<1>5. CASE CatalogLoaded
  BY <1>5, Moves DEF CatalogLoaded, MainAt, AfterCatalog, Loaded
<1>6. CASE NewDao \/ NewKubeCli \/ Authenticate
  BY <1>6, Moves DEF NewDao, NewKubeCli, Authenticate, GetKubernetesClient, Attempt, MainAt,
                     Return, AfterCatalog, Loaded
<1>7. CASE Listen \/ ListenFails \/ Serve \/ Closed
  BY <1>7, Moves DEF Listen, ListenFails, Serve, Closed, MainAt, Return, AfterCatalog, Loaded
<1>8. CASE CancelOnReturn
  BY <1>8, Stays DEF CancelOnReturn, vars, Loaded
<1>9. CASE Leave
  BY <1>9, Ends DEF Leave
<1> QED
  BY <1>1, <1>2, <1>3, <1>4, <1>5, <1>6, <1>7, <1>8, <1>9 DEF Main

LEMMA LoadedNext == Loaded /\ [PNext]_pvars => Loaded'
<1> SUFFICES ASSUME Loaded, [PNext]_pvars PROVE Loaded'
  OBVIOUS
<1>1. CASE Main
  BY <1>1, MainKeeps
<1>2. CASE Generator
  <2>1. UNCHANGED <<todo, up, main, inFlight>>
    BY <1>2 DEF Generator, Generate, WriteFile, WriteFails, goroutines
  <2> QED
    BY <2>1, Stays DEF Loaded
<1>3. CASE Launch
  BY <1>3 DEF Launch, Up, vars, Loaded, AfterCatalog
<1>4. CASE ExitZero \/ Kill
  BY <1>4, Ends DEF ExitZero, Kill
<1>5. CASE Notify \/ Park \/ Cancel \/ Shutdown \/ Interrupt
  BY <1>5, Stays DEF Notify, Park, Cancel, WatcherAt, Shutdown, Interrupt, vars, Loaded
<1>6. CASE Request
  BY <1>6, Stays DEF Request, vars, Loaded
<1>7. CASE Respond
  <2>1. UNCHANGED <<todo, up, main>> /\ inFlight > 0 /\ inFlight' = inFlight - 1
    BY <1>7 DEF Respond, GetCatalog, vars
  <2> QED
    BY <2>1, Stays DEF Loaded
<1>8. CASE UNCHANGED pvars
  BY <1>8, Stays DEF pvars, vars, goroutines, Loaded
<1> QED
  BY <1>1, <1>2, <1>3, <1>4, <1>5, <1>6, <1>7, <1>8 DEF PNext, Watch

LEMMA ProcessLoaded == ProcessSpec => []Loaded
<1>1. PInit => Loaded
  BY DEF PInit, Init, Loaded, AfterCatalog
<1> QED
  BY <1>1, LoadedNext, PTL DEF ProcessSpec

-----------------------------------------------------------------------------
(* Theorems *)

\* Whatever fails on the way up and whenever a signal comes, no request meets
\* a table that is not complete.
THEOREM NoRequestBeforeTables == ProcessSpec => []ServesLoaded
<1>1. Loaded => ServesLoaded
  BY DEF Loaded, ServesLoaded
<1> QED
  BY <1>1, ProcessLoaded, PTL

\* While a request is being handled the tables stay as they are.
TablesFrozen == [][inFlight > 0 /\ inFlight' > 0 => UNCHANGED b]_pvars

\* The tables of BusinessLogic are only read from the first request on, until
\* none is left or the process ends: the handlers need no lock for them.
THEOREM TablesAreReadOnly == ProcessSpec => TablesFrozen
<1>1. ASSUME Loaded, [PNext]_pvars, inFlight > 0, inFlight' > 0 PROVE UNCHANGED b
  <2>1. main \notin {"down", "flags", "catalog"}
    BY <1>1 DEF Loaded
  <2>2. ASSUME NEW code PROVE ~Die(code)
    BY <1>1, Ends
  <2>3. CASE Main
    BY <2>1, <2>2, <2>3 DEF Main, Misuse, Configure, Load, CatalogFails, CatalogLoaded, NewDao,
       NewKubeCli, Authenticate, GetKubernetesClient, Attempt, Listen, ListenFails, Serve,
       Closed, CancelOnReturn, Leave, MainAt, Return, vars
  <2>4. CASE Generator \/ Launch
    BY <2>1, <2>4 DEF Generator, Launch, Up
  <2>5. CASE Watch \/ Kill
    BY <2>2, <2>5 DEF Watch, Kill, Notify, Park, Cancel, ExitZero, vars
  <2>6. CASE Shutdown \/ Request \/ Respond \/ Interrupt \/ UNCHANGED pvars
    BY <2>6 DEF Shutdown, Request, Respond, GetCatalog, Interrupt, pvars, vars
  <2> QED
    BY <1>1, <2>3, <2>4, <2>5, <2>6 DEF PNext
<1> QED
  BY <1>1, ProcessLoaded, PTL DEF ProcessSpec, TablesFrozen
=============================================================================

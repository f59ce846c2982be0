------------------------------ MODULE Process -------------------------------
(***************************************************************************)
(* The broker as an operating-system process around Catalog                *)
(* (cmd/servicebroker/main.go): the main goroutine brings the parts up one *)
(* after the other and serves, cancelOnInterrupt watches for signals, the  *)
(* server's own goroutine shuts it down when the context is cancelled, and *)
(* requests are handled meanwhile.  The first that calls os.Exit, or main  *)
(* when it returns, ends them all.                                         *)
(***************************************************************************)
EXTENDS Catalog

CONSTANTS
  StartFails,  \* flags may be wrong, MySQL, the cluster or the port unusable
  MaxInFlight  \* bound on the requests being handled

VARIABLES
  main,       \* where the main goroutine is, "down" without a process
  err,        \* what runWithContext returned
  watcher,    \* where cancelOnInterrupt is
  cancelled,  \* ctx is done
  server,     \* the goroutine of (*Server).run
  inFlight,   \* requests being handled
  asked,      \* the process has been sent SIGINT or SIGTERM
  status      \* how the last process ended

goroutines == <<main, err, watcher, cancelled, server, inFlight, asked>>
pvars == <<vars, goroutines, status>>

ASSUME BoundAssumption == StartFails \in BOOLEAN /\ MaxInFlight \in Nat

Up == main # "down"

-----------------------------------------------------------------------------
(* Beginning and end *)

\* `go cancelOnInterrupt` has only made the goroutine.
Launch ==
  /\ ~Up /\ pending = Empty
  /\ main' = "flags"
  /\ UNCHANGED <<vars, err, watcher, cancelled, server, inFlight, asked, status>>

Die(code) ==
  /\ Up /\ status' = code
  /\ main' = "down" /\ err' = "none" /\ watcher' = "started" /\ cancelled' = FALSE
  /\ server' = "none" /\ inFlight' = 0 /\ asked' = FALSE
  /\ IF up \/ todo # {} THEN Exit ELSE UNCHANGED vars

Generator ==
  /\ ~Up
  /\ Generate \/ \E n \in DOMAIN pending : WriteFile(n) \/ WriteFails(n)
  /\ UNCHANGED <<goroutines, status>>

-----------------------------------------------------------------------------
(* The main goroutine *)

MainAt(label) == /\ main' = label
                 /\ UNCHANGED <<err, watcher, cancelled, server, inFlight, asked, status>>

Return(e) ==
  /\ main' = "returned" /\ err' = e
  /\ UNCHANGED <<vars, watcher, cancelled, server, inFlight, asked, status>>

\* "version", half of --tlsCert and --tlsKey, or no certificate: a message and nil.
Misuse == StartFails /\ main \in {"flags", "listen"} /\ Return("none")

\* InitServices and InitServiceCatalog.
Configure == main = "flags" /\ Start /\ MainAt("catalog")

Load ==
  /\ main = "catalog"
  /\ \E asset \in todo : LoadCatalog(asset.name) \/ LoadTemplate(asset.name)
  /\ UNCHANGED <<goroutines, status>>

Truncated == \E n \in DOMAIN files :
  [kind |-> "catalog", name |-> n] \in todo /\ files[n] = Missing

CatalogFails == main = "catalog" /\ Truncated /\ Return("error")

\* Variant with a fault: NewBusinessLogic leaves the loading to a goroutine.
CatalogUnawaited == main = "catalog" /\ MainAt("mysql") /\ UNCHANGED vars

CatalogLoaded ==
  main = "catalog" /\ todo = {} /\ MainAt("mysql") /\ UNCHANGED vars

\* The next part comes up, or its error ends runWithContext.
Attempt(next) == \/ MainAt(next) /\ UNCHANGED vars
                 \/ StartFails /\ Return("error")

\* Without a timeout in the DSN or in ctx, Ping may as well never return.
NewDao == main = "mysql" /\ Attempt("cluster")

\* The clients are made without a call to the API server.
GetKubernetesClient(next) == Attempt(next)

NewKubeCli == main = "cluster" /\ GetKubernetesClient("authn")

\* --authenticate-k8s-token; without it, this phase does not fail.
Authenticate == main = "authn" /\ GetKubernetesClient("listen")

\* (*Server).run makes the goroutine that waits for ctx before it listens.
\* RunTLS looks at its certificate before that.
Listen ==
  /\ main = "listen"
  /\ main' = "accept" /\ server' = "waiting"
  /\ UNCHANGED <<vars, err, watcher, cancelled, inFlight, asked, status>>

ListenFails == StartFails /\ main \in {"listen", "accept"} /\ Return("error")

Serve == main = "accept" /\ server = "waiting" /\ MainAt("serving") /\ UNCHANGED vars

\* ListenAndServe returns ErrServerClosed as soon as Shutdown has begun, and
\* does not wait for it.
Closed == main \in {"accept", "serving"} /\ server = "shut" /\ Return("closed")

\* The deferred cancelFunc of run.
CancelOnReturn ==
  /\ main = "returned" /\ ~cancelled
  /\ cancelled' = TRUE
  /\ UNCHANGED <<vars, main, err, watcher, server, inFlight, asked, status>>

\* Fatalln exits with 255; the end of main with 0.
Leave ==
  /\ main = "returned" /\ cancelled
  /\ Die(IF err = "none" THEN "0" ELSE "255")

Main ==
  \/ Misuse  \/ Configure   \/ Load   \/ CatalogFails \/ CatalogLoaded
  \/ NewDao  \/ NewKubeCli  \/ Authenticate
  \/ Listen  \/ ListenFails \/ Serve  \/ Closed
  \/ CancelOnReturn \/ Leave

-----------------------------------------------------------------------------
(* The other goroutines *)

WatcherAt(label) == /\ watcher' = label
                    /\ UNCHANGED <<main, err, server, inFlight, asked, status>>

Notify == Up /\ watcher = "started"  /\ WatcherAt("notified") /\ UNCHANGED <<vars, cancelled>>
Park   == Up /\ watcher = "notified" /\ WatcherAt("parked")   /\ UNCHANGED <<vars, cancelled>>

\* Variant with a fault: f() and return, as most programs do.
CancelAndReturn ==
  /\ watcher = "signalled" /\ ~cancelled
  /\ cancelled' = TRUE /\ WatcherAt("returned") /\ UNCHANGED vars

Cancel ==
  /\ watcher = "signalled" /\ ~cancelled
  /\ cancelled' = TRUE /\ WatcherAt("signalled") /\ UNCHANGED vars

\* After the signal, or because ctx is done.
ExitZero == watcher \in {"signalled", "parked"} /\ cancelled /\ Die("0")

Watch == Notify \/ Park \/ Cancel \/ ExitZero

\* Shutdown closes the listener first; it then waits three seconds for
\* the requests, which no goroutine that ends the process waits for.
Shutdown ==
  /\ server = "waiting" /\ cancelled
  /\ server' = "shut"
  /\ UNCHANGED <<vars, main, err, watcher, cancelled, inFlight, asked, status>>

Request ==
  /\ main = "serving" /\ server = "waiting" /\ inFlight < MaxInFlight
  /\ inFlight' = inFlight + 1
  /\ UNCHANGED <<vars, main, err, watcher, cancelled, server, asked, status>>

\* A request ends; if it was for the catalog, the platform has it now.
Respond ==
  /\ inFlight > 0
  /\ inFlight' = inFlight - 1
  /\ GetCatalog \/ UNCHANGED vars
  /\ UNCHANGED <<main, err, watcher, cancelled, server, asked, status>>

\* os/signal sends without waiting: `term` has no buffer, and a signal that
\* finds nobody in the select is dropped.
Interrupt ==
  /\ Up /\ watcher # "started"
  /\ asked' = TRUE
  /\ watcher' = IF watcher = "parked" /\ ~cancelled THEN "signalled" ELSE watcher
  /\ UNCHANGED <<vars, main, err, cancelled, server, inFlight, status>>

\* Before Notify a signal has its default effect.
Kill == watcher = "started" /\ Die("killed")

PInit ==
  /\ Init
  /\ main = "down" /\ err = "none" /\ watcher = "started" /\ cancelled = FALSE
  /\ server = "none" /\ inFlight = 0 /\ asked = FALSE /\ status = "none"

PNext ==
  \/ Generator \/ Launch \/ Main \/ Watch \/ Shutdown
  \/ Request   \/ Respond \/ Interrupt \/ Kill

ProcessSpec == PInit /\ [][PNext]_pvars

\* The watcher is scheduled, and whoever asked the process to end asks again
\* as long as it runs.  Nothing is assumed of main: Ping may hang.
Fairness == WF_pvars(Watch) /\ WF_pvars(asked /\ Interrupt)

FairProcessSpec == ProcessSpec /\ Fairness

-----------------------------------------------------------------------------
(* Properties *)

\* A process that is asked to end does, wherever its main goroutine is (in a
\* Ping that never returns, too, which does not look at ctx), and though the
\* first signals may have been dropped.
SignalStops == asked ~> ~Up

\* A request is handled only once every asset is loaded, and until the process
\* ends: handlers read the maps of BusinessLogic without taking its lock, and
\* one that is written meanwhile, or not there yet, is theirs to meet.
ServesLoaded == inFlight > 0 => up /\ todo = {}

\* A process that ends with status 0 has answered every request it took.
GracefulExit ==
  [][Up /\ ~Up' /\ status' = "0" => inFlight = 0]_pvars
=============================================================================

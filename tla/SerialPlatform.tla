--------------------------- MODULE SerialPlatform ---------------------------
(***************************************************************************)
(* The broker under a platform that keeps one request per instance in      *)
(* flight: it waits for the reply, or for the connection to break with the *)
(* process, before it sends the next request about the same id.            *)
(***************************************************************************)
EXTENDS Broker

SerialArrive(w, r) ==
  /\ \A x \in Workers : pc[x] # "idle" => req[x].id # r.id
  /\ Arrive(w, r)

SerialNext ==
  \/ \E w \in Workers, r \in Requests : SerialArrive(w, r)
  \/ \E w \in Workers : Handle(w)
  \/ Crash

SerialSpec == Init /\ [][SerialNext]_vars

-----------------------------------------------------------------------------
(* What the properties below assume of the platform and its users: ids     *)
(* that the collation tells apart, and a name of its own for every id.     *)

DistinctKeys  == \A i, j \in Ids : KeyOf[i] = KeyOf[j] => i = j

Deploying     ==
  {r \in Requests : r.op \in {"provision", "update"} /\ r.name \in Names}
DistinctNames == \A r, s \in Deploying : r.name = s.name => r.id = s.id

-----------------------------------------------------------------------------
(* Properties *)

\* What a Deprovision deletes is what the row says it has to: the copy that it
\* read before its first delete is still the row when it issues the last one,
\* and when it deletes the row, whatever the handlers of other instances write
\* meanwhile.
DeletesWhatIsRecorded ==
  \A w \in Workers : pc[w] \in {"delete", "delete_row"} => RowOf(w) = seen[w]

\* When Deprovision answers 200 the instance is neither recorded nor deployed.
Released ==
  \A w \in Workers :
    pc[w] = "done" /\ req[w].op = "deprovision" /\ reply[w] = "200" =>
      /\ RowOf(w) = NoRow
      /\ \A i \in Slots : ~Live(<<seen[w].yaml.name, i>>)

Intact(k) == rows[k] # NoRow /\ \A i \in Deployed : Live(<<rows[k].yaml.name, i>>)

\* A recorded instance loses objects only to a Deprovision of that instance.
IntactUntilDeprovisioned ==
  [][\A k \in Keys :
       Intact(k) /\ ~Intact(k)' =>
         \E w \in Workers : pc[w] \in {"delete", "delete_row"} /\ KeyOf[req[w].id] = k]_vars

-----------------------------------------------------------------------------
(* The refinement: what a name is to somebody who sees rows and objects.   *)

RecordedAs(n) == {k \in Keys : rows[k] # NoRow /\ rows[k].yaml.name = n}
LiveSlots(n)  == {i \in Slots : Live(<<n, i>>)}

\* w made every object there is of n.
Building(w, n) == Provisioning(w, n) /\ LiveSlots(n) \cap Ahead(w) = {}

leaseOf(n) ==
  IF RecordedAs(n) # {}
  THEN IF \E k \in RecordedAs(n) : Intact(k) THEN "in_use" ELSE "draining"
  ELSE IF LiveSlots(n) = {} THEN "free"
  ELSE IF \E w \in Workers : Building(w, n) THEN "building" ELSE "leaked"

L == INSTANCE Lease WITH lease <- [n \in Names |-> leaseOf(n)]

\* With one request per instance in flight and a name of its own for each, the
\* broker implements Lease.
ImplementsLease == L!Spec

\* Once every goroutine is at rest, no name holds objects that no row names.
SettledClean ==
  (\A w \in Workers : pc[w] = "idle") => \A n \in Names : leaseOf(n) # "leaked"
=============================================================================

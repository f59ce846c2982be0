------------------------------- MODULE Lease --------------------------------
(***************************************************************************)
(* What the broker makes of a name (a namespace and an INSTANCE_NAME) in   *)
(* the cluster, seen from outside: it is free, being built, in use by a    *)
(* recorded instance, being torn down, or leaked, and leaked is final.     *)
(***************************************************************************)
CONSTANT Names
VARIABLE lease

States == {"free", "building", "in_use", "draining", "leaked"}

Init == lease = [n \in Names |-> "free"]

Move(n, from, to) == lease[n] = from /\ lease' = [lease EXCEPT ![n] = to]

\* The first object of a Provision is created, ...
Build(n)   == Move(n, "free", "building")
\* ... and once all are there the instance is recorded;
Deliver(n) == Move(n, "building", "in_use")
\* a Provision that fails, or is refused its row, abandons what it made,
Abandon(n) == Move(n, "building", "leaked")
\* and an Update of an unrecorded instance deploys without recording.
Stray(n)   == Move(n, "free", "leaked")
\* A Deprovision deletes the first object of a recorded instance, ...
Drain(n)   == Move(n, "in_use", "draining")
\* ... and once none is left the record of it.
Release(n) == Move(n, "draining", "free")

\* The process exits: all that was being built is abandoned.
Exit == lease' = [n \in Names |-> IF lease[n] = "building" THEN "leaked" ELSE lease[n]]

Next ==
  \/ \E n \in Names : \/ Build(n) \/ Deliver(n) \/ Abandon(n)
                      \/ Stray(n) \/ Drain(n)   \/ Release(n)
  \/ Exit

Spec == Init /\ [][Next]_lease
=============================================================================

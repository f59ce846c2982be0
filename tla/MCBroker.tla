------------------------------ MODULE MCBroker ------------------------------
(***************************************************************************)
(* Constants for the model checking of Broker and SerialPlatform.          *)
(***************************************************************************)
EXTENDS SerialPlatform, TLC

CONSTANTS w1, w2, a, b, n1, n2, ns1, p

OwnKey == [i \in Ids |-> i]

OneNamespace == [n \in Names |-> ns1]

\* The shape of template/apply/zookeeper.yaml: workloads come before Services.
Workload == <<"Deployment", "Service">>
\* With a kind no filter of Provision lets through.
Exposed  == <<"Deployment", "Service", "Ingress">>

Ask(op, id, name, plan) == [op |-> op, id |-> id, name |-> name, plan |-> plan]

\* All a platform sends about `id` when it deploys it under `name`.
Life(id, name) == {Ask("provision", id, name, p), Ask("update", id, name, p),
                   Ask("deprovision", id, NoName, NoPlan),
                   Ask("last_operation", id, NoName, NoPlan)}
Malformed(id)  == {Ask("provision", id, NoName, p), Ask("update", id, NoName, NoPlan),
                   Ask("update", id, n1, UnknownPlan)}

OwnNames    == Life(a, n1) \cup Life(b, n2) \cup Malformed(a)
\* b is asked for under a's name, and a under another one as well.
SharedNames == Life(a, n1) \cup Life(b, n1) \cup Malformed(a)
               \cup {Ask("provision", a, n2, p), Ask("update", a, n2, p),
                     Ask("bind", a, NoName, p), Ask("unbind", a, NoName, UnknownPlan)}
OneInstance == Life(a, n1)
\* Requests about another instance compete with a's for connections.
Contended   == OneInstance \cup {Ask("update", b, NoName, p),
                                 Ask("last_operation", b, NoName, NoPlan)}
NoUpdates   == {r \in OneInstance : r.op # "update"}
Symmetry    == Permutations(Workers)
=============================================================================

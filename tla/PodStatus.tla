----------------------------- MODULE PodStatus ------------------------------
(***************************************************************************)
(* What LastOperation reports of an instance that has a row: CheckInstance *)
(* (pkg/kubernetes/instance.go) lists the pods that carry the instance's   *)
(* label and counts container statuses, and LastOperation                  *)
(* (pkg/broker/logic.go) turns its flags and the plugin's into a state.    *)
(* The containers change state between the List and the answer, and        *)
(* between polls.                                                          *)
(***************************************************************************)
EXTENDS Naturals, FiniteSets

CONSTANTS
  Containers,  \* containers of the instance's pods
  Plugin       \* results LastStateCheck of the service's plugin may return

VARIABLES
  status,  \* container -> its status in the API server
  listed,  \* the statuses of the List being evaluated, or None
  state    \* what the last completed poll reported, or "none"

vars == <<status, listed, state>>

\* "absent": the pod is not listed or has no status for the container yet.
\* "creating" and "waiting" are the Waiting state with the reason
\* ContainerCreating and with any other; "running" is Running and not Ready,
\* "ended" is Terminated: in both, State.Waiting is a nil pointer.
Statuses == {"absent", "creating", "waiting", "running", "ended", "ready"}
None     == [c \in {} |-> "absent"]

\* The third result of LastStateCheck is "failed", the first "processing".
PluginResult == {"processing", "failed", "success", "error"}
ASSUME PluginAssumption == Plugin \subseteq PluginResult /\ Plugin # {}

ASSUME ContainersAssumption == IsFiniteSet(Containers)

\* The kubelet, as far as Ready and State tell.
NextStatus == [absent   |-> {"creating"},          creating |-> {"running", "waiting"},
               waiting  |-> {"creating", "running"}, running  |-> {"ready", "ended"},
               ended    |-> {"waiting", "running"},  ready    |-> {"running", "ended"}]

Kubelet(c) ==
  /\ \E s \in NextStatus[status[c]] : status' = [status EXCEPT ![c] = s]
  /\ UNCHANGED <<listed, state>>

\* A pod is evicted or replaced: its successor starts from nothing.
Evict(c) ==
  /\ status' = [status EXCEPT ![c] = "absent"]
  /\ UNCHANGED <<listed, state>>

Count(l, S) == Cardinality({c \in DOMAIN l : l[c] \in S})
Sum(l)      == Count(l, Statuses \ {"absent"})

\* State.Waiting.Reason of a container that is neither ready nor waiting.
Panics(l) == Count(l, {"running", "ended"}) # 0

\* Variant with a fault: the first two results the other way round.
CheckSwapped(l) ==
  [podCreating |-> Count(l, {"waiting"}) = 0 /\ Count(l, {"ready"}) # Sum(l),
   podFailed   |-> Count(l, {"waiting"}) # 0]

\* Variant with a fault: fails only with all of its containers.
CheckAllFailed(l) ==
  [podCreating |-> Count(l, {"waiting"}) = 0 /\ Count(l, {"ready"}) = Sum(l),
   podFailed   |-> Count(l, {"waiting"}) # 0 /\ Count(l, {"waiting"}) = Sum(l)]

\* The results of CheckInstance, under the names LastOperation gives them.
CheckInstance(l) ==
  [podCreating |-> Count(l, {"waiting"}) = 0 /\ Count(l, {"ready"}) = Sum(l),
   podFailed   |-> Count(l, {"waiting"}) # 0]

List ==
  /\ listed = None
  /\ listed' = status
  /\ UNCHANGED <<status, state>>

ListFails == listed = None /\ state' = "500" /\ UNCHANGED <<status, listed>>

Answer(s) ==
  /\ listed # None
  /\ state' = s /\ listed' = None /\ UNCHANGED status

Crashed    == Panics(listed) /\ Answer("panic")
Failed     == ~Panics(listed) /\ CheckInstance(listed).podFailed /\ Answer("failed")
Processing ==
  /\ ~Panics(listed) /\ ~CheckInstance(listed).podFailed
  /\ CheckInstance(listed).podCreating
  /\ Answer("processing")
AskPlugin  ==
  /\ ~Panics(listed) /\ ~CheckInstance(listed).podFailed
  /\ ~CheckInstance(listed).podCreating
  /\ \E r \in Plugin :
       Answer(CASE r = "error"   -> "500"
                [] r = "success" -> "succeed"
                [] OTHER         -> r)

Init ==
  /\ status = [c \in Containers |-> "absent"]
  /\ listed = None
  /\ state  = "none"

\* LastOperation, once it has found the row.
Poll == List \/ ListFails \/ Crashed \/ Failed \/ Processing \/ AskPlugin

Next == Poll \/ \E c \in Containers : Kubelet(c) \/ Evict(c)

Spec == Init /\ [][Next]_vars

\* The platform polls again and again, the API server does not fail forever,
\* and a handler that has its List returns.
Fairness ==
  /\ SF_vars(List)
  /\ WF_vars(Crashed \/ Failed \/ Processing \/ AskPlugin)

FairSpec == Spec /\ Fairness

-----------------------------------------------------------------------------
(* Properties *)

\* A poll completes with this state.
Reports(s) == listed # None /\ listed' = None /\ state' = s

\* LastOperation reports success only on a List that shows some container:
\* right after Provision there is none, and "none that is not ready" must not
\* be taken for "all ready".
NoSuccessWithoutPods == [][Reports("succeed") => Sum(listed) # 0]_vars

\* A container that is stuck (it waits for an image, or backs off, for good) is
\* reported, again and again, whatever state the other containers are in and
\* whatever the plugin says; unless one of them is in a state that makes the
\* handler panic, which hides the stuck one.
StuckIsReported ==
  \A c \in Containers :
    <>[](status[c] = "waiting" /\ ~Panics(status)) => []<>(state = "failed")

\* LastOperation reports success only on a List whose containers are all ready.
SuccessMeansReady ==
  [][Reports("succeed") => Count(listed, {"ready"}) = Sum(listed)]_vars
=============================================================================

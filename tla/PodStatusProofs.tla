--------------------------- MODULE PodStatusProofs --------------------------
(***************************************************************************)
(* Proofs about PodStatus, for every set of containers: what the counts of *)
(* CheckInstance say of the List they are taken of, and on which Lists     *)
(* LastOperation reports success.                                          *)
(***************************************************************************)
EXTENDS PodStatus, TLAPS, FiniteSetTheorems

Lists == [Containers -> Statuses]

TypeOK == status \in Lists /\ listed \in Lists \cup {None}

-----------------------------------------------------------------------------
(* The counts. *)

\* A count of zero is one of nothing.
LEMMA CountZero ==
  ASSUME NEW l \in Lists \cup {None}, NEW S
  PROVE  Count(l, S) = 0 <=> \A c \in DOMAIN l : l[c] \notin S
<1> DEFINE T == {c \in DOMAIN l : l[c] \in S}
<1>1. IsFiniteSet(DOMAIN l)
  BY ContainersAssumption, FS_EmptySet DEF Lists, None
<1>2. IsFiniteSet(T)
  BY <1>1, FS_Subset
<1>3. Cardinality(T) = 0 <=> T = {}
  BY <1>2, FS_EmptySet
<1> QED
  BY <1>3 DEF Count

\* Of two sets of statuses, one in the other, the same number of containers are
\* in both only if they are the same containers.
LEMMA CountSame ==
  ASSUME NEW l \in Lists \cup {None}, NEW S, NEW R \in SUBSET S
  PROVE  Count(l, R) = Count(l, S) <=> \A c \in DOMAIN l : l[c] \in S => l[c] \in R
<1> DEFINE T == {c \in DOMAIN l : l[c] \in S}
           U == {c \in DOMAIN l : l[c] \in R}
<1>1. IsFiniteSet(DOMAIN l)
  BY ContainersAssumption, FS_EmptySet DEF Lists, None
<1>2. IsFiniteSet(T) /\ U \in SUBSET T
  BY <1>1, FS_Subset
<1>3. Cardinality(U) = Cardinality(T) <=> U = T
  BY <1>2, FS_Subset
<1>4. U = T <=> \A c \in DOMAIN l : l[c] \in S => l[c] \in R
  OBVIOUS
<1> QED
  BY <1>3, <1>4 DEF Count

\* When the plugin is asked, some container is being created: it is neither
\* ready nor waiting for another reason, and in any other state the handler
\* panics.
LEMMA PluginAsked ==
  ASSUME NEW l \in Lists \cup {None}, ~Panics(l),
         ~CheckInstance(l).podFailed, ~CheckInstance(l).podCreating
  PROVE  \E c \in DOMAIN l : l[c] = "creating"
<1>1. \A c \in DOMAIN l : l[c] \notin {"running", "ended"} /\ l[c] \notin {"waiting"}
  BY CountZero DEF Panics, CheckInstance
<1>2. Count(l, {"ready"}) # Sum(l)
  BY DEF CheckInstance
<1>3. {"ready"} \in SUBSET (Statuses \ {"absent"})
  BY DEF Statuses
<1>4. PICK c \in DOMAIN l : l[c] \in Statuses \ {"absent"} /\ l[c] \notin {"ready"}
  BY <1>2, <1>3, CountSame DEF Sum
<1> QED
  BY <1>1, <1>4 DEF Statuses

-----------------------------------------------------------------------------
(* Theorems *)

LEMMA KubeletType ==
  ASSUME NEW s \in Statuses
  PROVE  NextStatus[s] \subseteq Statuses
BY DEF NextStatus, Statuses

\* Whatever the kubelet and evictions do between two polls, the List being
\* evaluated has one status for each container.
THEOREM PodTypes == Spec => []TypeOK
<1>1. Init => TypeOK
  BY DEF Init, TypeOK, Lists, Statuses
<1>2. TypeOK /\ [Next]_vars => TypeOK'
  <2> SUFFICES ASSUME TypeOK, [Next]_vars PROVE TypeOK'
    OBVIOUS
  <2>1. ASSUME NEW c \in Containers, Kubelet(c) PROVE TypeOK'
    <3>1. PICK s \in NextStatus[status[c]] : status' = [status EXCEPT ![c] = s]
      BY <2>1 DEF Kubelet
    <3>2. s \in Statuses
      BY <3>1, KubeletType DEF TypeOK, Lists
    <3> QED
      BY <2>1, <3>1, <3>2 DEF Kubelet, TypeOK, Lists
  <2>2. ASSUME NEW c \in Containers, Evict(c) PROVE TypeOK'
    BY <2>2 DEF Evict, TypeOK, Lists, Statuses
  <2>3. CASE List \/ ListFails
    BY <2>3 DEF List, ListFails, TypeOK
  <2>4. CASE Crashed \/ Failed \/ Processing \/ AskPlugin
    BY <2>4 DEF Crashed, Failed, Processing, AskPlugin, Answer, TypeOK
  <2>5. CASE UNCHANGED vars
    BY <2>5 DEF vars, TypeOK
  <2> QED
    BY <2>1, <2>2, <2>3, <2>4, <2>5 DEF Next, Poll
<1> QED
  BY <1>1, <1>2, PTL DEF Spec

\* A List that LastOperation reports success on shows a container that is being
\* created: the results of CheckInstance are told apart by the containers that
\* are not ready, and only these get as far as the plugin.
SuccessMeansCreating ==
  [][Reports("succeed") => \E c \in DOMAIN listed : listed[c] = "creating"]_vars

LEMMA SuccessStep ==
  ASSUME TypeOK, [Next]_vars, Reports("succeed")
  PROVE  \E c \in DOMAIN listed : listed[c] = "creating"
<1>1. Crashed \/ Failed \/ Processing \/ AskPlugin
  BY DEF Next, Poll, List, ListFails, Kubelet, Evict, Reports, vars
<1>2. AskPlugin
  BY <1>1 DEF Crashed, Failed, Processing, Answer, Reports
<1> QED
  BY <1>2, PluginAsked DEF AskPlugin, TypeOK

\* LastOperation reports success only while some container is being created.
THEOREM SuccessOnlyWhileCreating == Spec => SuccessMeansCreating
BY PodTypes, SuccessStep, PTL DEF Spec, SuccessMeansCreating

\* It never takes a List without a container for one that is ready.
THEOREM SuccessShowsPods == Spec => NoSuccessWithoutPods
<1>1. ASSUME TypeOK, [Next]_vars PROVE Reports("succeed") => Sum(listed) # 0
  <2> SUFFICES ASSUME Reports("succeed") PROVE Sum(listed) # 0
    OBVIOUS
  <2>1. PICK c \in DOMAIN listed : listed[c] = "creating"
    BY <1>1, SuccessStep
  <2> QED
    BY <1>1, <2>1, CountZero DEF Sum, TypeOK, Statuses
<1> QED
  BY <1>1, PodTypes, PTL DEF Spec, NoSuccessWithoutPods
=============================================================================

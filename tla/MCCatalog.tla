----------------------------- MODULE MCCatalog ------------------------------
(***************************************************************************)
(* Constants for the model checking of Catalog.                            *)
(***************************************************************************)
EXTENDS Catalog

Service(name, cpu, memory) ==
  [name |-> name, cpu |-> cpu, memory |-> memory, disk |-> <<"1">>]

\* Two files give one name.
ThreeFiles == <<Service("redis", <<"1">>, <<"512">>),
                Service("zookeeper", <<"0.5">>, <<"1024">>),
                Service("zookeeper", <<"0.5", "1">>, <<"1024">>)>>
OneFile    == <<Service("zookeeper", <<"0.5">>, <<"2048">>)>>

\* redis is dropped, and zookeeper's memory doubled, or the other way round.
Edited  == {ThreeFiles, OneFile}
AsBuilt == {OneFile}

\* /dev/urandom is there all the time, or not for the services' ids, or not for
\* those of plans.
Services == {"redis", "zookeeper"}
Outages  == {{}, Services \X {<<>>}, Services \X {<<1, 1, 1>>, <<2, 1, 1>>}}
Random   == {{}}

ZookeeperFields == {"InstanceId", "Namespace", "InstanceName", "ZOO_TICK_TIME",
                    "Zookeeper01", "PLAN_LIMIT_CPU", "PLAN_STORAGE_SIZE"}

OneTemplate  == [n \in {"zookeeper"} |-> ZookeeperFields]
TwoTemplates == [n \in {"zookeeper", "redis"} |-> ZookeeperFields]
=============================================================================

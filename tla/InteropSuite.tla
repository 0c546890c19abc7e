---------------------------- MODULE InteropSuite ----------------------------
(***************************************************************************)
(* runMode: the program each mode of the suite runs on every process, the  *)
(* servers its driver starts, whether they form a cluster, and whether the *)
(* Go peer was given a signal file, next to which it marks a failure.      *)
(***************************************************************************)
EXTENDS InteropStreamScripts

Single  == {1}
Listed  == 1..(Cycles + 1)
Cluster == 1..3

Setting(servers, cluster, signal, g, o, w) ==
  [servers |-> servers, cluster |-> cluster, signal |-> signal,
   program |-> [go |-> g, ocaml |-> o, watcher |-> w]]

Ordered(kind)  == Setting(Cluster, TRUE, TRUE,
                    GoOrderedReconnect(kind), OcamlOrderedReconnect(kind), WatchCluster(kind))
KeyValue(kind) == Setting(Cluster, TRUE, TRUE,
                    GoKeyValueReconnect(kind), OcamlKeyValueReconnect(kind), WatchCluster(kind))
Object(kind)   == Setting(Cluster, TRUE, TRUE,
                    GoObjectReconnect(kind), OcamlObjectReconnect(kind), WatchCluster(kind))

\* the modes without a failover of a stream
PlainModes == [
  core                 |-> Setting(Single, FALSE, FALSE, GoCore, OcamlCore, <<>>),
  service              |-> Setting(Single, FALSE, FALSE, GoService, OcamlService, <<>>),
  service_failure      |-> Setting(Single, FALSE, FALSE, GoServiceFailure, OcamlServiceFailure, <<>>),
  service_parent_close |-> Setting(Single, FALSE, FALSE,
                             GoServiceParentClose, OcamlServiceParentClose, <<>>),
  reconnect            |-> Setting(Listed, FALSE, TRUE, GoReconnect, OcamlReconnect, WatchReconnect),
  service_reconnect    |-> Setting(Listed, FALSE, TRUE,
                             GoServiceReconnect, OcamlServiceReconnect, WatchReconnect),
  push                 |-> Setting(Single, FALSE, FALSE, GoPush, OcamlPush, <<>>),
  ordered              |-> Setting(Single, FALSE, FALSE, GoOrdered, OcamlOrdered, <<>>)]

FailoverModes == [
  push_reconnect     |-> Setting(Single, FALSE, TRUE, GoPushReconnect, OcamlPushReconnect, WatchPush),
  ordered_reconnect  |-> Ordered("reconnect"),
  ordered_restart    |-> Ordered("restart"),
  ordered_multi      |-> Ordered("multi"),
  ordered_management |-> Ordered("management"),
  ordered_changed    |-> Ordered("changed"),
  ordered_leader     |-> Ordered("leader"),
  kv_reconnect       |-> KeyValue("reconnect"),
  kv_restart         |-> KeyValue("restart"),
  kv_multi           |-> KeyValue("multi"),
  kv_leader          |-> KeyValue("leader"),
  object_reconnect   |-> Object("reconnect"),
  object_restart     |-> Object("restart"),
  object_multi       |-> Object("multi"),
  object_leader      |-> Object("leader")]

AllModes == PlainModes @@ FailoverModes
=============================================================================

------------------------------ MODULE MCWorkers -----------------------------
(* The background workers: the lease that chooses the node, the directory    *)
(* synchronisation that one or, after a lost lease, two of them run, the     *)
(* weather refresh across a failover, the events of telephony and alarm      *)
(* providers that a worker and requests drain, and the health page and       *)
(* health table they are watched by. They share no state, so they are        *)
(* explored one at a time: "part" names the one that moves. Those that are   *)
(* instances take turns with v1 to v13. The audit seal, a job of theirs too, *)
(* is explored with the services.                                            *)
EXTENDS SingletonLease, TLC

CONSTANTS Runners, Staff

VARIABLES part, v1, v2, v3, v4, v5, v6, v7, v8, v9, v10, v11, v12, v13

Directory == INSTANCE DirectorySync WITH
  Uids <- Staff, Runs <- Runners, MaxDeactivations <- 1,
  dir <- v1, account <- v2, live <- v3, sync <- v4, state <- v5, quiet <- v6

Documents == {[ref |-> "r1", form |-> "Alert", areas |-> {"in", "out"}],
              [ref |-> "r1", form |-> "Cancel", areas |-> {"in"}],
              [ref |-> "r2", form |-> "malformed", areas |-> {}]}
Warnings == INSTANCE Weather WITH
  Node <- {1, 2}, Cells <- {"in"}, Stations <- {}, Kinds <- <<"warnings">>,
  StaleAfter <- 1, MaxClock <- 5, MaxReading <- 1, MaxEvents <- 1,
  feed <- v1, station <- v2, clock <- v3, leader <- v4, poll <- v5, alert <- v6,
  measured <- v7, cache <- v8, attempts <- v9, turning <- v10, made <- v11, good <- v12
Readings == INSTANCE Weather WITH
  Node <- {1}, Documents <- {}, Cells <- {}, Stations <- {"s1", "s2"},
  Kinds <- <<"observations", "radar">>,
  StaleAfter <- 1, MaxClock <- 3, MaxReading <- 1, MaxEvents <- 0,
  feed <- v1, station <- v2, clock <- v3, leader <- v4, poll <- v5, alert <- v6,
  measured <- v7, cache <- v8, attempts <- v9, turning <- v10, made <- v11, good <- v12

Health == INSTANCE HealthProbes WITH
  Member <- {"a", "b"}, Self <- "a", Dcs <- 2, Integration <- {"t"}, Refresher <- Runners,
  MaxErrors <- 2,
  etcd <- v1, holder <- v2, role <- v3, answers <- v4, probe <- v5, status <- v6,
  verdict <- v7, steady <- v8, sick <- v9, health <- v10, refresh <- v11, inRow <- v12,
  tangled <- v13

(* Two requests beside the worker; and one, with a line and alarms.          *)
CallEvents == INSTANCE ProviderEvents WITH
  Calls <- {"c", "door"}, Doors <- {"door"}, Lines <- {}, Requests <- Runners, Worker <- "w",
  MaxEvents <- 3, Limit <- 2, Alarms <- {},
  mock <- v1, live <- v2, emitted <- v3, buffer <- v4, hold <- v5, inbox <- v6, row <- v7,
  lost <- v8, crossed <- v9, alarm <- v10
AlarmEvents == INSTANCE ProviderEvents WITH
  Calls <- {}, Doors <- {}, Lines <- {"l"}, Requests <- {"h"}, Worker <- "w",
  MaxEvents <- 3, Limit <- 2,
  Alarms <- {[id |-> 1, fields |-> "panic"], [id |-> 0, fields |-> "panic"],
             [id |-> 0, fields |-> "smoke"]},
  mock <- v1, live <- v2, emitted <- v3, buffer <- v4, hold <- v5, inbox <- v6, row <- v7,
  lost <- v8, crossed <- v9, alarm <- v10

(* The cluster, for the part in which only the health table moves.           *)
Quiet ==
  /\ v1 = [i \in 1..2 |-> "led"] /\ v2 = "a" /\ v3 = [m \in {"a", "b"} |-> "gone"]
  /\ v4 = [patroni |-> TRUE, db |-> TRUE, caughtUp |-> TRUE]

slots == <<v1, v2, v3, v4, v5, v6, v7, v8, v9, v10, v11, v12, v13>>
allVars == <<part, vars, slots>>

Interchangeable == Permutations(Runners) \cup Permutations(Staff)

rest8 == <<v8, v9, v10, v11, v12, v13>>
Idle8 == v8 = 0 /\ v9 = 0 /\ v10 = 0 /\ v11 = 0 /\ v12 = 0 /\ v13 = 0
Idle7 == v7 = 0 /\ Idle8
Idle11 == v11 = 0 /\ v12 = 0 /\ v13 = 0

MCInit ==
  /\ Init
  /\ \/ part = "lease" /\ v1 = 0 /\ v2 = 0 /\ v3 = 0 /\ v4 = 0 /\ v5 = 0 /\ v6 = 0 /\ Idle7
     \/ part = "directory" /\ Directory!DirInit /\ Idle7
     \/ part = "warnings" /\ Warnings!WeatherInit /\ v13 = 0
     \/ part = "readings" /\ Readings!WeatherInit /\ v13 = 0
     \/ part = "calls" /\ CallEvents!ProviderInit /\ Idle11
     \/ part = "alarms" /\ AlarmEvents!ProviderInit /\ Idle11
     \/ part = "cluster" /\ Health!ClusterInit /\ Health!ProbesInit
     \/ part = "health" /\ Quiet /\ Health!ClusterInit /\ Health!ProbesInit

DirectoryPart == part = "directory" /\ Directory!DirNext /\ UNCHANGED <<v7, rest8>>
WeatherPart ==
  /\ \/ part = "warnings" /\ Warnings!WeatherNext
     \/ part = "readings" /\ Readings!WeatherNext
  /\ UNCHANGED v13
ProviderPart ==
  /\ \/ part = "calls" /\ CallEvents!ProviderNext
     \/ part = "alarms" /\ AlarmEvents!ProviderNext
  /\ UNCHANGED <<v11, v12, v13>>
ClusterPart == part = "cluster" /\ Health!ClusterNext
HealthPart == part = "health" /\ Health!ProbesNext
OtherParts ==
  DirectoryPart \/ WeatherPart \/ ProviderPart \/ ClusterPart \/ HealthPart
OthersRest == part # "lease" /\ UNCHANGED slots

MCNext ==
  /\ \/ part = "lease" /\ Next /\ UNCHANGED slots
     \/ (OtherParts \/ OthersRest) /\ UNCHANGED vars
  /\ UNCHANGED part

MCSpec == MCInit /\ [][MCNext]_allVars

(* A deactivated or unlisted directory user has no live account once a run   *)
(* is over, up to the limit of deactivations, whichever runs overlapped.     *)
SyncConverges == part = "directory" => Directory!DirTypeOK /\ Directory!SyncConverges

(* The weather, cluster and health pages tell the truth: failed attempts,    *)
(* malformed documents and failovers leave the last successful fetch, "ok"   *)
(* is said of fresh data and of a member that answered, and consecutive      *)
(* errors are counted as they came (WeatherRefreshService, HealthProbes).    *)
PagesTellTruth ==
  /\ part = "warnings" => Warnings!WeatherTellsTruth
  /\ part = "readings" => Readings!WeatherTellsTruth
  /\ part \in {"cluster", "health"} => Health!StatusIsTrue /\ Health!ErrorsInRow

(* What a telephony or an alarm provider reports is waiting, in hand, stored *)
(* or lost with the one that held it, and once all is still a call's row has *)
(* the state last reported, except where holders overlapped or a type came   *)
(* twice (drain_events, ingest_telephony_event, IncomingAlarmProvider).      *)
EventsAreAccounted ==
  /\ part = "calls" =>
       CallEvents!ProviderTypeOK /\ CallEvents!EventsAreAccounted /\ CallEvents!RowsFollowProvider
  /\ part = "alarms" =>
       AlarmEvents!ProviderTypeOK /\ AlarmEvents!EventsAreAccounted /\ AlarmEvents!RowsFollowProvider
=============================================================================

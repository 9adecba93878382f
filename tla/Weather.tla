------------------------------- MODULE Weather -------------------------------
(***************************************************************************)
(* The weather refresh: the singleton worker polls the provider kind by    *)
(* kind, stores what it got and records the attempt.  Warnings and         *)
(* observations go to tables, radar frames to a cache in the memory of the *)
(* node the worker runs on.  The pages read tables and cache on any node   *)
(* and carry the health computed from the recorded attempts.  An operator  *)
(* may turn a warning into an event while a refresh replaces the warnings. *)
(***************************************************************************)
EXTENDS FiniteSets, Integers, Sequences, FiniteSetsExt

CONSTANTS
  Node,          \* nodes; the refresh worker runs on one of them at a time
  Documents,     \* documents the warning feed may hold: [ref, form, areas]
  Cells,         \* the configured warn cells
  Stations,      \* the stations of the configured places
  Kinds,         \* data kinds the provider is capable of, in the order polled
  StaleAfter,    \* weather_stale_after_seconds
  MaxClock,      \* bound on the clock; every attempt has a time of its own
  MaxReading,    \* bound on the readings and radar frames published
  MaxEvents      \* bound on the events made from warnings

VARIABLES
  feed,      \* documents in the newest archive of the provider (external)
  station,   \* what every station and the radar publish: [up, val] (external)
  clock,
  leader,    \* node that holds the lease of the worker (module SingletonLease)
  poll,      \* the refresh under way
  alert,     \* weather_alerts: id of the row of every warning, 0 without one
  measured,  \* weather_observations: <<station, reading>>
  cache,     \* RADAR_CACHE of every node, -1 when empty
  attempts,  \* weather_refresh_state: a row per kind
  turning,   \* create_from_alert of an operator: the alert read
  made,      \* weather_alert_events: source_ref and alert of every event made
  good       \* auxiliary: per kind, what the last successful attempt fetched and
             \* when, and whether the attempt after it failed

wvars == <<feed, station, clock, leader, poll, alert, measured, cache, attempts,
           turning, made, good>>
outside == <<feed, station, clock, leader>>
tables == <<alert, measured, cache, attempts, made, good>>

Resting == [at |-> "rest"]
NoTurn == [warning |-> "none", id |-> 0]
NoRow == [success |-> -1, attempt |-> -1, error |-> FALSE]
Nothing == [items |-> {}, stamp |-> -1, failed |-> FALSE]
KindSet == {Kinds[i] : i \in 1..Len(Kinds)}
NextId == 1 + Cardinality(made) + clock

-----------------------------------------------------------------------------
(* The adapter.  *)

\* parse_cap_alerts: one alert for every area with a warn cell, none for an
\* all-clear; a malformed document raises.
ParseCapAlerts(d) ==
  IF d.form = "Cancel" THEN {} ELSE {<<d.ref, a>> : a \in d.areas}
\* fetch_alerts: one malformed document fails the whole fetch.
FetchRaises == \E d \in feed : d.form = "malformed"
FetchAlerts == {w \in UNION {ParseCapAlerts(d) : d \in feed} : w[2] \in Cells}

Warning == {w \in UNION {ParseCapAlerts(d) : d \in Documents} : w[2] \in Cells}

\* _fetch_observations: a failing station is skipped, all failing raises.
Up == {s \in Stations : station[s].up}
FetchObservations == {<<s, station[s].val>> : s \in Up}

Raises(kind) ==
  \/ kind = "warnings" /\ FetchRaises
  \/ kind = "observations" /\ Up = {} /\ Stations # {}
  \/ kind = "radar" /\ ~station["radar"].up

\* What get_warnings, get_observations and get_radar_frames return.
Items(kind) ==
  CASE kind = "warnings"     -> FetchAlerts
    [] kind = "observations" -> FetchObservations
    [] kind = "radar"        -> {<<"radar", station["radar"].val>>}

WeatherInit ==
  /\ feed = {} /\ clock = 0
  /\ station = [s \in Stations \cup {"radar"} |-> [up |-> TRUE, val |-> 0]]
  /\ leader \in Node /\ poll = Resting
  /\ alert = [w \in Warning |-> 0] /\ measured = {}
  /\ cache = [n \in Node |-> -1]
  /\ attempts = [k \in KindSet |-> NoRow]
  /\ turning = NoTurn /\ made = {}
  /\ good = [k \in KindSet |-> Nothing]

-----------------------------------------------------------------------------
(* External: the provider, time and the lease. *)

FeedChanges ==
  /\ \/ \E d \in Documents :
          /\ feed' = (IF d \in feed THEN feed \ {d} ELSE feed \cup {d})
          /\ UNCHANGED station
     \/ \E s \in DOMAIN station :
          /\ \/ station' = [station EXCEPT ![s].up = ~@]
             \/ station[s].val < MaxReading /\ station' = [station EXCEPT ![s].val = @ + 1]
          /\ UNCHANGED feed
  /\ UNCHANGED <<clock, leader, poll, tables, turning>>

Tick ==
  /\ clock < MaxClock /\ clock' = clock + 1
  /\ UNCHANGED <<feed, station, leader, poll, tables, turning>>

\* The worker stops on one node and starts on another, or its node restarts: the
\* refresh under way is lost, and the memory of a restarted node with it.
Failover(n, restarts) ==
  /\ leader' = n /\ poll' = Resting
  /\ cache' = IF restarts THEN [cache EXCEPT ![leader] = -1] ELSE cache
  /\ UNCHANGED <<feed, station, clock, alert, measured, attempts, turning, made,
                 good>>

-----------------------------------------------------------------------------
(* refresh *)

\* refresh goes through the kinds; the head of _run stamps the attempt and
\* fetches.  The fetch may fail even if the feed is sound (the network).
Refresh(i, lost) ==
  /\ poll = IF i = 1 THEN Resting ELSE [at |-> "next", kind |-> i]
  /\ clock < MaxClock /\ clock' = clock + 1
  /\ poll' = [at |-> "fetched", kind |-> i, stamp |-> clock + 1,
              failed |-> lost \/ Raises(Kinds[i]),
              items |-> IF lost \/ Raises(Kinds[i]) THEN {} ELSE Items(Kinds[i])]
  /\ UNCHANGED <<feed, station, leader, tables, turning>>

After(i) == IF i = Len(Kinds) THEN Resting ELSE [at |-> "next", kind |-> i + 1]

\* (Warnings the provider dropped stay.)  mutant
StoreWarningsOnly(got) ==
  /\ alert' = [w \in Warning |-> IF w \in got /\ alert[w] = 0 THEN NextId ELSE alert[w]]
  /\ made' = made

\* _store_warnings: rows of warnings still published keep their id, new ones get
\* one, all others are deleted: a full fetch is authoritative.  The links of
\* deleted alerts stay, without the alert (ON DELETE SET NULL).
StoreWarnings(got) ==
  /\ alert' = [w \in Warning |-> CASE w \notin got -> 0
                                   [] w \in got /\ alert[w] # 0 -> alert[w]
                                   [] OTHER -> NextId]
  /\ made' = {[l EXCEPT !.alert = IF l.ref \in got THEN @ ELSE 0] : l \in made}

StoreObservations(got) == measured' = measured \cup got
StoreRadar(got) == cache' = [cache EXCEPT ![leader] = Max({f[2] : f \in got})]

\* _record: last_success_at moves only with a success.
Record(kind, stamp, failed) ==
  attempts' = [attempts EXCEPT ![kind] =
                 [success |-> IF failed THEN @.success ELSE stamp,
                  attempt |-> stamp, error |-> failed]]

\* The tail of _run: store and record commit together.
Run ==
  /\ poll.at = "fetched" /\ ~poll.failed
  /\ LET kind == Kinds[poll.kind] IN
     /\ IF kind = "warnings" THEN StoreWarnings(poll.items)
                             ELSE UNCHANGED <<alert, made>>
     /\ IF kind = "observations" THEN StoreObservations(poll.items)
                                 ELSE UNCHANGED measured
     /\ IF kind = "radar" THEN StoreRadar(poll.items) ELSE UNCHANGED cache
     /\ Record(kind, poll.stamp, FALSE)
     /\ good' = [good EXCEPT ![kind] =
                   [items |-> poll.items, stamp |-> poll.stamp, failed |-> FALSE]]
  /\ poll' = After(poll.kind)
  /\ UNCHANGED <<outside, turning>>

\* The exception handler of _run: the fetch or the transaction failed.  Radar
\* frames put into the cache before the transaction failed stay there.
RunFails ==
  /\ poll.at = "fetched"
  /\ LET kind == Kinds[poll.kind] IN
     /\ Record(kind, poll.stamp, TRUE)
     /\ good' = [good EXCEPT ![kind].failed = TRUE]
     /\ \/ UNCHANGED cache
        \/ kind = "radar" /\ ~poll.failed /\ StoreRadar(poll.items)
  /\ poll' = After(poll.kind)
  /\ UNCHANGED <<outside, alert, measured, made, turning>>

-----------------------------------------------------------------------------
(* An event from a warning.  The command envelope around it is module         *)
(* Commands.                                                                  *)

CreateEventFromAlert(w) ==
  /\ turning = NoTurn /\ alert[w] # 0 /\ Cardinality(made) < MaxEvents
  /\ turning' = [warning |-> w, id |-> alert[w]]
  /\ UNCHANGED <<outside, poll, tables>>

\* create_from_alert writes event and link in a second transaction.  A link to
\* an alert deleted meanwhile violates its foreign key: no event.
CreateFromAlert ==
  /\ turning # NoTurn
  /\ made' = IF alert[turning.warning] = turning.id
             THEN made \cup {[event |-> Cardinality(made), ref |-> turning.warning,
                              alert |-> turning.id]}
             ELSE made
  /\ turning' = NoTurn
  /\ UNCHANGED <<outside, poll, alert, measured, cache, attempts, good>>

-----------------------------------------------------------------------------
(* The pages.  *)

KindHealth(kind) ==
  LET st == attempts[kind] IN
  CASE st.success = -1 -> "down"
    [] st.success # -1 /\ st.error /\ st.attempt > st.success -> "degraded"
    [] st.success # -1 /\ ~(st.error /\ st.attempt > st.success) ->
         IF clock - st.success > StaleAfter THEN "stale" ELSE "ok"

\* health: the worst of the kinds, "down" without one.
Severity == <<"down", "degraded", "stale", "ok">>
Health ==
  LET reported == {i \in 1..4 : \E k \in KindSet : KindHealth(k) = Severity[i]}
  IN  IF reported = {} THEN "down" ELSE Severity[Min(reported)]

ListAlerts == {w \in Warning : alert[w] # 0}
\* latest_observations: the newest reading of every station.
ListObservations ==
  {m \in measured : \A n \in measured : n[1] = m[1] => n[2] <= m[2]}

WeatherNext ==
  \/ FeedChanges \/ Tick
  \/ \E n \in Node, restarts \in BOOLEAN : Failover(n, restarts)
  \/ \E i \in 1..Len(Kinds), lost \in BOOLEAN : Refresh(i, lost)
  \/ Run \/ RunFails
  \/ \E w \in Warning : CreateEventFromAlert(w)
  \/ CreateFromAlert

-----------------------------------------------------------------------------
\* The pages show the last successful fetch, whole: a failed attempt, a malformed
\* document, a failover in the middle of a refresh or an operator's event leave
\* them as they were, and no page goes back to an older reading.  An event made
\* from a warning keeps its source, and refers to the very row it was made from
\* or, once that row is gone, to none.  "ok" is said only of data fetched
\* successfully within the allowed age with no failure since, and overall only
\* if it is said of every kind.
WeatherTellsTruth ==
  /\ "warnings" \in KindSet => ListAlerts = good["warnings"].items
  /\ "observations" \in KindSet => good["observations"].items \subseteq ListObservations
  /\ \A l \in made : l.alert # 0 => alert[l.ref] = l.alert
  /\ \A k \in KindSet : KindHealth(k) = "ok" =>
       /\ good[k].stamp # -1 /\ ~good[k].failed
       /\ clock - good[k].stamp <= StaleAfter
  /\ Health = "ok" => \A k \in KindSet : KindHealth(k) = "ok"
=============================================================================

---------------------------- MODULE SettingsStore ---------------------------
(* The runtime settings (settings_store.py): rows of app_settings override    *)
(* the environment, every node keeps the rows it read for _TTL_SECONDS, and a *)
(* node forgets them when it changes one itself. The other nodes are not      *)
(* told. A read takes the time, awaits the query and stores the rows under    *)
(* the time it took; requests of a node interleave at the awaits.             *)
EXTENDS Integers, FiniteSets, TLC

CONSTANTS
  Nodes,     \* processes of the service
  Requests,  \* requests under way
  Keys,      \* a settings group
  Secret,    \* keys of the group that only the environment may set
  Values,    \* values of the right kind
  Fallback,  \* the value from the environment or the code
  Malformed, \* a value of the wrong kind or out of its range
  Ttl,       \* _TTL_SECONDS, in ticks
  MaxTime    \* bound: ticks

VARIABLES
  table,     \* app_settings: the overrides of the keys that have a row
  cache,     \* cache[n]: _cache and _cache_at
  call,      \* call[r]: the request
  clock,     \* time.monotonic(), the same on all nodes
  was,       \* was[t]: the tables there have been at time t
  served     \* the last answer

setVars == <<table, cache, call, clock, was, served>>

Tables == UNION {[K -> Values] : K \in SUBSET (Keys \ Secret)}
Never == -1
Free == [at |-> "free"]
NoAnswer == [since |-> 0, until |-> 0, rows |-> <<>>]

SettingsTypeOK ==
  /\ table \in Tables
  /\ \A n \in Nodes : cache[n].stamp \in Never..MaxTime /\ cache[n].rows \in Tables
  /\ \A r \in Requests : call[r].at \in {"free", "query", "fill", "apply", "commit", "changed"}

SettingsInit ==
  /\ table = <<>>
  /\ cache = [n \in Nodes |-> [stamp |-> Never, rows |-> <<>>]]
  /\ call = [r \in Requests |-> Free]
  /\ clock = 0
  /\ was = [t \in 0..MaxTime |-> IF t = 0 THEN {<<>>} ELSE {}]
  /\ served = NoAnswer

Goes(r, c) == call' = [call EXCEPT ![r] = c]
Answer(r, since, rows) ==
  /\ served' = [since |-> since, until |-> clock, rows |-> rows]
  /\ Goes(r, Free)

(* _overrides up to its query: fresh rows are returned as they are.          *)
Overrides(r, n) ==
  /\ IF cache[n].stamp # Never /\ clock - cache[n].stamp < Ttl
     THEN Answer(r, clock, cache[n].rows)
     ELSE Goes(r, [at |-> "query", node |-> n, now |-> clock]) /\ UNCHANGED served
  /\ UNCHANGED <<table, cache, clock, was>>

(* GET /admin/settings, /meta and every other reader of an effective value.  *)
GetSettings(r, n) == call[r] = Free /\ Overrides(r, n)

(* The query, answered by the database ...                                   *)
Query(r) ==
  /\ call[r].at = "query"
  /\ Goes(r, [call[r] EXCEPT !.at = "fill"] @@ [rows |-> table])
  /\ UNCHANGED <<table, cache, clock, was, served>>

(* ... and stored, under the time taken before it. An invalidate in between   *)
(* is undone.                                                                *)
Fill(r) ==
  LET c == call[r] IN
  /\ c.at = "fill"
  /\ cache' = [cache EXCEPT ![c.node] = [stamp |-> c.now, rows |-> c.rows]]
  /\ Answer(r, c.now, c.rows)
  /\ UNCHANGED <<table, clock, was>>

(* _coerce                                                                   *)
Coerce(raw) == raw # Malformed
Effective(rows, k) == IF k \in DOMAIN rows THEN rows[k] ELSE Fallback

(* PUT /admin/settings/{group}: a key outside the group, a secret or a value *)
(* that does not fit refuses them all.                                       *)
UpdateSettingsGroup(r, n, body) ==
  /\ call[r] = Free
  /\ \A k \in DOMAIN body : k \in Keys \ Secret /\ Coerce(body[k])
  /\ Goes(r, [at |-> "apply", node |-> n, body |-> body])
  /\ UNCHANGED <<table, cache, clock, was, served>>

(* The rows are read ...                                                     *)
ApplyRead(r) ==
  LET c == call[r]
      changes == {k \in DOMAIN c.body : c.body[k] # Effective(table, k)} IN
  /\ c.at = "apply"
  /\ IF changes = {} THEN Overrides(r, c.node)
     ELSE /\ Goes(r, [at |-> "commit", node |-> c.node, body |-> [k \in changes |-> c.body[k]]])
          /\ UNCHANGED <<table, cache, clock, was, served>>

(* ... and those that differ are upserted.                                   *)
Apply(r) ==
  LET c == call[r]
      new == [k \in DOMAIN table \cup DOMAIN c.body |-> IF k \in DOMAIN c.body THEN c.body[k] ELSE table[k]] IN
  /\ c.at = "commit"
  /\ table' = new
  /\ was' = [was EXCEPT ![clock] = @ \cup {new}]
  /\ Goes(r, [at |-> "changed", node |-> c.node])
  /\ UNCHANGED <<cache, clock, served>>

(* invalidate; the answer of the PUT is a read of its own.                   *)
Invalidate(r) ==
  LET n == call[r].node IN
  /\ call[r].at = "changed"
  /\ cache' = [cache EXCEPT ![n].stamp = Never]
  /\ Goes(r, [at |-> "query", node |-> n, now |-> clock])
  /\ UNCHANGED <<table, clock, was, served>>

Passes ==
  /\ clock < MaxTime
  /\ clock' = clock + 1
  /\ was' = [was EXCEPT ![clock + 1] = {table}]
  /\ UNCHANGED <<table, cache, call, served>>

SettingsNext ==
  \/ \E r \in Requests :
       \/ \E n \in Nodes : GetSettings(r, n)
       \/ \E n \in Nodes, K \in SUBSET Keys \ {{}} : \E body \in [K -> Values \cup {Malformed}] :
            UpdateSettingsGroup(r, n, body)
       \/ Query(r) \/ Fill(r) \/ ApplyRead(r) \/ Apply(r) \/ Invalidate(r)
  \/ Passes

-----------------------------------------------------------------------------
(* The settings a node answers with are, as a whole, those the table held at *)
(* one moment between _TTL_SECONDS before the request began and the answer:  *)
(* a change reaches every node within the lifetime of its cache, and a group *)
(* saved together is seen together, however reads, saves and invalidations   *)
(* of the nodes overlap.                                                     *)
ServedWithinTtl ==
  LET oldest == served.since - Ttl + 1 IN
  served # NoAnswer => \E t \in 0..served.until : t >= oldest /\ served.rows \in was[t]
=============================================================================

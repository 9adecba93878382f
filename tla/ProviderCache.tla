---------------------------- MODULE ProviderCache ---------------------------
(* The telephony provider of a process (integrations_host/providers.py): it  *)
(* is built from the SIP configuration on first use, cached, and dropped by  *)
(* the handlers that change the gateway or a line.                           *)
EXTENDS Naturals

CONSTANTS
  Users,        \* coroutines that ask for the provider
  Admins,       \* requests that change the configuration
  MaxConfig,    \* bound on the changes of the configuration
  MaxProviders  \* bound on the providers ever built

VARIABLES
  config,    \* version of the configuration in the database
  silent,    \* the versions made by handlers that do not evict
  cache,     \* the cached provider, NoProvider if there is none
  provider,  \* provider[p]: its state, the version it was built from and, as
             \* an auxiliary, the version when it was stored
  user,      \* user[u]: where u is in active_telephony_provider
  admin      \* admin[a]: what a request has still to do

cacheVars == <<config, silent, cache, provider, user, admin>>

Providers == 1 .. MaxProviders
NoProvider == 0
Quiescent == [st |-> "idle"]
Unbuilt == [state |-> "unbuilt", version |-> 0, stored |-> 0]

CacheTypeOK ==
  /\ config \in 0 .. MaxConfig /\ silent \subseteq 1 .. MaxConfig
  /\ cache \in Providers \cup {NoProvider}
  /\ provider \in [Providers -> [state : {"unbuilt", "running", "replaced", "down"},
                                 version : 0 .. MaxConfig, stored : 0 .. MaxConfig]]

CacheInit ==
  /\ config = 0 /\ silent = {}
  /\ cache = NoProvider
  /\ provider = [p \in Providers |-> Unbuilt]
  /\ user = [u \in Users |-> Quiescent]
  /\ admin = [a \in Admins |-> Quiescent]

-----------------------------------------------------------------------------
(* active_telephony_provider: nothing is cached, the configuration is read   *)
(* (_telephony_sip_config), and what is built from it is stored, whatever    *)
(* is cached by then: that provider keeps running, and nothing refers to it. *)
Miss(u) ==
  /\ user[u].st = "idle" /\ cache = NoProvider
  /\ user' = [user EXCEPT ![u] = [st |-> "reading"]]
  /\ UNCHANGED <<config, silent, cache, provider, admin>>

TelephonySipConfig(u) ==
  /\ user[u].st = "reading"
  /\ user' = [user EXCEPT ![u] = [st |-> "building", version |-> config]]
  /\ UNCHANGED <<config, silent, cache, provider, admin>>

ActiveTelephonyProvider(u) ==
  /\ user[u].st = "building"
  /\ \E p \in Providers :
       /\ provider[p].state = "unbuilt" /\ \A q \in 1 .. p - 1 : provider[q].state # "unbuilt"
       /\ cache' = p
       /\ provider' = [q \in Providers |->
            IF q = p THEN [state |-> "running", version |-> user[u].version, stored |-> config]
            ELSE IF q = cache THEN [provider[q] EXCEPT !.state = "replaced"]
            ELSE provider[q]]
  /\ user' = [user EXCEPT ![u] = Quiescent]
  /\ UNCHANGED <<config, silent, admin>>

-----------------------------------------------------------------------------
CommitUnevicted(a, then) ==                                       \* mutant
  /\ admin[a].st = "idle" /\ config < MaxConfig
  /\ config' = config + 1
  /\ silent' = IF then = "evict" THEN silent ELSE silent \cup {config + 1}
  /\ UNCHANGED <<cache, provider, user, admin>>

(* A handler commits; the ones of the gateway and of lines then evict, those *)
(* of trunks and numbers, whose lines are merged into it, do not.            *)
Commit(a, then) ==
  /\ admin[a].st = "idle" /\ config < MaxConfig
  /\ config' = config + 1
  /\ silent' = IF then = "evict" THEN silent ELSE silent \cup {config + 1}
  /\ admin' = [admin EXCEPT ![a] = [st |-> then]]
  /\ UNCHANGED <<cache, provider, user>>

PutSipConfig(a) == Commit(a, "evict")
PutSipLine(a) == Commit(a, "evict")
DeleteSipLine(a) == Commit(a, "evict")
PutSipTrunk(a) == Commit(a, "idle")
PutSipNumber(a) == Commit(a, "idle")

EvictTelephonyProvider(a) ==
  /\ admin[a].st = "evict"
  /\ cache' = NoProvider
  /\ admin' = [admin EXCEPT ![a] = IF cache = NoProvider THEN Quiescent
                                   ELSE [st |-> "shutdown", p |-> cache]]
  /\ UNCHANGED <<config, silent, provider, user>>

(* _safe_shutdown, in the background                                         *)
SafeShutdown(a) ==
  /\ admin[a].st = "shutdown"
  /\ provider' = [provider EXCEPT ![admin[a].p].state = "down"]
  /\ admin' = [admin EXCEPT ![a] = Quiescent]
  /\ UNCHANGED <<config, silent, cache, user>>

(* A failing read or build ends the request; nothing is stored.              *)
BuildFails(u) ==
  /\ user[u].st # "idle"
  /\ user' = [user EXCEPT ![u] = Quiescent]
  /\ UNCHANGED <<config, silent, cache, provider, admin>>

CacheNext ==
  \/ \E u \in Users : Miss(u) \/ TelephonySipConfig(u) \/ ActiveTelephonyProvider(u) \/ BuildFails(u)
  \/ \E a \in Admins : \/ PutSipConfig(a) \/ PutSipLine(a) \/ DeleteSipLine(a)
                       \/ PutSipTrunk(a) \/ PutSipNumber(a)
                       \/ EvictTelephonyProvider(a) \/ SafeShutdown(a)

CacheSpec == CacheInit /\ [][CacheNext]_cacheVars

-----------------------------------------------------------------------------
Missing == IF cache = NoProvider THEN {} ELSE provider[cache].version + 1 .. config

(* Once no eviction is due, a change the cached provider does not know was   *)
(* made to a trunk or a number, or committed while the provider was being    *)
(* built; and a provider that runs is the cached one or is being shut down,  *)
(* unless two first uses overlapped and it was replaced.                     *)
StaleOnlyByOverlap ==
  /\ (\A a \in Admins : admin[a].st # "evict") =>
       \A n \in Missing : n \in silent \/ n <= provider[cache].stored
  /\ \A p \in Providers : provider[p].state = "running" =>
       p = cache \/ \E a \in Admins : admin[a].st = "shutdown" /\ admin[a].p = p
=============================================================================

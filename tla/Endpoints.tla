------------------------------ MODULE Endpoints ------------------------------
(***************************************************************************)
(* The administration of technical endpoints: the endpoints with their     *)
(* number patterns, the door action profiles they refer to, the alarm      *)
(* sources (a facade over endpoints and camera mappings) and the queue of  *)
(* signals no rule matched.                                                *)
(*                                                                         *)
(* A handler loads the rows it works on and commits later; the ORM writes  *)
(* only the columns that differ from what was loaded, without a version    *)
(* check (READ COMMITTED), so a commit over a row another request changed  *)
(* in between overwrites those columns.                                    *)
(***************************************************************************)
EXTENDS FiniteSets, Naturals

CONSTANTS
  Endpoint, Source, Profile, Clerk,
  DoorClerks,    \* the clerks who hold door.configure
  Numbered,      \* whether endpoints come with number patterns: {FALSE}, BOOLEAN
  MaxVersion, MaxSeen,
  NoProfile, NoEndpoint

VARIABLES
  endpoint,  \* technical_endpoints: config version, source ids, door profile
  number,    \* the endpoints that have a technical_endpoint_numbers row
  profile,   \* door_action_profiles
  camera,    \* integration_camera_mappings: the source and the endpoint
  signal,    \* the unmapped_signals row of the one source
  desk,      \* the requests under way
  seen,      \* auxiliary: how often the engine recorded the signal
  tangled    \* auxiliary: requests overlapped, or ids were edited directly

evars == <<endpoint, number, profile, camera, signal, desk, seen, tangled>>
rows == <<endpoint, number, profile, camera, signal>>

None == [ver |-> 0]
Free == [op |-> "free"]
Exists(e) == endpoint[e] # None

TechnicalEndpoint ==
  [ver : 1..MaxVersion, src : SUBSET Source, prof : Profile \cup {NoProfile}]
IntegrationCameraMapping == Source \X Endpoint
UnmappedSignal ==
  [count : 0..MaxSeen, resolved : BOOLEAN, to : Endpoint \cup {NoEndpoint}]

EndpointsInit ==
  /\ endpoint = [e \in Endpoint |-> None]
  /\ number = {} /\ profile = {} /\ camera = {}
  /\ signal = [count |-> 0, resolved |-> FALSE, to |-> NoEndpoint]
  /\ desk = [c \in Clerk |-> Free] /\ seen = 0 /\ tangled = FALSE

\* A commit makes what the other requests have loaded an old copy.
Close(c) ==
  desk' = [d \in Clerk |-> IF d = c \/ desk[d] = Free THEN Free
                           ELSE [desk[d] EXCEPT !.old = TRUE]]
Tangle(c) == tangled' = (tangled \/ desk[c].old)
Load(c, op, e, s) ==
  /\ desk[c] = Free
  /\ desk' = [desk EXCEPT ![c] =
       [op |-> op, e |-> e, s |-> s, old |-> FALSE,
        row |-> IF e = NoEndpoint THEN None ELSE endpoint[e]]]
  /\ UNCHANGED <<rows, seen, tangled>>
Serves(c, op) == desk[c].op = op

-----------------------------------------------------------------------------
(* Technical endpoints.  *)

\* Naming a door profile takes door.configure.
GuardDoorConfig(c, p) == p = NoProfile \/ c \in DoorClerks
ValidateDtmfProfile(p) == p \in profile \cup {NoProfile}
ReplaceNumbers(e, n) == number' = IF n THEN number \cup {e} ELSE number \ {e}

\* create: the endpoint, its numbers and the audit row.  (Ids of alarm sources
\* are listed directly through update.)
Create(e, p, n) ==
  /\ ValidateDtmfProfile(p) /\ ~Exists(e)
  /\ endpoint' = [endpoint EXCEPT ![e] = [ver |-> 1, src |-> {}, prof |-> p]]
  /\ ReplaceNumbers(e, n)
  /\ UNCHANGED <<profile, camera, signal, desk, seen, tangled>>

CreateEndpoint(c, e, p, n) == GuardDoorConfig(c, p) /\ Create(e, p, n)

\* The handler of PATCH loads the endpoint ...
UpdateEndpoint(c, e) == Exists(e) /\ Load(c, "update", e, {})

\* ... and update writes what the patch changes, replaces the numbers when they
\* differ, and sets the version to the loaded one plus one.  Without a
\* difference it rolls back (Fail); a row deleted meanwhile makes the UPDATE
\* match nothing (Fail).
Update(c, src, p, n) ==
  LET e == desk[c].e
      was == desk[c].row
  IN
  /\ Serves(c, "update") /\ was.ver < MaxVersion
  /\ p # was.prof => GuardDoorConfig(c, p) /\ ValidateDtmfProfile(p)
  /\ <<src, p, n>> # <<was.src, was.prof, e \in number>>
  /\ endpoint' = [endpoint EXCEPT ![e] =
       [ver  |-> was.ver + 1,
        src  |-> IF src = was.src THEN @.src ELSE src,
        prof |-> IF p = was.prof THEN @.prof ELSE p]]
  /\ ReplaceNumbers(e, n)
  /\ tangled' = (tangled \/ desk[c].old \/ src # was.src)
  /\ Close(c)
  /\ UNCHANGED <<profile, camera, signal, seen>>

\* delete: numbers and camera mappings go with the endpoint, the unmapped
\* signal loses its reference; a request that loaded the row can only fail.
Delete(e) ==
  /\ Exists(e)
  /\ endpoint' = [endpoint EXCEPT ![e] = None]
  /\ number' = number \ {e}
  /\ camera' = {m \in camera : m[2] # e}
  /\ signal' = [signal EXCEPT !.to = IF @ = e THEN NoEndpoint ELSE @]
  /\ desk' = [d \in Clerk |-> IF desk[d] # Free /\ desk[d].e = e
                              THEN [desk[d] EXCEPT !.op = "lost"] ELSE desk[d]]
  /\ UNCHANGED <<profile, seen, tangled>>

\* match_technical_endpoint: an endpoint whose number pattern matches.
MatchTechnicalEndpoint == {e \in number : Exists(e)}

-----------------------------------------------------------------------------
(* Door action profiles.  *)

CreateProfile(p) ==
  /\ p \notin profile /\ profile' = profile \cup {p}
  /\ UNCHANGED <<endpoint, number, camera, signal, desk, seen, tangled>>

\* The reference of an endpoint is set to NULL; its version stays.
DeleteProfile(p) ==
  /\ p \in profile /\ profile' = profile \ {p}
  /\ endpoint' = [e \in Endpoint |->
       IF Exists(e) /\ endpoint[e].prof = p
       THEN [endpoint[e] EXCEPT !.prof = NoProfile] ELSE endpoint[e]]
  /\ UNCHANGED <<number, camera, signal, desk, seen, tangled>>

-----------------------------------------------------------------------------
(* Alarm sources.  *)

\* _endpoint_for: some endpoint that lists the source, or none.
EndpointFor(s) == {e \in Endpoint : Exists(e) /\ s \in endpoint[e].src}

\* (A configure that does not look for the endpoint of the source.)  mutant
ConfigureUnseen(c, s) == Load(c, "configure", NoEndpoint, {s})

\* configure looks the source up ...
ConfigureAlarmSource(c, s) ==
  \E e \in IF EndpointFor(s) = {} THEN {NoEndpoint} ELSE EndpointFor(s) :
    Load(c, "configure", e, {s})

ReplaceCameras(ss, e, cams) ==
  camera' = {m \in camera : m[1] \notin ss} \cup (IF cams THEN ss \X {e} ELSE {})

\* ... creates the endpoint or updates the one it found, whose list of ids it
\* does not write, and replaces the cameras of the source.
Configure(c, cams) ==
  /\ Serves(c, "configure") /\ desk[c].row.ver < MaxVersion
  /\ \E e \in Endpoint :
       /\ IF desk[c].e = NoEndpoint THEN ~Exists(e) ELSE e = desk[c].e
       /\ endpoint' = [endpoint EXCEPT ![e] =
            IF desk[c].e = NoEndpoint
            THEN [ver |-> 1, src |-> desk[c].s, prof |-> NoProfile]
            ELSE [@ EXCEPT !.ver = desk[c].row.ver + 1]]
       /\ ReplaceCameras(desk[c].s, e, cams)
  /\ Tangle(c) /\ Close(c)
  /\ UNCHANGED <<number, profile, signal, seen>>

RemoveAlarmSource(c, s) == \E e \in EndpointFor(s) : Load(c, "remove", e, {s})

\* remove writes the loaded list without the id, and deletes the cameras of the
\* source.
Remove(c) ==
  /\ Serves(c, "remove") /\ desk[c].row.ver < MaxVersion
  /\ endpoint' = [endpoint EXCEPT ![desk[c].e] =
       [@ EXCEPT !.src = desk[c].row.src \ desk[c].s,
                 !.ver = desk[c].row.ver + 1]]
  /\ ReplaceCameras(desk[c].s, desk[c].e, FALSE)
  /\ Tangle(c) /\ Close(c)
  /\ UNCHANGED <<number, profile, signal, seen>>

Cameras(s) == {m \in camera : m[1] = s}
\* list_sources: one view for every id an endpoint lists.
ListSources ==
  {[source |-> v[1], endpoint |-> v[2], cameras |-> Cameras(v[1])] :
     v \in {w \in Source \X Endpoint : w[2] \in EndpointFor(w[1])}}

-----------------------------------------------------------------------------
(* Signals no rule matched.  *)

\* record_unmapped: an upsert that counts, in the engine's transaction.
RecordUnmapped ==
  /\ seen < MaxSeen
  /\ seen' = seen + 1
  /\ signal' = [signal EXCEPT !.count = @ + 1]
  /\ UNCHANGED <<endpoint, number, profile, camera, desk, tangled>>

\* The handler loads the signal and looks the endpoint up ...
ResolveUnmapped(c, e) ==
  /\ signal.count > 0 /\ e \in {NoEndpoint} \cup {x \in Endpoint : Exists(x)}
  /\ desk[c] = Free
  /\ desk' = [desk EXCEPT ![c] =
       [op |-> "resolve", e |-> e, old |-> FALSE, row |-> signal]]
  /\ UNCHANGED <<rows, seen, tangled>>

\* ... and resolve writes only the columns of the resolution.
Resolve(c) ==
  /\ Serves(c, "resolve")
  /\ signal' = [signal EXCEPT !.resolved = TRUE, !.to = desk[c].e]
  /\ desk' = [desk EXCEPT ![c] = Free]
  /\ UNCHANGED <<endpoint, number, profile, camera, seen, tangled>>

ListQueue(all) == {r \in {signal} : r.count > 0 /\ (all \/ ~r.resolved)}
Diagnostics ==
  [open |-> Cardinality(ListQueue(FALSE)),
   resolved |-> Cardinality(ListQueue(TRUE) \ ListQueue(FALSE)),
   total |-> signal.count]

\* A difference that is none, an error, or a process that goes away.
Fail(c) ==
  /\ desk[c] # Free
  /\ desk' = [desk EXCEPT ![c] = Free]
  /\ UNCHANGED <<rows, seen, tangled>>

EndpointsNext ==
  \/ RecordUnmapped
  \/ \E p \in Profile : CreateProfile(p) \/ DeleteProfile(p)
  \/ \E e \in Endpoint : Delete(e)
  \/ \E c \in Clerk :
       \/ \E e \in Endpoint, p \in Profile \cup {NoProfile}, n \in Numbered :
            CreateEndpoint(c, e, p, n)
       \/ \E e \in Endpoint : UpdateEndpoint(c, e)
       \/ \E src \in SUBSET Source, p \in Profile \cup {NoProfile},
             n \in Numbered : Update(c, src, p, n)
       \/ \E s \in Source : ConfigureAlarmSource(c, s) \/ RemoveAlarmSource(c, s)
       \/ \E cams \in BOOLEAN : Configure(c, cams)
       \/ Remove(c)
       \/ \E e \in Endpoint \cup {NoEndpoint} : ResolveUnmapped(c, e)
       \/ Resolve(c) \/ Fail(c)

-----------------------------------------------------------------------------
EndpointsTypeOK ==
  /\ endpoint \in [Endpoint -> TechnicalEndpoint \cup {None}]
  /\ number \subseteq Endpoint /\ profile \subseteq Profile
  /\ camera \subseteq IntegrationCameraMapping
  /\ signal \in UnmappedSignal

\* Whatever create, update, configure, remove and the deletions have done, an
\* alarm source is listed once, its cameras hang on the endpoint that lists it
\* and no camera mapping or door profile reference is left over - unless
\* requests overlapped or an administrator edited a list of ids directly
\* (configure is keyed by external_source_id, with no unique constraint).
AlarmSourcesAgree ==
  /\ \A e \in Endpoint : Exists(e) => endpoint[e].prof \in profile \cup {NoProfile}
  /\ MatchTechnicalEndpoint = number
  /\ ~tangled =>
       /\ \A v, w \in ListSources : v.source = w.source => v = w
       /\ camera = UNION {v.cameras : v \in ListSources}
       /\ \A v \in ListSources : v.cameras \subseteq {<<v.source, v.endpoint>>}

\* No occurrence of an unmapped signal is lost when administrators resolve it
\* while it keeps arriving, the diagnostics count the source once, and the
\* endpoint it was mapped to exists.
OccurrencesKept ==
  /\ Diagnostics.total = seen
  /\ Diagnostics.open + Diagnostics.resolved = (IF seen > 0 THEN 1 ELSE 0)
  /\ signal.to # NoEndpoint => Exists(signal.to)
=============================================================================

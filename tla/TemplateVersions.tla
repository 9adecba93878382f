-------------------------- MODULE TemplateVersions --------------------------
(* The versions of one workflow template (workflow_lifecycle.py): drafts are *)
(* edited, validated against the publish gate, published, deprecated, and    *)
(* instances are pinned to the newest published one. Every operation is one  *)
(* READ COMMITTED transaction that reads without a lock, decides, and writes *)
(* the columns it changed at its commit.                                     *)
EXTENDS Naturals, FiniteSetsExt

CONSTANTS
  VIds,     \* primary keys of version rows, 1 .. n, given out in order
  Editors,  \* requests
  Graph     \* Graph[d]: the graph of definition d

Definitions == DOMAIN Graph

-----------------------------------------------------------------------------
(* The publish gate (publish.py). A graph has a start, node types, edges     *)
(* [from, to, guarded, labelled], nodes that lack a required property or     *)
(* name an unknown capability, and connectors with a re-entry bound.         *)
NodesOf(g) == DOMAIN g.type                                          \* _by_key
OutOf(g, n) == {e \in g.edges : e.from = n}
InOf(g, n) == {e \in g.edges : e.to = n}
SplitTypes == {"and_split", "xor_split", "or_split"}
JoinTypes == {"and_join", "xor_join", "or_join"}

(* validate_graph: the start and both ends of every edge exist.              *)
WellFormed(g) ==
  /\ g.start \in NodesOf(g)
  /\ \A e \in g.edges : {e.from, e.to} \subseteq NodesOf(g)

(* The pairs of nodes joined by a path of at least one edge.                 *)
PathsOf(g) ==
  LET through(u, R) == R \cup {<<p[1], q[2]>> : p \in {r \in R : r[2] = u}, q \in {r \in R : r[1] = u}}
  IN FoldSet(through, {<<e.from, e.to>> : e \in g.edges}, NodesOf(g))

ReachableIn(g) == {g.start} \cup {p[2] : p \in {q \in PathsOf(g) : q[1] = g.start}}

HasCycle(g) == \E p \in PathsOf(g) : p[1] = p[2]

Cardinal(g, n) ==
  LET o == Cardinality(OutOf(g, n))
      i == Cardinality(InOf(g, n))
  IN /\ g.type[n] \in SplitTypes => i = 1 /\ o >= 2
     /\ g.type[n] \in JoinTypes => i >= 2 /\ o = 1
     /\ g.type[n] \in {"event", "function"} => o <= 1

Resolvable(g, n) ==
  /\ g.type[n] = "xor_split" => Cardinality({e \in OutOf(g, n) : ~e.guarded}) <= 1
  /\ g.type[n] = "or_split" => \A e \in OutOf(g, n) : e.labelled

(* validate_publishable returns no issue. Once every node is reachable, any  *)
(* cycle is one a token can enter.                                           *)
Publishable(d) ==
  LET g == Graph[d] IN
  /\ WellFormed(g)
  /\ g.type[g.start] = "event" /\ InOf(g, g.start) = {}
  /\ NodesOf(g) = ReachableIn(g)
  /\ \E n \in NodesOf(g) : OutOf(g, n) = {}
  /\ \A n \in NodesOf(g) : Cardinal(g, n) /\ Resolvable(g, n)
  /\ g.lacking = {}
  /\ g.reentry = {} => ~HasCycle(g)

-----------------------------------------------------------------------------
VARIABLES
  version,  \* version[v]: number, lifecycle, definition, and the graph index built from it
  pinned,   \* the versions an instance is pinned to
  work,     \* work[a]: the open transaction of a
  edited    \* auxiliary: versions with an edit open while they were validated or published

tvars == <<version, pinned, work, edited>>

Missing == {"none", "deleted"}
Lifecycles == {"draft", "validated", "published", "deprecated"}

(* The index rows of a version: those of one definition, or none.            *)
NoIndex == "none"
IndexRows == Definitions \cup {NoIndex}
VersionRow ==
  [no : 0 .. Max(VIds), lifecycle : Lifecycles \cup Missing, def : Definitions, index : IndexRows]
Absent(l) == [no |-> 0, lifecycle |-> l, def |-> CHOOSE d \in Definitions : TRUE, index |-> NoIndex]
Resting == [op |-> "idle"]

TemplateTypeOK ==
  /\ version \in [VIds -> VersionRow]
  /\ pinned \subseteq VIds /\ edited \subseteq VIds
  /\ \A a \in Editors : work[a] = Resting \/ work[a].id \in VIds

TInit ==
  /\ version = [v \in VIds |-> Absent("none")]
  /\ pinned = {}
  /\ work = [a \in Editors |-> Resting]
  /\ edited = {}

Exists(v) == version[v].lifecycle \notin Missing
FreeRows == {v \in VIds : version[v].lifecycle = "none"}
Busy == {a \in Editors : work[a] # Resting}

(* A transaction on v begins. An edit and a validation or publication of the *)
(* same version that are open together are remembered.                       *)
Start(a, r) ==
  LET clash(p, q) == p.id = q.id /\ p.op = "edit" /\ q.op \in {"validate", "publish"}
  IN /\ work[a] = Resting
     /\ work' = [work EXCEPT ![a] = r]
     /\ edited' = edited \cup {r.id : b \in {c \in Busy : clash(work[c], r) \/ clash(r, work[c])}}
     /\ UNCHANGED <<version, pinned>>

Stop(a) == work' = [work EXCEPT ![a] = Resting] /\ UNCHANGED edited
Doing(a, op) == work[a] # Resting /\ work[a].op = op

Amend(v, f, x) == version' = [version EXCEPT ![v][f] = x]

-----------------------------------------------------------------------------
(* A handler's first statement reads the version; what refuses the request   *)
(* on that row alone ends it there.                                          *)

(* create_draft_version: the number is read first, UNIQUE guards it.         *)
CreateVersion(a) ==
  /\ FreeRows # {}
  /\ Start(a, [op |-> "create", id |-> Min(FreeRows),
               no |-> Max({0} \cup {version[v].no : v \in {u \in VIds : Exists(u)}}) + 1])

CreateDraftVersion(a, d) ==
  /\ Doing(a, "create")
  /\ FreeRows # {}
  /\ \A v \in VIds : version[v].no # work[a].no
  /\ version' = [version EXCEPT ![Min(FreeRows)] =
                   [no |-> work[a].no, lifecycle |-> "draft", def |-> d, index |-> NoIndex]]
  /\ Stop(a) /\ UNCHANGED pinned

(* edit_draft: the freeze trigger rejects the write on a published row.      *)
EditVersion(a, v) == version[v].lifecycle = "draft" /\ Start(a, [op |-> "edit", id |-> v])

EditDraft(a, d) ==
  LET v == work[a].id IN
  /\ Doing(a, "edit")
  /\ Exists(v) /\ (version[v].lifecycle = "published" => d = version[v].def)
  /\ Amend(v, "def", d)
  /\ Stop(a) /\ UNCHANGED pinned

(* delete_draft_version: refused if an instance is pinned; the foreign key   *)
(* of the instances restricts the delete once more.                          *)
DeleteVersion(a, v) ==
  /\ version[v].lifecycle = "draft" /\ v \notin pinned
  /\ Start(a, [op |-> "delete", id |-> v])

DeleteDraftVersion(a) ==
  LET v == work[a].id IN
  /\ Doing(a, "delete")
  /\ v \notin pinned
  /\ version' = [version EXCEPT ![v] = Absent("deleted")]
  /\ Stop(a) /\ UNCHANGED pinned

(* validate: the definition it read passes the gate, and becomes the index.  *)
(* A version read as validated keeps its lifecycle and is indexed again.     *)
ValidateVersion(a, v) ==
  /\ version[v].lifecycle \in {"draft", "validated"}
  /\ Start(a, [op |-> "validate", id |-> v, def |-> version[v].def, was |-> version[v].lifecycle])
  /\ Publishable(version[v].def)

RebuildGraphIndex(r, d) == [r EXCEPT !.index = d]

Validate(a) ==
  LET r == work[a] IN
  /\ Doing(a, "validate")
  /\ Exists(r.id)
  /\ version' = [version EXCEPT ![r.id] =
       [RebuildGraphIndex(@, r.def) EXCEPT !.lifecycle = IF r.was = "draft" THEN "validated" ELSE @]]
  /\ Stop(a) /\ UNCHANGED pinned

(* publish: no other version is touched, and the definition not looked at.   *)
PublishVersion(a, v) == version[v].lifecycle = "validated" /\ Start(a, [op |-> "publish", id |-> v])

Publish(a) ==
  /\ Doing(a, "publish")
  /\ Exists(work[a].id)
  /\ Amend(work[a].id, "lifecycle", "published")
  /\ Stop(a) /\ UNCHANGED pinned

DeprecateVersion(a, v) == version[v].lifecycle = "published" /\ Start(a, [op |-> "deprecate", id |-> v])

Deprecate(a) ==
  /\ Doing(a, "deprecate")
  /\ Exists(work[a].id)
  /\ Amend(work[a].id, "lifecycle", "deprecated")
  /\ Stop(a) /\ UNCHANGED pinned

(* start_for_event: the published version with the highest number.           *)
Current ==
  LET published == {v \in VIds : version[v].lifecycle = "published"}
  IN {v \in published : \A u \in published : version[u].no <= version[v].no}

StartEventWorkflow(a) == \E v \in Current : Start(a, [op |-> "start", id |-> v])

StartForEvent(a) ==
  /\ Doing(a, "start")
  /\ Exists(work[a].id)
  /\ pinned' = pinned \cup {work[a].id}
  /\ Stop(a) /\ UNCHANGED version

Abandon(a) == a \in Busy /\ Stop(a) /\ UNCHANGED <<version, pinned>>

TNext ==
  \E a \in Editors :
    \/ CreateVersion(a) \/ StartEventWorkflow(a)
    \/ \E v \in VIds : EditVersion(a, v) \/ DeleteVersion(a, v) \/ ValidateVersion(a, v)
                       \/ PublishVersion(a, v) \/ DeprecateVersion(a, v)
    \/ \E d \in Definitions : CreateDraftVersion(a, d) \/ EditDraft(a, d)
    \/ DeleteDraftVersion(a) \/ Validate(a) \/ Publish(a) \/ Deprecate(a) \/ StartForEvent(a)
    \/ Abandon(a)

TSpec == TInit /\ [][TNext]_tvars

-----------------------------------------------------------------------------
(* What runs has passed the gate: a version that is published, or that an    *)
(* instance is pinned to, exists, has a publishable definition and the index *)
(* of that definition, unless an edit of it overlapped its validation or     *)
(* publication (validate, publish, start_for_event).                         *)
RunnableIsSound ==
  \A v \in VIds : version[v].lifecycle = "published" \/ v \in pinned =>
    /\ Exists(v)
    /\ \/ v \in edited
       \/ version[v].index = version[v].def /\ Publishable(version[v].def)
=============================================================================

------------------------------- MODULE Displays -------------------------------
(***************************************************************************)
(* The monitor wall, the client popups and an event's cameras.  A routing  *)
(* command (set, reset, apply a profile) compares its layout with the      *)
(* routes recorded, switches the outputs that differ one by one at the     *)
(* device and then records them in one transaction; the device remembers   *)
(* the commands it has executed.  Commands of several operators            *)
(* interleave, the device may refuse an output in the middle, the process  *)
(* may die, a failed command may be repeated.  The envelope around a       *)
(* command is module Commands, the dispatcher of camera actions Outbox.    *)
(***************************************************************************)
EXTENDS FiniteSets, Naturals, Sequences, FiniteSetsExt

CONSTANTS
  Outputs, Inputs,
  FixedOutput, FixedInput,  \* FIXED_ASSIGNMENTS
  Standard,                 \* STANDARD_LAYOUT
  Layouts,                  \* layouts operators save as a profile
  Wishes,                   \* assignments operators ask for
  Orders,                   \* command ids
  Popups, Viewers,
  Cameras,                  \* the cameras of the event's alarm
  Focuses,                  \* command ids of focus requests
  MaxAttempts               \* MAX_ATTEMPTS of the dispatcher

VARIABLES
  wall,     \* what the device shows on every output
  replays,  \* the device's memory of commands: pairs of command and output
  route,    \* monitor_routes
  profile,  \* monitor_profiles: the layout of the one name, NoLayout without it
  order,    \* every command: how far it is
  torn,     \* auxiliary: outputs whose switching was not recorded, or whose
            \* commands overlapped, or that a repeated command covers
  popup,    \* client_popup_events
  view,     \* every client: the popups it has fetched, its request
  shown,    \* auxiliary: audited deliveries, and whether deliveries overlapped
  action,   \* camera rows of the outbox by dedupe key
  log,      \* the CAMERA_* rows of the event's log
  panel,    \* every client: the cameras it lists, its focus request
  last,     \* auxiliary: the last outcome of each camera at the provider
  blurred   \* auxiliary: cameras whose last dispatch overlapped another, was cut
            \* off, or whose note was lost

walls == <<wall, replays, route, profile, order, torn>>
popups == <<popup, view, shown>>
cameras == <<action, log, panel, last, blurred>>
svars == <<walls, popups, cameras>>

Dark == "none"
NoLayout == [o \in {} |-> Dark]

MonitorRoute == [Outputs -> Inputs \cup {Dark}]

WallInit ==
  /\ wall = [o \in Outputs |-> Dark] /\ route = [o \in Outputs |-> Dark]
  /\ replays = {} /\ profile = NoLayout /\ torn = {}
  /\ order = [c \in Orders |-> [at |-> "new"]]

ValidateAssignment(o, i) ==
  /\ o \in Outputs /\ i \in Inputs
  /\ o = FixedOutput => i = FixedInput

ValidAssignments(layout) == \A o \in DOMAIN layout : ValidateAssignment(o, layout[o])

ValidateLayout(layout) == DOMAIN layout = Outputs /\ ValidAssignments(layout)

-----------------------------------------------------------------------------
(* Profiles: a name is given once, a layout covers every output. *)

SetProfile(layout) ==
  /\ profile' = layout
  /\ UNCHANGED <<wall, replays, route, order, torn, popups, cameras>>

CreateProfile(layout) ==
  ValidateLayout(layout) /\ profile = NoLayout /\ SetProfile(layout)

UpdateProfile(layout) ==
  ValidateLayout(layout) /\ profile \notin {NoLayout, layout} /\ SetProfile(layout)

DeleteProfile == profile # NoLayout /\ SetProfile(NoLayout)

-----------------------------------------------------------------------------
(* Routing commands *)

Move(c, rec) == order' = [order EXCEPT ![c] = rec]

\* A command is new, or repeats one of its kind that failed: then its id is used
\* again, and the device may know it.
Begin(c, kind, layout) ==
  /\ order[c].at \in {"new", "failed"} /\ ValidAssignments(layout)
  /\ Move(c, [at |-> "asked", kind |-> kind, layout |-> layout,
              again |-> order[c].at = "failed"])
  /\ UNCHANGED <<wall, replays, route, profile, torn, popups, cameras>>

\* What a command puts on the wall: the standard layout, or the profile as it is now,
\* also when it has changed since a first attempt.
StandardRoutes == {Standard}
ProfileRoutes == IF profile = NoLayout THEN {} ELSE {profile}

\* The handlers.
Repeats(c, kind) == order[c].at = "failed" => order[c].kind = kind

SetRoutes(c, wish) ==
  /\ Repeats(c, "set") /\ (order[c].at = "failed" => order[c].layout = wish)
  /\ Begin(c, "set", wish)
ResetStandard(c) == Repeats(c, "reset") /\ \E layout \in StandardRoutes : Begin(c, "reset", layout)
ApplyProfile(c) == Repeats(c, "apply") /\ \E layout \in ProfileRoutes : Begin(c, "apply", layout)

Busy(o) == {c \in Orders : order[c].at = "switching" /\ o \in DOMAIN order[c].changes}

\* The routes as recorded; outputs that already have their input are left out.
CurrentRoutes(c) ==
  /\ order[c].at = "asked"
  /\ LET layout == order[c].layout
         differ == {o \in DOMAIN layout : route[o] # layout[o]}
     IN
     /\ Move(c, [at |-> "switching", kind |-> order[c].kind, layout |-> layout,
                 again |-> order[c].again,
                 changes |-> [o \in differ |-> layout[o]], todo |-> differ])
     /\ torn' = torn \cup {o \in differ : order[c].again \/ Busy(o) # {}}
  /\ UNCHANGED <<wall, replays, route, profile, popups, cameras>>

\* The device: a command it knows for the output is answered from memory.
SetRoute(c, o) ==
  /\ order[c].at = "switching" /\ o \in order[c].todo
  /\ wall' = IF <<c, o>> \in replays THEN wall
             ELSE [wall EXCEPT ![o] = order[c].changes[o]]
  /\ replays' = replays \cup {<<c, o>>}
  /\ Move(c, [order[c] EXCEPT !.todo = @ \ {o}])
  /\ UNCHANGED <<route, profile, torn, popups, cameras>>

Fall(c) == Move(c, [at |-> "failed", kind |-> order[c].kind, layout |-> order[c].layout])

\* mutant: a refusal is passed over and the layout recorded as if it were shown
SwitchFailsRecorded(c) ==
  /\ order[c].at = "switching" /\ Fall(c)
  /\ torn' = torn \cup (DOMAIN order[c].changes \ order[c].todo)
  /\ route' = [o \in Outputs |-> IF o \in DOMAIN order[c].changes
                                 THEN order[c].changes[o] ELSE route[o]]
  /\ UNCHANGED <<wall, replays, profile, popups, cameras>>

\* The device refuses an output or cannot be reached, or the process dies: the
\* outputs switched so far stay switched, nothing is recorded.
SwitchFails(c) ==
  /\ order[c].at = "switching" /\ Fall(c)
  /\ torn' = torn \cup (DOMAIN order[c].changes \ order[c].todo)
  /\ UNCHANGED <<wall, replays, route, profile, popups, cameras>>

\* The transaction that records the routes.  A first command that had the output
\* for itself makes wall and route agree again.
ApplyAssignments(c) ==
  /\ order[c].at = "switching" /\ order[c].todo = {}
  /\ route' = [o \in Outputs |-> IF o \in DOMAIN order[c].changes
                                 THEN order[c].changes[o] ELSE route[o]]
  /\ torn' = torn \ {o \in DOMAIN order[c].changes : ~order[c].again /\ Busy(o) = {c}
                                                     /\ wall[o] = order[c].changes[o]}
  /\ Move(c, [at |-> IF order[c].kind = "apply" THEN "recorded" ELSE "done",
              kind |-> order[c].kind, layout |-> order[c].layout])
  /\ UNCHANGED <<wall, replays, profile, popups, cameras>>

\* A profile's own audit row is a transaction after that; it too may not happen.
AuditApplied(c) ==
  /\ order[c].at = "recorded"
  /\ Move(c, [order[c] EXCEPT !.at = "done"]) \/ Fall(c)
  /\ UNCHANGED <<wall, replays, route, profile, torn, popups, cameras>>

WallNext ==
  \/ \E layout \in Layouts : CreateProfile(layout) \/ UpdateProfile(layout)
  \/ DeleteProfile
  \/ \E c \in Orders :
       \/ \E wish \in Wishes : SetRoutes(c, wish)
       \/ ResetStandard(c) \/ ApplyProfile(c)
       \/ CurrentRoutes(c) \/ SwitchFails(c) \/ ApplyAssignments(c) \/ AuditApplied(c)
       \/ \E o \in Outputs : SetRoute(c, o)

-----------------------------------------------------------------------------
(* Popups: fetched by the clients of a workplace, confirmed and dismissed. *)

NoRequest == [at |-> "rest"]
ClientPopupEvent == [delivered : BOOLEAN, dismissed : BOOLEAN, live : BOOLEAN]

PopupsInit ==
  /\ popup = [p \in Popups |-> [delivered |-> FALSE, dismissed |-> FALSE, live |-> TRUE]]
  /\ view = [v \in Viewers |-> [has |-> {}, req |-> NoRequest]]
  /\ shown = [p \in Popups |-> [audits |-> 0, overlapped |-> FALSE]]

\* Time passes the popup's expires_at.
Expire(p) ==
  /\ popup[p].live
  /\ popup' = [popup EXCEPT ![p].live = FALSE]
  /\ UNCHANGED <<walls, cameras, view, shown>>

PendingFor == {p \in Popups : ~popup[p].dismissed /\ popup[p].live}

ListPopups(v) ==
  /\ view' = [view EXCEPT ![v].has = PendingFor]
  /\ UNCHANGED <<walls, cameras, popup, shown>>

\* A request on a popup the client has fetched, whatever became of it: the row is read ...
Require(v, p, what) ==
  /\ view[v].req = NoRequest /\ p \in view[v].has
  /\ view' = [view EXCEPT ![v].req = [at |-> what, id |-> p, first |-> ~popup[p].delivered]]
  /\ UNCHANGED <<walls, cameras, popup, shown>>

Rests(v) == view' = [view EXCEPT ![v].req = NoRequest]

\* ... and written: the first confirmation is audited.
MarkDelivered(v) ==
  /\ view[v].req.at = "deliver" /\ Rests(v)
  /\ LET p == view[v].req.id IN
     /\ popup' = [popup EXCEPT ![p].delivered = @ \/ view[v].req.first]
     /\ shown' = IF view[v].req.first
                 THEN [shown EXCEPT ![p] = [audits |-> @.audits + 1,
                         overlapped |-> @.overlapped \/ popup[p].delivered]]
                 ELSE shown
  /\ UNCHANGED <<walls, cameras>>

Dismiss(v) ==
  /\ view[v].req.at = "dismiss" /\ Rests(v)
  /\ popup' = [popup EXCEPT ![view[v].req.id].dismissed = TRUE]
  /\ UNCHANGED <<walls, cameras, shown>>

PopupsNext ==
  \/ \E p \in Popups : Expire(p)
  \/ \E v \in Viewers :
       \/ ListPopups(v) \/ MarkDelivered(v) \/ Dismiss(v)
       \/ \E p \in Popups, what \in {"deliver", "dismiss"} : Require(v, p, what)

-----------------------------------------------------------------------------
(* The cameras of an event: an alarm's rule opens them as a group, operators *)
(* open one again.                                                           *)

\* The dedupe keys: the rule's action, or focus:event:camera:command.
Key == {<<"alarm">>} \cup (Cameras \X Focuses)
CameraRefs(k) == IF k = <<"alarm">> THEN Cameras ELSE {k[1]}
NoRow == [at |-> "none", attempts |-> 0, audits |-> 0, alone |-> TRUE]

CamerasInit ==
  /\ action = [k \in Key |-> NoRow] /\ log = <<>> /\ blurred = {}
  /\ panel = [v \in Viewers |-> [has |-> {}, req |-> NoRequest]]
  /\ last = [c \in Cameras |-> "none"]

OpenGroupAction ==
  /\ action[<<"alarm">>] = NoRow
  /\ action' = [action EXCEPT ![<<"alarm">>].at = "pending"]
  /\ UNCHANGED <<walls, popups, log, panel, last, blurred>>

\* The cameras the log names, each with its newest mark.
CameraTrail ==
  [c \in UNION {log[i].refs : i \in DOMAIN log} |->
     log[Max({i \in DOMAIN log : c \in log[i].refs})].mark]

\* Every camera asked for is listed, resolved or not, provider or none.
ResolveCameras(refs, found) == [c \in refs |-> IF c \in found THEN "resolved" ELSE "unknown"]

ListEventCameras(v, found) ==
  /\ panel' = [panel EXCEPT ![v].has = DOMAIN ResolveCameras(DOMAIN CameraTrail, found)]
  /\ UNCHANGED <<walls, popups, action, log, last, blurred>>

\* The handler checks the trail ...
FocusEventCamera(v, c, f) ==
  /\ panel[v].req = NoRequest /\ c \in panel[v].has /\ c \in DOMAIN CameraTrail
  /\ panel' = [panel EXCEPT ![v].req = [at |-> "focus", key |-> <<c, f>>]]
  /\ UNCHANGED <<walls, popups, action, log, last, blurred>>

\* ... and enqueues; only the request that inserted the row is audited.
FocusCommit(v) ==
  /\ panel[v].req.at = "focus" /\ panel' = [panel EXCEPT ![v].req = NoRequest]
  /\ LET k == panel[v].req.key IN
     action' = IF action[k] # NoRow THEN action
               ELSE [action EXCEPT ![k].at = "pending", ![k].audits = 1]
  /\ UNCHANGED <<walls, popups, log, last, blurred>>

\* One camera that fails fails the group.
GuardCameras(refs, failing) == refs \cap failing = {}
Exhausted(k) == action[k].attempts + 1 >= MaxAttempts
InFlight(c) == {k \in Key : action[k].at \in {"opened", "raised"} /\ c \in CameraRefs(k)}

\* A dispatcher hands a row to the provider.  The outcome counts once it is final.
OpenCamera(k, failing) ==
  LET refs == CameraRefs(k)
      ok == GuardCameras(refs, failing)
      beside == UNION {InFlight(c) : c \in refs}
  IN
  /\ action[k].at = "pending"
  /\ action' = [j \in Key |->
       IF j = k THEN [action[k] EXCEPT !.at = IF ok THEN "opened" ELSE "raised", !.alone = beside = {}]
       ELSE IF j \in beside THEN [action[j] EXCEPT !.alone = FALSE] ELSE action[j]]
  /\ last' = [c \in Cameras |-> IF c \notin refs THEN last[c]
                                ELSE IF ok THEN "opened" ELSE IF Exhausted(k) THEN "failed" ELSE last[c]]
  /\ UNCHANGED <<walls, popups, log, panel, blurred>>

\* _on_camera_dispatched, _on_terminal_failure: best effort, in the row's transaction.
CameraNote(k, mark) ==
  LET refs == CameraRefs(k) IN
  \/ log' = Append(log, [mark |-> mark, refs |-> refs])
     /\ blurred' = IF action[k].alone THEN blurred \ refs ELSE blurred \cup refs
  \/ UNCHANGED log /\ blurred' = blurred \cup refs

Settle(k) ==
  /\ \/ action[k].at = "opened" /\ CameraNote(k, "opened")
        /\ action' = [action EXCEPT ![k].at = "dispatched"]
     \/ action[k].at = "raised" /\ Exhausted(k) /\ CameraNote(k, "failed")
        /\ action' = [action EXCEPT ![k].at = "failed"]
     \/ action[k].at = "raised" /\ ~Exhausted(k) /\ UNCHANGED <<log, blurred>>
        /\ action' = [action EXCEPT ![k].at = "pending", ![k].attempts = @ + 1]
  /\ UNCHANGED <<walls, popups, panel, last>>

\* The dispatcher dies: the row is pending again, what the provider did stays.
CutOff(k) ==
  /\ action[k].at \in {"opened", "raised"}
  /\ action' = [action EXCEPT ![k].at = "pending"]
  /\ blurred' = blurred \cup CameraRefs(k)
  /\ UNCHANGED <<walls, popups, log, panel, last>>

CamerasNext ==
  \/ OpenGroupAction
  \/ \E v \in Viewers :
       \/ FocusCommit(v) \/ \E found \in SUBSET Cameras : ListEventCameras(v, found)
       \/ \E c \in Cameras, f \in Focuses : FocusEventCamera(v, c, f)
  \/ \E k \in Key : Settle(k) \/ CutOff(k) \/ \E failing \in SUBSET Cameras : OpenCamera(k, failing)

-----------------------------------------------------------------------------
\* The variables stay in their types: routes, the profile's layout, popup rows.
DisplaysTypeOK ==
  /\ route \in MonitorRoute /\ wall \in MonitorRoute
  /\ replays \subseteq Orders \X Outputs /\ torn \subseteq Outputs
  /\ profile \in Layouts \cup {NoLayout}
  /\ popup \in [Popups -> ClientPopupEvent]
  /\ blurred \subseteq Cameras /\ Len(log) <= Cardinality(Key)

\* The wall shows what monitor_routes records on every output, except where a command
\* was stopped halfway, two commands for the output overlapped, or a failed command
\* was repeated; and the lower left output never shows or records anything but its
\* own input, whatever apply_assignments meets.
WallShowsRoutes ==
  /\ \A o \in Outputs \ torn : Busy(o) = {} => wall[o] = route[o]
  /\ {wall[FixedOutput], route[FixedOutput]} \subseteq {Dark, FixedInput}

\* mark_delivered audits a popup as delivered exactly once, unless two clients
\* reported it at the same time, and never before it is marked.
DeliveredOnce ==
  \A p \in Popups :
    /\ popup[p].delivered <=> shown[p].audits > 0
    /\ ~shown[p].overlapped => shown[p].audits <= 1

\* The camera panel tells what the video system did last: the mark the trail has for a
\* camera that no dispatcher works on is the last final outcome there, unless two
\* dispatches overlapped, one was cut off or its note was lost.  A focus command,
\* however often it is sent and to whichever node, makes one row and one audit entry.
CamerasTellTruth ==
  /\ \A c \in Cameras \ blurred : InFlight(c) = {} =>
       last[c] = IF c \in DOMAIN CameraTrail THEN CameraTrail[c] ELSE "none"
  /\ \A k \in Cameras \X Focuses : action[k].audits = IF action[k].at = "none" THEN 0 ELSE 1
=============================================================================

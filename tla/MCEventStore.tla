---------------------------- MODULE MCEventStore ----------------------------
(* One event under three kinds of traffic, each with the verbs and the bound *)
(* that bring out its cases: who owns the event, what status it goes         *)
(* through, and what touches it once it is archived; and what is read of     *)
(* events later, the pages of a list ("pages") and the record of one event   *)
(* ("record"). "traffic" is chosen at the start. Operators and texts are     *)
(* interchangeable.                                                          *)
EXTENDS EventStore, TLC

VARIABLES traffic, clock, entry, walk, lasting, version, steps, notes, noteLog, edit, bundle

Ownership == INSTANCE EventStore WITH
  Verbs <- {"accept", "update", "assign", "takeover"}, MaxVersion <- 4
Lifecycle == INSTANCE EventStore WITH
  Verbs <- {"accept", "acknowledge", "open", "archive", "reactivate"}, MaxVersion <- 8, ExpectBehind <- 0
Archival == INSTANCE EventStore WITH
  Verbs <- {"accept", "acknowledge", "open", "archive", "update"}, MaxVersion <- 6, ExpectBehind <- 0

Archived == INSTANCE Archive WITH
  RowIds <- {1, 2, 3}, Limit <- 1, MaxTime <- 2, Editors <- Users, MaxNotes <- 3,
  MaxChanges <- 2, now <- clock

archiveVars == <<clock, entry, walk, lasting, version, steps, notes, noteLog, edit, bundle>>
allVars == <<traffic, vars, archiveVars>>

Symmetry == Permutations(Users) \cup Permutations(Texts)

MCInit ==
  /\ Init /\ Archived!PagesInit /\ Archived!RecordInit
  /\ traffic \in {"ownership", "lifecycle", "archive", "pages", "record"}

EventNext ==
  \/ traffic = "ownership" /\ Ownership!Next
  \/ traffic = "lifecycle" /\ Lifecycle!Next
  \/ traffic = "archive" /\ Archival!Next

ArchiveNext ==
  \/ traffic = "pages" /\ Archived!PageNext
  \/ traffic = "record" /\ Archived!RecordNext

MCNext ==
  /\ (EventNext /\ UNCHANGED archiveVars) \/ (ArchiveNext /\ UNCHANGED vars)
  /\ UNCHANGED traffic

MCSpec == MCInit /\ [][MCNext]_allVars

(* Whoever follows the cursor of a list sees every row that was there all    *)
(* along, in order, whatever is added or renamed meanwhile; the versions of  *)
(* a note form one chain, and the export of an event shows nothing without   *)
(* the rows that explain it (cursor_page, edit_note, export_event).          *)
ReadsAreWhole ==
  /\ traffic = "pages" => Archived!ArchiveTypeOK /\ Archived!PagesAreComplete
  /\ traffic = "record" => Archived!ArchiveTypeOK /\ Archived!RecordIsWhole
=============================================================================
